-------------------------- MODULE RateLimiterProofs --------------------------
(***************************************************************************)
(* Proofs about RateLimiter, for any number of processes, any limits and   *)
(* any path.  Both promises of the bucket follow from what it holds: the   *)
(* tokens it has now, and what it let through since a time t1, together    *)
(* never exceed the capacity and what was added since t1 - and for the     *)
(* last time at which it was full, they are exactly that.                  *)
(***************************************************************************)
EXTENDS RateLimiter, TLAPS

-----------------------------------------------------------------------------
(***************************************************************************)
(* Numbers.                                                                *)
(***************************************************************************)

LEMMA MinOfTwo ==
  ASSUME NEW a \in Int, NEW b \in Int
  PROVE  Min({a, b}) = IF a <= b THEN a ELSE b
<1>1. \E x \in {a, b} : \A y \in {a, b} : x <= y
  OBVIOUS
<1> QED
  BY <1>1 DEF Min

LEMMA MaxOfTwo ==
  ASSUME NEW a \in Int, NEW b \in Int
  PROVE  Max({a, b}) = IF a >= b THEN a ELSE b
<1>1. \E x \in {a, b} : \A y \in {a, b} : x >= y
  OBVIOUS
<1> QED
  BY <1>1 DEF Max

LEMMA LimitType == Capacity \in Nat \ {0} /\ Rate \in Nat \ {0} /\ Cost \in Nat \ {0}
<1>1. ResolveLimit(Path) \in Limits
  <2> DEFINE matching == {prefix \in DOMAIN RouteLimits : IsPrefix(prefix, Path)}
             longest  == {p \in matching : \A q \in matching : Len(q) <= Len(p)}
  <2>1. CASE longest = {}
    BY <2>1 DEF ResolveLimit, Limits
  <2>2. CASE longest # {}
    <3>1. (CHOOSE p \in longest : TRUE) \in DOMAIN RouteLimits
      BY <2>2
    <3> QED
      BY <2>2, <3>1 DEF ResolveLimit, Limits
  <2> QED
    BY <2>1, <2>2
<1> QED
  BY <1>1, LimiterAssumption DEF Capacity, Rate

\* The key outlives the time it takes to fill the bucket
LEMMA TTLFills == TTL \in Nat \ {0} /\ Capacity <= Rate * TTL
<1> DEFINE c == Capacity
           r == Rate
           n == (c + r - 1) \div r
<1>1. c \in Nat \ {0} /\ r \in Nat \ {0} /\ Margin \in Nat
  BY LimitType, LimiterAssumption
<1> HIDE DEF c, r
<1>2. n \in Nat \ {0} /\ c <= r * n
  BY <1>1
<1>3. r * n <= r * (n + Margin)
  BY <1>1, <1>2
<1> QED
  BY <1>1, <1>2, <1>3 DEF TTL, c, r

-----------------------------------------------------------------------------
(***************************************************************************)
(* The inductive invariant.                                                *)
(***************************************************************************)

\* What is in the bucket now
Level == Refilled(bucket, now)

\* A bucket that was written by clocks that were right, until it expires
BucketInv ==
  bucket # NoBucket =>
    /\ bucket.last <= now
    /\ bucket.expires = bucket.last + TTL

ThroughInv ==
  /\ \A t \in 0 .. MaxTime : t >= now => through[t] = through[now]
  /\ \A t \in 0 .. MaxTime : through[t] >= 0

\* Since any time, the bucket has let through no more than its promise leaves
\* for what it still holds; since it was full for the last time, no less
NeverMore == \A t1 \in 0 .. now : Admitted(t1, now) + Level <= Capacity + Rate * (now - t1)
NeverLess == \E t1 \in 0 .. now : Admitted(t1, now) + Level >= Capacity + Rate * (now - t1)

BoundInv == BucketInv /\ NeverMore /\ NeverLess /\ RateBound

IInv == TypeOK /\ ThroughInv /\ (~late => BoundInv)

-----------------------------------------------------------------------------
(***************************************************************************)
(* The bucket.                                                             *)
(***************************************************************************)

Bucket == [tokens : 0 .. Capacity, last : 0 .. MaxTime, expires : 0 .. MaxTime + TTL]

LEMMA RefilledIs ==
  ASSUME NEW b \in Bucket, NEW t \in Nat
  PROVE  Refilled(b, t) =
           IF b = NoBucket THEN Capacity
           ELSE LET full == b.tokens + (IF t >= b.last THEN t - b.last ELSE 0) * Rate
                IN  IF Capacity <= full THEN Capacity ELSE full
<1>1. b.last \in Int /\ b.tokens \in Int /\ Capacity \in Int /\ Rate \in Int
  BY LimitType DEF Bucket
<1> DEFINE elapsed == Max({0, t - b.last})
<1>2. elapsed = (IF t >= b.last THEN t - b.last ELSE 0) /\ elapsed \in Int
  BY <1>1, MaxOfTwo
<1> HIDE DEF elapsed
<1>3. elapsed * Rate \in Int
  BY <1>1, <1>2
<1>4. Min({Capacity, b.tokens + elapsed * Rate}) =
        IF Capacity <= b.tokens + elapsed * Rate
          THEN Capacity ELSE b.tokens + elapsed * Rate
  BY <1>1, <1>3, MinOfTwo
<1> QED
  BY <1>2, <1>4 DEF Refilled, elapsed

LEMMA RefilledType ==
  ASSUME NEW b \in Bucket, NEW t \in Nat
  PROVE  Refilled(b, t) \in 0 .. Capacity
<1>1. (IF t >= b.last THEN t - b.last ELSE 0) * Rate \in Nat
  BY LimitType DEF Bucket
<1>2. b.tokens \in Nat
  BY DEF Bucket
<1> QED
  BY <1>1, <1>2, RefilledIs, LimitType

-----------------------------------------------------------------------------
(***************************************************************************)
(* Type correctness.                                                       *)
(***************************************************************************)

LEMMA NoBucketType == NoBucket \in Bucket
  BY LimitType, TTLFills, LimiterAssumption DEF NoBucket, Bucket

LEMMA TypeInit == Init => TypeOK
<1> SUFFICES ASSUME Init PROVE TypeOK
  OBVIOUS
<1> USE DEF Init
<1>1. bucket \in [tokens : 0 .. Capacity, last : 0 .. MaxTime, expires : 0 .. MaxTime + TTL]
  BY NoBucketType DEF Bucket
<1>2. MaxTime \in Nat /\ 0 \in 0 .. MaxTime
  BY LimiterAssumption
<1>3. through \in [0 .. MaxTime -> Nat]
  BY DEF NoneThrough
<1>4. stamp \in [Processes -> 0 .. MaxTime]
  BY <1>2
<1> QED
  BY <1>1, <1>2, <1>3, <1>4 DEF TypeOK

\* A clock that is read is in its range
LEMMA ClockRead ==
  ASSUME TypeOK, NEW w \in Processes,
         stamp' = stamp \/ stamp' = [stamp EXCEPT ![w] = now]
  PROVE  stamp' \in [Processes -> 0 .. MaxTime]
<1>1. now \in Int /\ now <= now
  BY DEF TypeOK
<1>2. CASE stamp' = stamp
  BY <1>2 DEF TypeOK
<1>3. CASE stamp' = [stamp EXCEPT ![w] = now]
  BY <1>1, <1>3 DEF TypeOK
<1> QED
  BY <1>2, <1>3

LEMMA TypeStep ==
  ASSUME TypeOK, [Next]_vars
  PROVE  TypeOK'
<1> USE DEF Bucket
<1>1. ASSUME NEW w \in Processes, Arrive(w) PROVE TypeOK'
  <2>1. /\ rq' \in [Processes -> {"idle", "load", "eval"}]
        /\ stamp' = stamp \/ stamp' = [stamp EXCEPT ![w] = now]
    BY <1>1 DEF Arrive, ReadClock, TypeOK
  <2>2. stamp' \in [Processes -> 0 .. MaxTime]
    BY <2>1, ClockRead
  <2> QED
    BY <1>1, <2>1, <2>2 DEF Arrive, TypeOK
<1>2. ASSUME NEW w \in Processes, LoadScript(w) PROVE TypeOK'
  <2>1. /\ rq' \in [Processes -> {"idle", "load", "eval"}]
        /\ outcome' \in [Processes -> {"none", "allowed", "denied", "open"}]
        /\ sha' \in [Processes -> BOOLEAN] /\ scripts' \in BOOLEAN
    BY <1>2 DEF LoadScript, ReadClock, Finish, TypeOK
  <2>2. stamp' \in [Processes -> 0 .. MaxTime]
    <3>1. stamp' = stamp \/ stamp' = [stamp EXCEPT ![w] = now]
      BY <1>2 DEF LoadScript, ReadClock
    <3> QED
      BY <3>1, ClockRead
  <2> QED
    BY <1>2, <2>1, <2>2 DEF LoadScript, TypeOK
<1>3. ASSUME NEW w \in Processes, Evalsha(w) PROVE TypeOK'
  <2>1. /\ rq' \in [Processes -> {"idle", "load", "eval"}]
        /\ outcome' \in [Processes -> {"none", "allowed", "denied", "open"}]
    BY <1>3 DEF Evalsha, TakeToken, Finish, TypeOK
  <2>2. bucket' \in Bucket /\ late' \in BOOLEAN /\ through' \in [0 .. MaxTime -> Nat]
    <3>1. CASE TakeToken(w)
      <4> DEFINE tokens == Refilled(bucket, stamp[w])
                 left   == IF tokens >= Cost THEN tokens - Cost ELSE tokens
      <4>1. stamp[w] \in 0 .. MaxTime /\ stamp[w] \in Nat /\ now + TTL \in 0 .. MaxTime + TTL
        BY LimiterAssumption, TTLFills DEF TypeOK
      <4>2. left \in 0 .. Capacity
        <5>1. tokens \in 0 .. Capacity
          BY <4>1, RefilledType DEF TypeOK
        <5> QED
          BY <5>1, LimitType
      <4>3. bucket' = [tokens |-> left, last |-> stamp[w], expires |-> now + TTL]
        BY <3>1 DEF TakeToken
      <4> HIDE DEF left
      <4>4. bucket' \in Bucket
        BY <4>1, <4>2, <4>3
      <4>5. late' \in BOOLEAN
        BY <3>1 DEF TakeToken
      <4>6. \A t \in 0 .. MaxTime : through[t] + (IF t >= now THEN Cost ELSE 0) \in Nat
        <5>1. \A t \in 0 .. MaxTime : through[t] \in Nat
          BY DEF TypeOK
        <5> QED
          BY <5>1, LimitType
      <4>7. \/ through' = through
            \/ through' = [t \in 0 .. MaxTime |-> through[t] + (IF t >= now THEN Cost ELSE 0)]
        BY <3>1 DEF TakeToken, Taken
      <4> QED
        BY <4>4, <4>5, <4>6, <4>7 DEF TypeOK
    <3>2. CASE UNCHANGED <<bucket, through, late>>
      BY <3>2 DEF TypeOK
    <3> QED
      BY <1>3, <3>1, <3>2 DEF Evalsha
  <2> QED
    BY <1>3, <2>1, <2>2 DEF Evalsha, TypeOK
<1>4. CASE Tick
  <2>1. now' \in 0 .. MaxTime
    BY <1>4, LimiterAssumption DEF Tick, TypeOK
  <2>2. bucket' \in Bucket
    BY <1>4, NoBucketType DEF Tick, TypeOK
  <2> QED
    BY <1>4, <2>1, <2>2 DEF Tick, TypeOK
<1>5. CASE RedisStops
  <2>1. bucket' \in Bucket
    BY <1>5, NoBucketType DEF RedisStops, TypeOK
  <2>2. through' \in [0 .. MaxTime -> Nat]
    BY <1>5 DEF RedisStops, NoneThrough, TypeOK
  <2> QED
    BY <1>5, <2>1, <2>2 DEF RedisStops, TypeOK
<1>6. CASE RedisStarts
  BY <1>6 DEF RedisStarts, TypeOK
<1>7. CASE UNCHANGED vars
  BY <1>7 DEF vars, TypeOK
<1> QED
  BY <1>1, <1>2, <1>3, <1>4, <1>5, <1>6, <1>7 DEF Next

\* The bucket, the clocks and the requests keep their types, and no bucket ever
\* holds more than its capacity, whatever clock the script is sent.
THEOREM TypeCorrect == Spec => []TypeOK
<1> QED
  BY TypeInit, TypeStep, PTL DEF Spec

-----------------------------------------------------------------------------
(***************************************************************************)
(* The two promises.                                                       *)
(***************************************************************************)

LEMMA OneMore == \A r, n \in Int : r * (n + 1) = r * n + r
  OBVIOUS

LEMMA AdmittedType ==
  ASSUME TypeOK, NEW t1 \in 0 .. MaxTime, NEW t2 \in 0 .. MaxTime
  PROVE  Admitted(t1, t2) \in Int
<1>1. t1 # 0 => t1 - 1 \in 0 .. MaxTime
  BY LimiterAssumption
<1>2. through[t2] \in Int /\ (t1 # 0 => through[t1 - 1] \in Int)
  BY <1>1 DEF TypeOK
<1> QED
  BY <1>2 DEF Admitted

\* Time fills the bucket by its rate, up to its capacity, and an expired key
\* makes no difference: the bucket it stood for was full.
LEMMA LevelAfterTick ==
  ASSUME TypeOK, TypeOK', BucketInv, Tick
  PROVE  Level' = IF Level + Rate >= Capacity THEN Capacity ELSE Level + Rate
<1>1. /\ bucket \in Bucket /\ bucket' \in Bucket /\ now \in Nat /\ now' = now + 1 /\ now' \in Nat
      /\ Capacity \in Nat /\ Rate \in Nat /\ TTL \in Nat /\ Capacity <= Rate * TTL
  BY LimitType, TTLFills, LimiterAssumption DEF TypeOK, Tick, Bucket
<1>2. CASE bucket = NoBucket
  <2>1. bucket' = NoBucket
    BY <1>2 DEF Tick
  <2> QED
    BY <1>1, <1>2, <2>1 DEF Level, Refilled
<1>3. CASE bucket # NoBucket
  <2> DEFINE e     == now - bucket.last
             full  == bucket.tokens + e * Rate
             full1 == bucket.tokens + (e + 1) * Rate
  <2>1. /\ bucket.last \in Nat /\ bucket.tokens \in Nat /\ e \in Nat
        /\ now' - bucket.last = e + 1
    BY <1>1, <1>3 DEF BucketInv, Bucket
  <2>2. full \in Nat /\ full1 = full + Rate
    BY <1>1, <2>1
  <2>3. Level = IF Capacity <= full THEN Capacity ELSE full
    BY <1>1, <1>3, <2>1, RefilledIs DEF Level
  <2>4. CASE bucket' = bucket
    <3>1. Level' = IF Capacity <= full1 THEN Capacity ELSE full1
      BY <1>1, <1>3, <2>1, <2>4, RefilledIs DEF Level
    <3> QED
      BY <1>1, <2>2, <2>3, <3>1
  <2>5. CASE bucket.expires <= now'
    <3>1. bucket' = NoBucket
      BY <2>5 DEF Tick
    <3>2. Level' = Capacity
      BY <1>1, <3>1 DEF Level, Refilled
    <3>3. TTL <= e + 1
      BY <1>1, <1>3, <2>1, <2>5 DEF BucketInv
    <3>4. Rate * TTL <= (e + 1) * Rate
      BY <1>1, <2>1, <3>3
    <3>5. Capacity <= full1
      BY <1>1, <2>1, <3>4
    <3> QED
      BY <1>1, <2>2, <2>3, <3>2, <3>5
  <2> QED
    BY <1>1, <2>4, <2>5 DEF Tick, Bucket
<1> QED
  BY <1>2, <1>3

\* NeverMore bounds every stretch of time that ends now
LEMMA BoundAtNow ==
  ASSUME TypeOK, NeverMore, NEW t1 \in 0 .. now
  PROVE  Admitted(t1, now) <= Capacity + Rate * (now - t1)
<1>0. /\ bucket \in Bucket /\ now \in Nat /\ t1 \in 0 .. MaxTime /\ now \in 0 .. MaxTime
      /\ Capacity \in Nat /\ Rate \in Nat
  BY LimitType, LimiterAssumption DEF TypeOK, Bucket
<1>1. Level \in Nat
  BY <1>0, RefilledType DEF Level
<1>2. Admitted(t1, now) \in Int /\ Rate * (now - t1) \in Int
  BY <1>0, AdmittedType
<1> QED
  BY <1>0, <1>1, <1>2 DEF NeverMore

\* What was let through by now is all that was let through, and stays so
LEMMA ThroughKept ==
  ASSUME TypeOK, ThroughInv, NEW w \in Processes, TakeToken(w), now' = now
  PROVE  ThroughInv'
<1> DEFINE d == IF Refilled(bucket, stamp[w]) >= Cost THEN Cost ELSE 0
<1>1. through \in [0 .. MaxTime -> Nat] /\ now \in 0 .. MaxTime /\ MaxTime \in Nat
  BY LimiterAssumption DEF TypeOK
<1>2. d \in Nat
  BY LimitType
<1>3. \A t \in 0 .. MaxTime : through'[t] = through[t] + (IF t >= now THEN d ELSE 0)
  <2>1. CASE Refilled(bucket, stamp[w]) >= Cost
    BY <2>1 DEF TakeToken, Taken
  <2>2. CASE ~(Refilled(bucket, stamp[w]) >= Cost)
    BY <1>1, <2>2 DEF TakeToken
  <2> QED
    BY <2>1, <2>2
<1> HIDE DEF d
<1> QED
  BY <1>1, <1>2, <1>3 DEF ThroughInv

LEMMA ThroughKeptByTick ==
  ASSUME TypeOK, ThroughInv, Tick
  PROVE  ThroughInv'
<1>1. now \in 0 .. MaxTime /\ now' = now + 1 /\ now' \in 0 .. MaxTime /\ through' = through
      /\ MaxTime \in Nat
  BY LimiterAssumption DEF Tick, TypeOK
<1> QED
  BY <1>1 DEF ThroughInv

\* The script takes from the bucket what it lets through
LEMMA TakeKeeps ==
  ASSUME TypeOK, TypeOK', ThroughInv, BoundInv, NEW w \in Processes,
         TakeToken(w), now' = now, ~late'
  PROVE  ThroughInv' /\ BoundInv'
<1> DEFINE tokens == Refilled(bucket, stamp[w])
           d      == IF tokens >= Cost THEN Cost ELSE 0
<1>1. stamp[w] = now /\ tokens = Level
  BY DEF TakeToken, Level
<1>2. /\ now \in Nat /\ now \in 0 .. MaxTime /\ MaxTime \in Nat /\ bucket \in Bucket
      /\ bucket' \in Bucket /\ Capacity \in Nat /\ Rate \in Nat /\ TTL \in Nat \ {0}
  BY LimitType, TTLFills, LimiterAssumption DEF TypeOK, Bucket
<1>3. Level \in 0 .. Capacity
  BY <1>2, RefilledType DEF Level
<1>4. d \in Nat /\ d <= Level /\ (d = IF Level >= Cost THEN Cost ELSE 0)
  BY <1>1, <1>2, <1>3, LimitType
<1>5. /\ bucket' = [tokens |-> Level - d, last |-> now, expires |-> now + TTL]
      /\ bucket'.tokens = Level - d /\ bucket'.last = now /\ bucket'.expires = now + TTL
  BY <1>1, <1>2, <1>3, <1>4 DEF TakeToken
<1>6. bucket' # NoBucket
  BY <1>2, <1>5 DEF NoBucket
<1>7. Level' = Level - d
  <2>1. Level - d \in 0 .. Capacity
    BY <1>2, <1>3, <1>4
  <2>2. Refilled(bucket', now) =
          IF Capacity <= Level - d + 0 * Rate THEN Capacity ELSE Level - d + 0 * Rate
    BY <1>2, <1>5, <1>6, RefilledIs
  <2> QED
    BY <1>2, <1>3, <1>4, <2>1, <2>2 DEF Level
<1>8. \A t \in 0 .. MaxTime : through'[t] = through[t] + (IF t >= now THEN d ELSE 0)
  <2>1. through \in [0 .. MaxTime -> Nat]
    BY DEF TypeOK
  <2>2. CASE tokens >= Cost
    BY <2>2 DEF TakeToken, Taken
  <2>3. CASE ~(tokens >= Cost)
    BY <2>1, <2>3 DEF TakeToken
  <2> QED
    BY <2>2, <2>3
<1> HIDE DEF d
<1>0. \A t \in 0 .. MaxTime : through[t] \in Nat /\ t \in Int
  <2>1. through \in [0 .. MaxTime -> Nat]
    BY DEF TypeOK
  <2> QED
    BY <1>2, <2>1
<1>9. ThroughInv'
  BY ThroughKept
<1>10. ASSUME NEW t1 \in 0 .. now, NEW t2 \in t1 .. now
       PROVE  Admitted(t1, t2)' = Admitted(t1, t2) + (IF t2 = now THEN d ELSE 0)
  <2>1. /\ t2 \in 0 .. MaxTime /\ t1 \in 0 .. MaxTime /\ (t1 # 0 => t1 - 1 \in 0 .. MaxTime)
        /\ through'[t2] = through[t2] + (IF t2 = now THEN d ELSE 0)
        /\ (t1 # 0 => through'[t1 - 1] = through[t1 - 1])
    <3>1. t2 \in 0 .. MaxTime /\ t1 \in 0 .. MaxTime /\ (t1 # 0 => t1 - 1 \in 0 .. MaxTime)
      BY <1>2
    <3>2. through'[t2] = through[t2] + (IF t2 = now THEN d ELSE 0)
      BY <1>2, <1>8, <3>1
    <3>3. t1 # 0 => through'[t1 - 1] = through[t1 - 1]
      BY <1>0, <1>2, <1>8, <3>1
    <3> QED
      BY <3>1, <3>2, <3>3
  <2>2. through[t2] \in Int /\ (t1 # 0 => through[t1 - 1] \in Int)
    BY <1>0, <2>1
  <2>3. CASE t1 = 0
    BY <1>4, <2>1, <2>2, <2>3 DEF Admitted
  <2>4. CASE t1 # 0
    BY <1>4, <2>1, <2>2, <2>4 DEF Admitted
  <2> QED
    BY <2>3, <2>4
<1>11. \A t1 \in 0 .. now : /\ Admitted(t1, now)' + Level' = Admitted(t1, now) + Level
                            /\ Admitted(t1, now) \in Int
  <2> SUFFICES ASSUME NEW t1 \in 0 .. now
               PROVE  /\ Admitted(t1, now)' + Level' = Admitted(t1, now) + Level
                      /\ Admitted(t1, now) \in Int
    OBVIOUS
  <2>1. Admitted(t1, now) \in Int
    BY <1>2, AdmittedType
  <2>2. (Admitted(t1, now))' = Admitted(t1, now) + d
    BY <1>2, <1>10 DEF Admitted
  <2> QED
    BY <1>3, <1>4, <1>7, <2>1, <2>2
<1>12. NeverMore' /\ NeverLess'
  BY <1>11 DEF BoundInv, NeverMore, NeverLess
<1>13. RateBound'
  <2> SUFFICES ASSUME NEW t1 \in 0 .. now', NEW t2 \in t1 .. now'
               PROVE  Admitted(t1, t2)' <= Capacity + Rate * (t2 - t1)
    BY DEF RateBound
  <2>1. CASE t2 = now
    <3>1. (Admitted(t1, now))' <= Capacity + Rate * (now - t1)
      <4>1. /\ (Admitted(t1, now))' + Level' <= Capacity + Rate * (now - t1)
            /\ (Admitted(t1, now))' \in Int /\ Level' \in Nat
        <5>1. (Admitted(t1, now))' + Level' <= Capacity + Rate * (now - t1)
          BY <1>12 DEF NeverMore
        <5>2. (Admitted(t1, now))' = Admitted(t1, now) + d /\ Admitted(t1, now) \in Int
          BY <1>2, <1>10, AdmittedType DEF Admitted
        <5> QED
          BY <1>3, <1>4, <1>7, <5>1, <5>2
      <4>2. Rate * (now - t1) \in Int
        BY <1>2
      <4> QED
        BY <1>2, <4>1, <4>2
    <3> QED
      BY <2>1, <3>1 DEF Admitted
  <2>2. CASE t2 # now
    <3>1. Admitted(t1, t2)' = Admitted(t1, t2)
      <4>1. Admitted(t1, t2) \in Int
        BY <1>2, AdmittedType
      <4> QED
        BY <1>10, <2>2, <4>1
    <3> QED
      BY <3>1 DEF BoundInv, RateBound, TakeToken
  <2> QED
    BY <2>1, <2>2
<1>14. BucketInv'
  BY <1>2, <1>5 DEF BucketInv
<1> QED
  BY <1>9, <1>12, <1>13, <1>14 DEF BoundInv

\* Time passes: nothing is let through, and the bucket fills
LEMMA TickKeeps ==
  ASSUME TypeOK, TypeOK', ThroughInv, BoundInv, Tick
  PROVE  ThroughInv' /\ BoundInv'
<1>1. /\ now \in Nat /\ now' = now + 1 /\ now \in 0 .. MaxTime /\ now' \in 0 .. MaxTime
      /\ through' = through /\ MaxTime \in Nat /\ bucket \in Bucket
      /\ Capacity \in Nat /\ Rate \in Nat /\ TTL \in Nat
  BY LimitType, TTLFills, LimiterAssumption DEF TypeOK, Tick, Bucket
<1>2. \A t \in 0 .. MaxTime : through[t] \in Nat
  BY DEF TypeOK
<1>3. Level \in 0 .. Capacity
  BY <1>1, RefilledType DEF Level
<1>4. Level' = IF Level + Rate >= Capacity THEN Capacity ELSE Level + Rate
  BY LevelAfterTick DEF BoundInv
<1>5. ThroughInv' /\ through[now'] = through[now]
  BY <1>1, ThroughKeptByTick DEF ThroughInv
<1>6. ASSUME NEW t1 \in 0 .. now
      PROVE  /\ (Admitted(t1, now))' = Admitted(t1, now) /\ Admitted(t1, now')  = Admitted(t1, now)
             /\ Admitted(t1, now) \in Int
             /\ Rate * (now' - t1) = Rate * (now - t1) + Rate /\ Rate * (now - t1) \in Int
  <2>1. Admitted(t1, now) \in Int
    BY <1>1, AdmittedType
  <2>2. Rate * (now' - t1) = Rate * (now - t1) + Rate /\ Rate * (now - t1) \in Int
    <3>1. now' - t1 = (now - t1) + 1 /\ now - t1 \in Int
      BY <1>1
    <3> QED
      BY <1>1, <3>1, OneMore
  <2>3. Admitted(t1, now') = Admitted(t1, now)
    BY <1>5 DEF Admitted
  <2>4. (Admitted(t1, now))' = Admitted(t1, now')
    BY <1>1 DEF Admitted
  <2> QED
    BY <2>1, <2>2, <2>3, <2>4
<1>7. Admitted(now', now') = 0
  BY <1>1, <1>2, <1>5 DEF Admitted
<1>8. \A t1 \in 0 .. now' : (Admitted(t1, now))' = Admitted(t1, now')
  BY <1>1 DEF Admitted
<1>9. NeverMore'
  <2>1. ASSUME NEW t1 \in 0 .. now' PROVE Admitted(t1, now') + Level' <= Capacity + Rate * (now' - t1)
    <3>1. CASE t1 = now'
      BY <1>1, <1>3, <1>4, <1>7, <3>1
    <3>2. CASE t1 # now'
      <4>1. t1 \in 0 .. now
        BY <1>1, <3>2
      <4>2. Admitted(t1, now) + Level <= Capacity + Rate * (now - t1)
        BY <4>1 DEF BoundInv, NeverMore
      <4> QED
        BY <1>1, <1>3, <1>4, <1>6, <4>1, <4>2
    <3> QED
      BY <3>1, <3>2
  <2> QED
    BY <1>8, <2>1 DEF NeverMore
<1>10. NeverLess'
  <2>1. \E t1 \in 0 .. now' : Admitted(t1, now') + Level' >= Capacity + Rate * (now' - t1)
    <3>1. CASE Level + Rate >= Capacity
      <4>1. now' \in 0 .. now' /\ Rate * (now' - now') = 0
        BY <1>1
      <4>2. Admitted(now', now') + Level' >= Capacity + Rate * (now' - now')
        BY <1>1, <1>4, <1>7, <3>1, <4>1
      <4> QED
        BY <4>1, <4>2
    <3>2. CASE ~(Level + Rate >= Capacity)
      <4>1. PICK t1 \in 0 .. now : Admitted(t1, now) + Level >= Capacity + Rate * (now - t1)
        BY DEF BoundInv, NeverLess
      <4>2. t1 \in 0 .. now'
        BY <1>1
      <4>3. Admitted(t1, now') + Level' >= Capacity + Rate * (now' - t1)
        BY <1>1, <1>3, <1>4, <1>6, <3>2, <4>1
      <4> QED
        BY <4>2, <4>3
    <3> QED
      BY <3>1, <3>2
  <2> QED
    BY <1>8, <2>1 DEF NeverLess
<1>11. RateBound'
  <2> SUFFICES ASSUME NEW t1 \in 0 .. now', NEW t2 \in t1 .. now', ~late
               PROVE  Admitted(t1, t2)' <= Capacity + Rate * (t2 - t1)
    BY DEF RateBound, Tick
  <2>0. Admitted(t1, t2)' = Admitted(t1, t2)
    BY <1>1 DEF Admitted
  <2>1. CASE t2 = now'
    <3>1. (Admitted(t1, now))' <= Capacity + Rate * (now' - t1)
      <4>1. NeverMore /\ TypeOK
        BY DEF BoundInv
      <4>2. CASE t1 = now'
        BY <1>1, <1>7, <1>8, <4>2
      <4>3. CASE t1 # now'
        <5>1. t1 \in 0 .. now
          BY <1>1, <4>3
        <5>2. Admitted(t1, now) <= Capacity + Rate * (now - t1)
          BY <4>1, <5>1, BoundAtNow
        <5> QED
          BY <1>1, <1>6, <1>8, <5>1, <5>2
      <4> QED
        BY <4>2, <4>3
    <3> QED
      BY <1>8, <2>0, <2>1, <3>1
  <2>2. CASE t2 # now'
    <3>1. t1 \in 0 .. now /\ t2 \in t1 .. now
      BY <1>1, <2>2
    <3> QED
      BY <2>0, <3>1 DEF BoundInv, RateBound
  <2> QED
    BY <2>1, <2>2
<1>12. BucketInv'
  <2>1. bucket' # NoBucket => bucket' = bucket
    BY DEF Tick
  <2> QED
    BY <1>1, <2>1 DEF BoundInv, BucketInv, Bucket
<1> QED
  BY <1>5, <1>9, <1>10, <1>11, <1>12 DEF BoundInv

\* Nothing has been let through yet, or nothing that still counts
Empty == now \in 0 .. MaxTime /\ bucket = NoBucket /\ through = NoneThrough

LEMMA EmptyIsBound == Empty => ThroughInv /\ BoundInv
<1> SUFFICES ASSUME Empty PROVE ThroughInv /\ BoundInv
  OBVIOUS
<1> USE DEF Empty
<1>1. now \in Nat /\ Capacity \in Nat /\ Rate \in Nat /\ MaxTime \in Nat
  BY LimitType, LimiterAssumption
<1>2. \A t \in 0 .. MaxTime : through[t] = 0
  BY DEF NoneThrough
<1>3. \A t1, t2 \in 0 .. now : Admitted(t1, t2) = 0
  BY <1>1, <1>2 DEF Admitted
<1>4. Level = Capacity
  BY DEF Level, Refilled
<1>5. \A t1 \in 0 .. now : \A t2 \in t1 .. now :
        Rate * (t2 - t1) \in Nat /\ Admitted(t1, t2) = 0
  BY <1>1, <1>3
<1>6. NeverMore
  BY <1>1, <1>4, <1>5 DEF NeverMore
<1>7. NeverLess
  <2>1. now \in 0 .. now /\ Rate * (now - now) = 0
    BY <1>1
  <2> QED
    BY <1>1, <1>3, <1>4, <2>1 DEF NeverLess
<1>8. RateBound
  BY <1>1, <1>5 DEF RateBound
<1>9. ThroughInv /\ BucketInv
  BY <1>1, <1>2 DEF ThroughInv, BucketInv
<1> QED
  BY <1>6, <1>7, <1>8, <1>9 DEF BoundInv

LEMMA Inductive == Spec => []IInv
<1>1. ASSUME Init PROVE IInv
  <2>1. now \in 0 .. MaxTime
    BY <1>1, LimiterAssumption DEF Init
  <2> QED
    BY <1>1, <2>1, TypeInit, EmptyIsBound DEF Init, IInv, Empty
<1>2. ASSUME IInv, [Next]_vars PROVE IInv'
  <2>0. TypeOK /\ TypeOK' /\ ThroughInv /\ (~late => BoundInv)
    BY <1>2, TypeStep DEF IInv
  <2>1. CASE UNCHANGED <<now, bucket, through, late>>
    <3>1. ThroughInv' /\ (~late => BoundInv')
      BY <2>0, <2>1
      DEF ThroughInv, BoundInv, BucketInv, NeverMore, NeverLess, RateBound, Admitted, Level
    <3> QED
      BY <2>0, <2>1, <3>1 DEF IInv
  <2>2. ASSUME NEW w \in Processes, Evalsha(w), TakeToken(w) PROVE IInv'
    <3>1. now' = now
      BY <2>2 DEF Evalsha
    <3>2. CASE ~late'
      BY <2>0, <2>2, <3>1, <3>2, TakeKeeps DEF IInv, TakeToken
    <3>3. CASE late'
      <4>1. ThroughInv'
        BY <2>0, <2>2, <3>1, ThroughKept
      <4> QED
        BY <2>0, <3>3, <4>1 DEF IInv
    <3> QED
      BY <3>2, <3>3
  <2>3. CASE Tick
    <3>1. late' = late
      BY <2>3 DEF Tick
    <3>2. CASE ~late
      BY <2>0, <2>3, <3>1, <3>2, TickKeeps DEF IInv
    <3>3. CASE late
      BY <2>0, <2>3, <3>1, <3>3, ThroughKeptByTick DEF IInv
    <3> QED
      BY <3>2, <3>3
  <2>4. CASE RedisStops /\ bucket' = NoBucket /\ through' = NoneThrough
    <3>1. Empty'
      BY <2>0, <2>4 DEF Empty, TypeOK
    <3>2. (Empty => ThroughInv /\ BoundInv)'
      BY EmptyIsBound, PTL
    <3> QED
      BY <2>0, <3>1, <3>2 DEF IInv
  <2>5. \/ UNCHANGED <<now, bucket, through, late>>
        \/ \E w \in Processes : Evalsha(w) /\ TakeToken(w)
        \/ Tick
        \/ RedisStops /\ bucket' = NoBucket /\ through' = NoneThrough
    BY <1>2 DEF Next, Arrive, LoadScript, Evalsha, RedisStops, RedisStarts, vars
  <2> QED
    BY <2>1, <2>2, <2>3, <2>4, <2>5
<1> QED
  BY <1>1, <1>2, PTL DEF Spec

\* In any stretch of time, the bucket lets through no more than a burst of its
\* capacity and what its rate adds, as long as the clocks are right.
THEOREM RateBoundHolds == Spec => []RateBound
<1>1. IInv => RateBound
  BY DEF IInv, BoundInv, RateBound
<1> QED
  BY <1>1, Inductive, PTL

\* A request is denied only if letting it through would break that promise,
\* whatever part of a token the bucket holds.
THEOREM DeniedOnlyWhenExhaustedHolds == Spec => DeniedOnlyWhenExhausted
<1> DEFINE A == \A w \in Processes :
                  (rq[w] = "eval" /\ rq'[w] = "idle" /\ outcome'[w] = "denied" /\ ~late')
                    => \E t1 \in 0 .. now : Admitted(t1, now) + Cost > Capacity + Rate * (now - t1)
<1>1. ASSUME IInv, [Next]_vars, NEW w \in Processes,
             rq[w] = "eval", rq'[w] = "idle", outcome'[w] = "denied", ~late'
      PROVE  \E t1 \in 0 .. now : Admitted(t1, now) + Cost > Capacity + Rate * (now - t1)
  <2>0. TypeOK
    BY <1>1 DEF IInv
  <2>1. TakeToken(w)
    <3>1. PICK v \in Processes : Arrive(v) \/ LoadScript(v) \/ Evalsha(v)
      BY <1>1 DEF Next, Tick, RedisStops, RedisStarts, vars
    <3>2. v = w
      BY <1>1, <2>0, <3>1
      DEF Arrive, LoadScript, Evalsha, TakeToken, ReadClock, Finish, TypeOK
    <3>3. Evalsha(w)
      BY <1>1, <3>1, <3>2 DEF Arrive, LoadScript
    <3> QED
      BY <1>1, <2>0, <3>3 DEF Evalsha, Finish, TypeOK
  <2>2. ~late /\ stamp[w] = now
    BY <1>1, <2>1 DEF TakeToken
  <2>3. ~(Level >= Cost)
    <3>1. CASE Level >= Cost
      <4>1. outcome'[w] \in {"allowed", "open"}
        BY <2>0, <2>1, <2>2, <3>1 DEF TakeToken, Finish, Level, TypeOK
      <4> QED
        BY <1>1, <4>1
    <3> QED
      BY <3>1
  <2>4. /\ bucket \in Bucket /\ now \in Nat /\ now \in 0 .. MaxTime
        /\ Capacity \in Nat /\ Rate \in Nat
    BY <2>0, LimitType, LimiterAssumption DEF TypeOK, Bucket
  <2>5. Level \in Nat /\ Level < Cost /\ Cost \in Nat
    BY <2>3, <2>4, RefilledType, LimitType DEF Level
  <2>6. PICK t1 \in 0 .. now : Admitted(t1, now) + Level >= Capacity + Rate * (now - t1)
    BY <1>1, <2>2 DEF IInv, BoundInv, NeverLess
  <2>7. Admitted(t1, now) \in Int /\ Rate * (now - t1) \in Int
    <3>1. t1 \in 0 .. MaxTime
      BY <2>4, LimiterAssumption
    <3> QED
      BY <2>0, <2>4, <3>1, AdmittedType
  <2> QED
    BY <2>4, <2>5, <2>6, <2>7
<1>2. ASSUME IInv, [Next]_vars PROVE A
  BY <1>1, <1>2
<1> QED
  BY <1>2, Inductive, PTL DEF Spec, DeniedOnlyWhenExhausted
=============================================================================
