----------------------------- MODULE RateLimiter -----------------------------
(***************************************************************************)
(* TokenBucketRateLimitMiddleware: the bucket of one client and one path,  *)
(* which the API processes share through Redis.  A process sends its clock *)
(* with the script that takes a token; Redis runs the script atomically,   *)
(* some time later.  The bucket's key expires when it has long been full.  *)
(* Time and what a bucket holds are whole numbers of small units: a token, *)
(* which is what a request costs, is Cost units, so that a bucket may hold *)
(* a part of one.  A process has one request in hand at a time: several of *)
(* them share nothing but the script's digest, which is the same for all.  *)
(***************************************************************************)
EXTENDS SequencesExt

CONSTANTS
  Processes,     \* the API processes
  Path,          \* the path the client requests, as a sequence of its parts
  RouteLimits,   \* _ROUTE_LIMITS: prefix -> [capacity, rate]
  DefaultLimit,  \* _DEFAULT_LIMIT
  Cost,          \* one token, the cost of a request, in the units of the limits
  Margin,        \* the 60 seconds the key outlives a full refill
  MaxTime        \* bound on time

Limits == {RouteLimits[prefix] : prefix \in DOMAIN RouteLimits} \cup {DefaultLimit}

ASSUME LimiterAssumption ==
  /\ \A limit \in Limits : limit.capacity \in Nat \ {0} /\ limit.rate \in Nat \ {0}
  /\ Cost \in Nat \ {0} /\ Margin \in Nat /\ MaxTime \in Nat

\* _resolve_limit: the longest prefix of the path that has a limit
ResolveLimit(path) ==
  LET matching == {prefix \in DOMAIN RouteLimits : IsPrefix(prefix, path)}
      longest  == {p \in matching : \A q \in matching : Len(q) <= Len(p)}
  IN  IF longest = {} THEN DefaultLimit ELSE RouteLimits[CHOOSE p \in longest : TRUE]

Capacity == ResolveLimit(Path).capacity
Rate     == ResolveLimit(Path).rate

\* (mistake: the key expires before the bucket is full again)
TTLMarginOnly == Margin

\* EXPIRE: the time to fill the bucket, rounded up, and the margin
TTL == (Capacity + Rate - 1) \div Rate + Margin

VARIABLES
  now,       \* the time
  bucket,    \* the hash in Redis, or NoBucket
  redisUp,   \* Redis answers
  scripts,   \* Redis knows the script
  sha,       \* sha[w]: process w has loaded the script
  rq,        \* rq[w]: the await the request of process w is at
  stamp,     \* stamp[w]: the clock w sends
  outcome,   \* outcome[w]: what became of the last request of w
  through,   \* history: through[t]: what was taken from the bucket up to time t
  late       \* history: the script has run with a clock that was behind

vars == <<now, bucket, redisUp, scripts, sha, rq, stamp, outcome, through, late>>

NoBucket == [tokens |-> 0, last |-> 0, expires |-> 0]
NoneThrough == [t \in 0 .. MaxTime |-> 0]

Init ==
  /\ now = 0
  /\ bucket = NoBucket
  /\ redisUp = TRUE
  /\ scripts = FALSE
  /\ sha = [w \in Processes |-> FALSE]
  /\ rq = [w \in Processes |-> "idle"]
  /\ stamp = [w \in Processes |-> 0]
  /\ outcome = [w \in Processes |-> "none"]
  /\ through = NoneThrough
  /\ late = FALSE

TypeOK ==
  /\ now \in 0 .. MaxTime
  /\ bucket \in [tokens : 0 .. Capacity, last : 0 .. MaxTime, expires : 0 .. MaxTime + TTL]
  /\ redisUp \in BOOLEAN /\ scripts \in BOOLEAN
  /\ sha \in [Processes -> BOOLEAN]
  /\ rq \in [Processes -> {"idle", "load", "eval"}]
  /\ stamp \in [Processes -> 0 .. MaxTime]
  /\ outcome \in [Processes -> {"none", "allowed", "denied", "open"}]
  /\ through \in [0 .. MaxTime -> Nat]
  /\ late \in BOOLEAN

-----------------------------------------------------------------------------
ReadClock(w) ==
  /\ rq'    = [rq EXCEPT ![w] = "eval"]
  /\ stamp' = [stamp EXCEPT ![w] = now]

Finish(w, how) ==
  /\ rq'      = [rq EXCEPT ![w] = "idle"]
  /\ outcome' = [outcome EXCEPT ![w] = how]

Arrive(w) ==
  /\ rq[w] = "idle"
  /\ IF sha[w]
       THEN ReadClock(w)
       ELSE rq' = [rq EXCEPT ![w] = "load"] /\ UNCHANGED stamp
  /\ UNCHANGED <<now, bucket, redisUp, scripts, sha, outcome, through, late>>

\* Any exception lets the request through: Redis is down, its reply is lost, or
\* the pool of connections is at its limit
LoadScript(w) ==
  /\ rq[w] = "load"
  /\ \/ /\ redisUp
        /\ scripts' = TRUE
        /\ sha' = [sha EXCEPT ![w] = TRUE]
        /\ ReadClock(w)
        /\ UNCHANGED outcome
     \/ /\ scripts' \in {scripts, scripts \/ redisUp}
        /\ Finish(w, "open")
        /\ UNCHANGED <<sha, stamp>>
  /\ UNCHANGED <<now, bucket, redisUp, through, late>>

\* (mistake: the refill is not capped)
RefilledUncapped(b, t) ==
  IF b = NoBucket
    THEN Capacity ELSE b.tokens + Max({0, t - b.last}) * Rate

\* What is in bucket b at clock t, refilled since last_refill
Refilled(b, t) ==
  IF b = NoBucket
    THEN Capacity
    ELSE LET elapsed == Max({0, t - b.last})
         IN  Min({Capacity, b.tokens + elapsed * Rate})

Taken == [t \in 0 .. MaxTime |-> through[t] + (IF t >= now THEN Cost ELSE 0)]

\* (mistake: a denial writes last_refill, and not what was refilled since)
TakeTokenOrForget(w) ==
  LET tokens == Refilled(bucket, stamp[w])
      left   == IF tokens >= Cost THEN tokens - Cost ELSE bucket.tokens
  IN  /\ bucket' = [tokens |-> left, last |-> stamp[w], expires |-> now + TTL]
      /\ late' = (late \/ stamp[w] # now)
      /\ IF tokens >= Cost
           THEN through' = Taken /\ Finish(w, "allowed")
           ELSE UNCHANGED through /\ Finish(w, "denied")

\* The script: last_refill becomes the clock it was sent, earlier or later.  Its
\* reply may be lost, and then the request is let through whatever it says.
TakeToken(w) ==
  LET tokens == Refilled(bucket, stamp[w])
      left   == IF tokens >= Cost THEN tokens - Cost ELSE tokens
  IN  /\ bucket' = [tokens |-> left, last |-> stamp[w], expires |-> now + TTL]
      /\ late' = (late \/ stamp[w] # now)
      /\ IF tokens >= Cost
           THEN through' = Taken /\ (Finish(w, "allowed") \/ Finish(w, "open"))
           ELSE UNCHANGED through /\ (Finish(w, "denied") \/ Finish(w, "open"))

\* Any exception, NOSCRIPT included, lets the request through
Evalsha(w) ==
  /\ rq[w] = "eval"
  /\ \/ redisUp /\ scripts /\ TakeToken(w)
     \/ Finish(w, "open") /\ UNCHANGED <<bucket, through, late>>
  /\ UNCHANGED <<now, redisUp, scripts, sha, stamp>>

\* Redis expires the key when its time has come
Tick ==
  /\ now < MaxTime
  /\ now' = now + 1
  /\ bucket' = IF bucket.expires <= now' THEN NoBucket ELSE bucket
  /\ UNCHANGED <<redisUp, scripts, sha, rq, stamp, outcome, through, late>>

\* What was taken from the buckets that are lost is no longer counted
RedisStops ==
  /\ redisUp
  /\ redisUp' = FALSE
  /\ scripts' = FALSE
  /\ \/ UNCHANGED <<bucket, through>>
     \/ bucket' = NoBucket /\ through' = NoneThrough
  /\ UNCHANGED <<now, sha, rq, stamp, outcome, late>>

RedisStarts ==
  /\ ~redisUp
  /\ redisUp' = TRUE
  /\ UNCHANGED <<now, bucket, scripts, sha, rq, stamp, outcome, through, late>>

Next ==
  \/ \E w \in Processes : Arrive(w) \/ LoadScript(w) \/ Evalsha(w)
  \/ Tick \/ RedisStops \/ RedisStarts

Spec == Init /\ [][Next]_vars

-----------------------------------------------------------------------------
\* What the requests that the bucket let through from t1 to t2 have cost
Admitted(t1, t2) == through[t2] - (IF t1 = 0 THEN 0 ELSE through[t1 - 1])

\* The promise of a token bucket: in any stretch of time, the bucket lets
\* through no more than a burst of its capacity and what its rate adds, though
\* several processes use it and its key expires.  It holds while every clock
\* that reaches the script is right; the documentation makes no such condition
\* (rate_limit.py:16, "no race possible"); it cannot be left out (see README).
RateBound ==
  ~late => \A t1 \in 0 .. now : \A t2 \in t1 .. now :
             Admitted(t1, t2) <= Capacity + Rate * (t2 - t1)

\* Its counterpart: a request is denied only if the bucket would otherwise
\* break that promise; the part of a token that has been refilled is not lost
\* when a denied request, or another process's, comes in between.
DeniedOnlyWhenExhausted ==
  [][\A w \in Processes :
       (rq[w] = "eval" /\ rq'[w] = "idle" /\ outcome'[w] = "denied" /\ ~late')
         => \E t1 \in 0 .. now :
              Admitted(t1, now) + Cost > Capacity + Rate * (now - t1)]_vars
=============================================================================
