# Verification of the Daraja payment wrapper

This directory holds TLA+ models of the service in `src/app`, the TLC
configurations that check them on small instances, and proofs, checked by
TLAPS, of what holds for instances of any size.

The service accepts requests to charge a customer over M-Pesa (`POST
/api/v1/payments/stk`), asks Safaricom's Daraja API to put a PIN prompt on the
customer's phone (an *STK push*), and learns from a callback what became of it.
It keeps payments in PostgreSQL and its locks, caches and token buckets in
Redis; several API processes and Celery workers run side by side.

1. [The system](#1-the-system)
2. [The modules](#2-the-modules)
3. [The runs](#3-the-runs)
4. [Fairness](#4-fairness)
5. [The proofs](#5-the-proofs)
6. [Where code and documentation differ](#6-where-code-and-documentation-differ)
7. [What is not modelled](#7-what-is-not-modelled)
8. [Plan](#8-plan)

Lines are given as `file:line`, with files relative to `src/app`.

## 1. The system

### Components, their state and their operations

| component | state | operations | what makes it correct |
|---|---|---|---|
| payments table (`models/payment.py`, `repository/payment_repo.py`) | one row per payment; unique `idempotency_key`, unique `checkout_request_id` | `create`, `get_by_*`, `update_daraja_ids`, `mark_completed`, `mark_failed` | one row per key; rows only advance; a row's checkout, status and receipt belong together |
| STK initiation (`services/stk.py`, `initiate_stk_push`) | position of each call; Redis keys `stk:idem:<key>` and `stk:lock:<key>` | cache lookup, lock, database check, INSERT, push, UPDATE, cache, unlock | one call of a key reaches Daraja; never before its row is committed; all answers of a key agree |
| callback processing (`services/stk.py`, `process_callback`; `tasks/stk_tasks.py`) | position of each delivery; Redis key `stk:callback:<checkout>` | receive, dedupe, fetch, apply; retry and redelivery by Celery | a callback is applied once, to the row of its own checkout |
| reconciliation (`tasks/reconciliation_tasks.py`) | the batch a run has read | SELECT stale rows, then one UPDATE each | no payment stays pending for ever; nothing but a stale read takes a payment out of COMPLETED |
| Daraja and its customers (external) | checkouts, prompts and their outcomes | accept a push, answer a prompt, send callbacks | (an environment) |
| OAuth token manager (`daraja/auth.py`) | Redis keys `daraja:oauth:token`, `daraja:oauth:lock`; position of each post | look up, lock, fetch, store, poll | one post refreshes under the lock; every post gets on |
| Daraja client (`daraja/client.py`) | per process: circuit state and failure count; per post: attempts | `post` with retries; success, failure, 401, 4xx | only transient failures bring the circuit nearer to opening; every post ends |
| rate limiter (`middleware/rate_limit.py`) | one bucket per client and path in Redis; the script's digest per process | load script, take token, fail open | no more and no less is admitted than the bucket allows |
| audit log (`models/audit.py`) | rows chained by checksums | append, history, verify | an intact chain verifies; one in which something the checksum covers was changed does not |
| HTTP layers, error mapping, health (`main.py`, `middleware/`, `exceptions.py`, `routes/`) | position and answer of each request | refuse, validate, route, answer, map an exception; work after the answer; probe | every request ends, a callback is acknowledged whatever fails, errors get the answer meant for them, probes tell the truth |
| configuration and start-up (`config.py`, `dependencies.py`) | the settings a process runs with | start, stop | no process runs with settings that do not go together |
| request schemas (`schemas/stk.py`) | none | validate, normalise a phone number | however a number is written, it is read as that number |
| status query (`services/stk.py:298`) | none of its own | read one row | what was handed out is found |
| query client, dead-letter handler, Beat schedule, logging, migrations | none, or none that others read | | see [section 7](#7-what-is-not-modelled) |

### How they interact

A call of `initiate_stk_push` runs through the cache, the lock, the table, the
token manager, the client and Daraja, and back. It awaits at every one of those
places, and between two awaits other calls, in the same process or another,
take their steps. The customer's answer makes Daraja send a callback, once,
several times, late or never, possibly before the call that caused it has
stored the checkout it carries; the route hands it to a background task, whose
failure is only logged. Celery Beat starts the reconciliation job, which settles
what has been pending for more than ten minutes, from a snapshot it read in an
earlier transaction. Around the routes lie the layers of the API process: the
rate limiter outermost, then the API key, the allow list and the headers, and
inside them validation and the handlers of exceptions. All writers write the same rows, with no locking of rows
and with UPDATEs that have no condition but the primary key.

### What is hard

* **Idempotency without a reliable lock.** The lock fails open when Redis fails
  (`services/stk.py:348`), is deleted by whoever reaches the `finally` clause
  (`:221`), and ends after 30 s (`:120`). What is left is the unique constraint.
* **A crash or a failing statement between two commits**: after the row and
  before the push, after the push and before its identifiers are stored.
* **A push whose reply is lost or cannot be read.** Daraja may have accepted it; the
  client tries again (`daraja/client.py:144`), or a `ValueError` that no handler expects
  leaves the row pending (`:263`).
* **Callbacks that are repeated, early, late, or race with the job**; a dedup
  key that is set before the work is done (`services/stk.py:237`).
* **Stale reads**: the row a callback has read, the batch the job has read.
* **A refresh of the token that many posts wait for**, whose holder may die.
* **Work that goes on after the answer**, in a process that may die; **two checks
  of one probe** at different times; **settings that are read once**, by layers that
  rely on one another.
* **Clocks of several processes** in one bucket; **transactions that append to
  one chain** at the same time.

`PROJECT.json` lists these hazards line by line, each with the properties that
cover it.

## 2. The modules

```
PaymentStore <- DarajaGateway <- StkInitiation <-+- StkCallback ---+
                                                 +- StalePayments -+- PaymentSystem
PaymentLedger  <..... refinement mapping ........................../      |
                                              MCPaymentSystem <- PaymentInvariant
                                                                          |
                       PaymentTypeProofs <- PaymentProofs <- PaymentTheorems

TokenManager   <- DarajaClient <- MCDarajaClient, ClientProofs
PushContract   <.... refined by DarajaClient
RequestSchemas <- ApiRequests  <- MCApiRequests, ApiProofs
RequestSchemas <- SchemaProofs <- ApiProofs
                  RateLimiter  <- MCRateLimiter, RateLimiterProofs
                  AuditLog     <- MCAuditLog, AuditProofs
```

(`A <- B`: B extends A.) `PROJECT.json`, "map", gives for every definition that
models code the lines it stands for. Definitions whose comment begins with
"(mistake:" are plausible bugs, each a variant of the definition after it; no
specification uses them. They serve to show that a property depends on the code
it is about: with the mistake in the place of the definition, TLC finds the
property violated.

### PaymentStore

`payments[p]` is the row of the payment that call `p` creates, with status,
checkout, receipt and result code. Each operator is one statement with its
commit: the code commits after every one, in sessions of their own. Amounts,
phone numbers, dates and texts do not influence control and are left out. A
receipt is represented by the checkout whose charge it certifies. The two
unique constraints are `KeyIsFree` and `CheckoutIsFree`.

### DarajaGateway

Safaricom's side, external: a push that is accepted gets a fresh checkout and
puts a prompt on a phone; the customer pays, declines or cancels, once, at any
later time. `owner[c]` remembers for whose push checkout `c` was handed out; the
code cannot see it, and the properties speak of it.

### StkInitiation

One call, `pc[r]`, from await to await. Each action is the code between two
awaits, with every way it can end:

| action | code | ways to end |
|---|---|---|
| `CacheLookup` | `services/stk.py:110` | answer from the cache; miss; Redis failure counts as miss |
| `AcquireLock` | `:117` | lock taken; conflict; Redis failure counts as taken, whether or not the SET took effect |
| `DbCheck` | `:131` | settled row answers; no or pending row goes on; statement fails |
| `CreateRow` | `:140` | committed; constraint violated; commit fails, with or without effect |
| `PushAccepted`, `PushTimedOut`, `PushRefused` | `:164`, `daraja/stk.py`, `daraja/client.py` | reply, or one that does not validate; retry or `RetryError`; `DarajaError` |
| `PushUnreadable` | `daraja/client.py:263` | a 200 that is not JSON: a `ValueError`, accepted or not, which leaves the row pending |
| `TokenUnavailable` | `daraja/auth.py` | `RedisError`, `AttributeError` or `ValueError`, which leave the row pending |
| `MarkRejected` | `:172` | row marked failed, or that fails and is swallowed |
| `PersistIds` | `:186` | committed; constraint violated; fails with or without effect |
| `CacheResult` | `:206` | cached or not, answered either way |
| `ReleaseLock` | `:221` | deleted, whoever set it, or Redis fails |
| `CrashCall` | | the process dies anywhere; no `finally` |

A push here is one attempt with what the call can see of it; the posts of
`DarajaClient` are the same attempts seen from the client, with the token and
the circuit, and implement what a push is taken for here (`PushContract`). `Faults` says what may go wrong in a run.

### StkCallback

One delivery of a callback through the route, or, if it is in `Durable`, one
message of the Celery task with its retries (`Abort`) and its redelivery when a
worker dies (`CrashDelivery`). A redelivery of a message after it was processed
is one more delivery. `Receive` picks any answered checkout: this is how
duplicates, late and reordered callbacks come in. `Dedupe` sets the Redis key
before anything is done, `Fetch` reads the row, `Apply` writes it by primary key
whatever it has become. Malformed callbacks change nothing and are left out.

### StalePayments

One run of the job, `batch[j]`: the SELECT with its LIMIT, then one transaction
per row. `GrowOld` is the passing of ten minutes. It does not happen to the row
of a call that is still working: with the default settings (three attempts of at
most 10+30+10+5 s, for the push and for its token) no call takes that long.

### PaymentSystem, PaymentLedger

`PaymentSystem` interleaves all of the above and states their properties.
`GetPaymentStatus` is what the status query answers in the state it reads.
`PaymentLedger` is the abstract specification: one entry per key, opened before
its customer can be charged, reported completed only if the customer was
charged, never erased and never reopened. The refinement maps an entry to the
status of its row and the charged payments to those that own a paid prompt. The
ledger allows a completed entry to be reported failed afterwards, since the code
does so (difference 2 in [section 6](#6-where-code-and-documentation-differ)).

### TokenManager, DarajaClient, PushContract

`get_token` from await to await for any number of posts, in processes that share
the token and the refresh lock through Redis, then what `post` does with the
answer: success, a transient failure (counted once, or twice for a 5xx), 401,
other refusals, a 200 that is not JSON (`ReplyUnreadable`); the circuit's state and
count per process; the death of a process. A token reply that is no JSON object, or
whose `expires_in` is no number, ends a post with an exception that nothing wraps
(`badToken`), any other failure of the fetch with a `DarajaAuthError`. `Processes` are
what has a client of its own: the API processes, whose posts share a circuit, and the
Celery tasks (`Workers`), which build a client each (`tasks/stk_tasks.py:62,113`) and make
one post with it. Tasks get a Redis client that decodes what it reads
(`tasks/_infra.py:64`), so `CanDecode` is false in them: a cached token ends a
worker's post with an `AttributeError`, and its polls never see one. The waits
between attempts, and the time that a circuit stays open, are left open: both
outcomes are possible at any moment.

`PushContract` is the abstract specification of a post, as `initiate_stk_push` sees it:
attempts in doubt, until one is replied to, readably or not, one is refused, no token
can be had, or none is left. Its actions are `PushTimedOut` (`Doubt`), `PushAccepted`,
`PushUnreadable`, `PushRefused` and `TokenUnavailable` (`Settle`) of `StkInitiation`, without
their payment. The refinement
maps the many places of a post to one, and its ends to what the handler at
`services/stk.py:172` makes of them (`StageOf`): only a `DarajaError` is a refusal.

### RateLimiter

One client and one path: the bucket in Redis, the script as one atomic step, the
clock each process reads before it, the key's expiry, the digest each process
has cached, and Redis going down and coming back with or without its data. A request
is let through unless a denial reaches it: a reply may be lost after the script has
run, and a pool of connections may be at its limit. The code counts tokens and time as
floating-point numbers, with rates such as half a token a second. Here both are whole
numbers of units as small as one likes: a token, which a request costs, is `Cost` units, and
limits are given in them. So a bucket may hold a part of a token, a denial writes
back what it finds, and only the rounding of floating-point numbers is left out. `through` and `late` are
history variables: what the requests that the bucket has let through up to each time
have cost, and whether the script has ever run with a clock other than the current one.

### AuditLog

The rows of one payment, written by transactions under READ COMMITTED that may
overlap, roll back, and append several rows. A row is dated with `now()`, which
in PostgreSQL is the start of its transaction; rows of one date come out of
`ORDER BY created_at` in any order. A checksum is what it is computed from:
SHA-256 is taken to be injective. Of a row's columns the checksum covers the type and the
sanitised payload (`event`) and the checksum before it; it does not cover the actor, the address
and the request id (`origin`), `previous_checksum` (`prev`) and `created_at` (`at`). What may be
done to the table by hand is an action each: `Alter` changes the event, `AlterChecksum`
the checksum, `Retouch` one of the columns of `origin` or `prev`, `Redate` the date; `Delete`
removes a row. `tampered` says which of them was done. `mixed` is a history variable: two transactions
overlapped, or one appended twice.

### RequestSchemas, ApiRequests

`RequestSchemas` is `normalise_phone`, over texts of characters that the code
tells apart; the number of digits is a constant. It keeps the order of its tests
and its final pattern.

`ApiRequests` follows requests through one API process, `place[h]`:

| action | code | ways to go on |
|---|---|---|
| `Start`, `Stop`, `Crash` | `dependencies.py:38`, `config.py:220` | with any settings that may start; when nothing is in hand; at any time |
| `Arrive` | `rate_limit.py:112` | to the await of the rate limiter |
| `Deny` | `rate_limit.py:144` | 429, only from a Redis that answers |
| `Admit` | `main.py:89`, the middleware, validation | refused by a layer, rejected by validation, or to the first await of its route |
| `Initiate` | `routes/stk.py:68` | 202, or one of the exceptions of the service |
| `QueryStatus` | `routes/stk.py:91` | 200, `PaymentNotFoundError`, or an exception of the database |
| `Background` | `routes/stk.py:34` | after the 200 of a callback: processed, or failed and logged |
| `ProbeDb`, `ProbeRedis` | `routes/health.py:47,56` | the readiness probe, one check after the other |
| `Outage` | | PostgreSQL goes down, hangs or comes back; Redis goes down or comes back |

An exception is its class and the classes above it (`Lineage`); `AnswerTo` looks
for the nearest that has a handler, as Starlette does. Two of them cannot be
rendered and become a bare 500. An answer is a status code and whether it went
through the headers (`dressed`). What the services do is an input here, with the
results that `PaymentSystem`, `DarajaClient` and `RateLimiter` model. The server
(uvicorn) is external: it lets requests and their background tasks end before it
closes the application. `seen[h]` is a history variable: what was up, and whether
anything was not, while probe `h` ran. A request has a `peer`, the other end of its connection, and
maybe an address its `X-Forwarded-For` header begins with (`forwarded`); the allow list
compares `ClientAddress`, which is the second if there is one. A PostgreSQL that
hangs fails those who wait for a connection of the pool, after its timeout, and keeps
the others waiting: no statement has a timeout.

## 3. The runs

Eight runs pass. All are exhaustive; the sizes are distinct states.

| run | module | checks | instance | states |
|---|---|---|---|---|
| Idempotency | MCPaymentSystem | `TypeOK`, `InitiateOnce`, `AnchorBeforePush`, `PushersHaveRows`, `EachPromptAnAttempt`, `ReplayConsistent`, `HandedOutIsFound`, `IInv`, `ImplementsLedger` | two calls of one key, three checkouts, two attempts, a durable delivery with a retry, a run of the job, every kind of fault | 1.0 M |
| Exclusion | MCPaymentSystem | `MutualExclusion`, `AppliedAtMostOnce`, `DuplicateHasOriginal`, `FailedBeforeInitiation` | two calls of one key, two attempts, a plain and a durable delivery; crashes, failing statements, timeouts, refused pushes, tokens that cannot be decoded | 1.0 M |
| Outcomes | MCPaymentSystem | `CheckoutMatchesOwner`, `CompletedIsPaid`, `ReceiptIsOwn`, `RowsOnlyAdvance`, `CompletedLeavesOnlyByExpiry` | two calls of two keys, two deliveries, a run of the job with a batch of two; expiring keys, failing statements | 1.6 M |
| Liveness | MCPaymentSystem | `CallsEnd`, `LocksEnd`, `PendingEnds`, `DeliveriesEnd` | two calls of one key, a durable delivery with a retry, a run of the job; Redis failures, crashes, timeouts | 63 k |
| Posts | MCDarajaClient | `TypeOK`, `OnlyTransientFailuresCount`, `OneHolder`, `PostsEnd`, `ImplementsPush` | three posts, two in an API process and one in a Celery task, two attempts each, two polls; every kind of fault but `lockTTL` and `network` | 206 k |
| RateLimit | MCRateLimiter | `TypeOK`, `RateBound`, `DeniedOnlyWhenExhausted` | two processes, a burst of two tokens and a rate of two thirds of one (`Cost` 3, capacity 6, rate 2), margin 1, the times 0 to 5, Redis restarts, lost replies | 4.3 M |
| Audit | MCAuditLog | `TypeOK`, `IntactVerifies`, `TamperingShows` | three transactions, three rows, two events; one row changed in any column, or removed | 446 k |
| Requests | MCApiRequests | `TypeOK`, `AckWhateverFails`, `ProductionCallbacksAreListed`, `BareAnswersAreKnown`, `PhoneIsRead`, `ReadyIsTrue`, `HitsEnd` | two requests of any kind, all settings, outages, a PostgreSQL that hangs, crashes; every text of up to six of eight characters, for numbers of one digit after their 7 | 0.8 M |

**What they show.**

* *Idempotency*: however two calls of one key interleave, with the lock lost,
  stolen or never taken, at most one of them reaches Daraja, it has a committed
  row before it does, every answer with a payment names the same payment, one
  that the status query finds, and the whole system implements the ledger. The
  double charge that remains possible (difference 1 in
  [section 6](#6-where-code-and-documentation-differ)) is bounded: all prompts of a
  key are attempts of one call, and all but one of them timed out
  (`EachPromptAnAttempt`). In this run anything may fail, and the
  inductive invariant of the proofs holds (`IInv`). `CompletedIsPaid` is a part of it: a payment
  whose reply did not validate or could not be read is completed only by its own
  customer's payment, too.
* *Exclusion*: while Redis answers and TTLs hold, the lock excludes and the dedup
  key dedupes, crashes and retries included. Without these conditions neither
  holds; what holds regardless is in the first run. A delivery through the route is dropped
  as a duplicate only if another delivery of the callback has arrived; a durable one may be
  dropped for nothing (difference 3). A payment on file as failed
  before its initiation has prompted nobody, except where an attempt of its push had
  timed out before, or Daraja's reply did not validate: both are exceptions of the
  property, since the code fails the row in them although its customer may have been prompted.
* *Outcomes*: the row of a payment says what became of its own customer's
  prompt: no other payment's receipt or outcome gets into it. `RowsOnlyAdvance`
  and `CompletedLeavesOnlyByExpiry` bound what unconditional UPDATEs may do.
* *Liveness*: nothing hangs. A pending payment is settled even if its call died,
  its callback never came, and workers died on earlier batches.
* *Posts*: the lock's holder does the refreshing alone; pollers whose token is
  deleted under them (`auth.py:81`) still come to an end, and a refused or
  unauthorised post does not count towards the circuit. To its caller, a post is a
  push: a row is marked failed over a refusal, a 401, a circuit that is open or a fetch
  that failed, and neither over the last of its attempts in doubt nor over a reply
  that could not be read.
* *RateLimit*: in any stretch of time the bucket lets through no more than its
  capacity and its refill, and denies only a request that would exceed that: the part of a
  token that a denial finds is not lost. What the limiter lets through without the
  bucket, because Redis fails, is not counted. The
  TTL of the key matters here: were it shorter, an expired bucket would come back
  full too soon.
* *Audit*: a chain that transactions wrote in sequence verifies in every order
  the query may return; a changed type or payload fails it however the chain came about,
  and a changed checksum, or a missing row before the last, if it was written in
  sequence. Changes of the other columns go unnoticed, which is part of
  `IntactVerifies`, or are noticed by chance (the date).
* *Requests*: a callback is acknowledged before it is worked on, whatever becomes of
  PostgreSQL and Redis; in production it is worked on only if the address read for it
  is on the list, which is not to say that it is Safaricom's (`ip_allowlist.py:84`); exceptions get
  the answer of the nearest handler, and which do not is known; what the readiness
  probe says was the case while it ran, though it asks PostgreSQL and Redis at
  different times; every request and the work after its answer end, unless a PostgreSQL that
  hangs keeps them. A text is read as the number it spells, and as no other; that
  separators and the plus sign mean nothing is common to the code's translation and to
  what a text is said to spell (`Bare`), so that this part is not compared with anything.

**Bounds, and why they are enough.** Two calls of a key are the case the lock and
the constraint are about, and the proofs cover any number. Two attempts are the
least that retry; two checkouts let every attempt be accepted, and the third of
Idempotency would let an attempt too many be accepted, too. Two deliveries are
a callback and its duplicate, or two payments' callbacks; one retry is the least
that retries. One run of the job is enough to race with everything else, since
each run restarts for ever; a batch of one (Idempotency) meets the LIMIT, a batch
of two (Outcomes) does not. Liveness gives each push one attempt, and so needs one checkout. Three posts are a
holder, a poller and one that comes late; the third, in a worker, never decodes
a token. Its transient failures are 5xx, which count twice; a timeout differs
in counting once, and is what the run Circuit uses. The times 0 to 5 let the bucket be drained,
expire and refill; with two thirds of a token a tick, denials find a part of one, or nothing;
three rows are the shortest chain with a row that is neither first nor last. Two
requests share nothing but the process and what it is connected to; the proofs
cover any number. Texts of six characters hold a plus sign, a country code and a
number of two digits, or a separator anywhere in a shorter one; `1`, which the
code treats as `7`, and `9`, which it treats as `0` after the first two digits, are left out.

**Symmetry.** Idempotency, Exclusion, Outcomes and RateLimit use the symmetry of
interchangeable calls, checkouts, deliveries and processes. No liveness property
is checked under symmetry. With two keys, calls are exchanged together with
their keys (`SwapCalls`).

**Deadlock** is checked where the system never stops: wherever the job runs and in
the rate limiter, where Redis always may go down and come back. Exclusion,
DoubleCharge, DurableRetry, the posts and the audit log have finitely many calls,
deliveries, posts or transactions, after which nothing is left to do; their cfg says
`CHECK_DEADLOCK FALSE`.

In Requests an outage is always possible, so that it never stops.

Four runs end in a violation: they are [section 6](#6-where-code-and-documentation-differ).

## 4. Fairness

`FairSpec` of `PaymentSystem`:

* weak fairness of the steps of a call that has started, and of a delivery at its
  dedup key: the event loop and the workers resume what is ready;
* strong fairness of `Fetch`, `Apply` and `ExpireOne`: a worker may die on a
  message or a batch again and again (`reject_on_worker_lost`, Beat), but not for
  ever;
* weak fairness of the end of a lock's TTL, of the passing of ten minutes, and of
  the SELECT of the job, which Beat starts every few minutes.

Nothing is assumed of the environment: clients need not call, customers need not
answer, Daraja need not send a callback, and a push may time out each time.

`FairSpec` of `DarajaClient`: weak fairness of a post's next step once it has
started, and of the end of the lock's TTL. Crashes, failures and the end of the
token's life are never assumed to happen.

The fairness of `PaymentSystem` supposes that statements, and the tasks' commands to Redis, end,
with an error if need be. The code gives PostgreSQL a timeout for connections only
(`dependencies.py:47`) and the Celery tasks' Redis client none (`tasks/_infra.py:62`): a server
that hangs may hold a call, a delivery or a batch until its process dies, and what waits for it is then
what these properties do not speak of. Liveness has no `"db"` among its faults, for time: with it
the run passes too, in four minutes. A statement that fails leaves behind what a
crash does.

`FairSpec` of `ApiRequests`: weak fairness of the next step of a request in hand, as long
as it does not wait for a PostgreSQL that hangs (`WaitsForHung`). The event loop resumes
what is ready, and Redis, Daraja and the pool of connections have timeouts
(`dependencies.py:51,63`, `daraja/client.py`); statements have none, so nothing is assumed of
them. Neither the end of an outage, or of a hang, nor a crash is assumed.

## 5. The proofs

TLAPS proves, for any sets of calls, keys, checkouts, deliveries and runs of the
job, any numbers of attempts and retries, all kinds of fault at once; for any
posts and processes, requests, limits and paths, transactions and rows:

| theorem | statement |
|---|---|
| `TypeCorrect` (PaymentTypeProofs, ClientProofs, ApiProofs, RateLimiterProofs, AuditProofs) | `Spec => []TypeOK`, of each system |
| `Inductive` (PaymentProofs) | `Spec => []IInv` |
| `InitiateOnceHolds`, `AnchorBeforePushHolds`, `PushersHaveRowsHolds`, `ReplayConsistentHolds`, `HandedOutIsFoundHolds`, `EachPromptAnAttemptHolds` (PaymentTheorems) | the safety invariants of *Idempotency* |
| `OnlyRetriesChargeTwice` (PaymentTheorems) | `Spec => []NoDoubleCharge`, if `"timeout"` is not in `Faults` or `Attempts` is 1 |
| `OnlyFailuresLoseCallbacks` (PaymentTheorems) | `Spec => [](DurableIsApplied)` while no delivery was unmatched, if `"db"` and `"crash"` are not in `Faults` |
| `OnlyTheJobTakesBack` (PaymentTheorems) | `Spec => CompletedIsFinal`, if `Jobs` is empty |
| `CheckoutMatchesOwnerHolds`, `CompletedIsPaidHolds`, `ReceiptIsOwnHolds` (PaymentTheorems) | those of *Outcomes* |
| `RowsOnlyAdvanceHolds`, `CompletedLeavesOnlyByExpiryHolds` (PaymentTheorems) | the action properties of *Outcomes* |
| `Refinement` (PaymentTheorems) | `Spec => ImplementsLedger` |
| `DuplicateHasOriginalHolds`, `FailedBeforeInitiationHolds` (PaymentTheorems) | two invariants of *Exclusion*, whatever fails |
| `LockExcludes` (PaymentTheorems) | `Spec => []MutualExclusion`, if `"redis"` and `"lockTTL"` are not in `Faults` |
| `DedupHolds` (PaymentTheorems) | `Spec => []AppliedAtMostOnce`, if `"redis"` and `"cacheTTL"` are not in `Faults` |
| `PostsObeyContract` (ClientProofs) | `Spec => ImplementsPush` of `DarajaClient` |
| `OnlyTransientFailuresCountHolds` (ClientProofs) | `Spec => []OnlyTransientFailuresCount` of `DarajaClient` |
| `OneHolderHolds` (ClientProofs) | `Spec => []OneHolder` of `DarajaClient`, if `"lockTTL"` is not in `Faults` |
| `AckWhateverFailsHolds`, `ProductionCallbacksAreListedHolds`, `BareAnswersAreKnownHolds`, `ReadyIsTrueHolds` (ApiProofs) | the invariants and the action property of *Requests* |
| `NothingIsMisread` (SchemaProofs), `PhoneIsReadHolds` (ApiProofs) | `Misread = {}`, for numbers of any length and any set of texts, and `Spec => []PhoneIsRead` |
| `RateBoundHolds`, `DeniedOnlyWhenExhaustedHolds` (RateLimiterProofs) | the two promises of the token bucket |
| `IntactVerifiesHolds`, `TamperingShowsHolds` (AuditProofs) | `Spec => []IntactVerifies`, `Spec => []TamperingShows` |

They rest on the assumptions on the constants that the modules name
(`StoreAssumption`, `InitiationAssumption`, `CallbackAssumption`,
`JobAssumption`, `TokenAssumption`, `ClientAssumption`, `LimiterAssumption`,
`AuditAssumption`, `SchemaAssumption`, `TextsAssumption`) and on nothing else; the
conditions on `Faults` are needed, since without them the properties fail.
`TextsAssumption` says more than what a constant may be: that removing the separators
from a text leaves a sequence of characters. It is a property of `SelectSeq`, whose
proof is an induction over the text, which the provers cannot do here; TLC evaluates
it for every text of the run Requests.

**The inductive invariant.** None of the properties is inductive. That a payment
is completed only if it was paid depends on the delivery that completes it
carrying the truth, and on the row it read earlier still being the row of its
checkout; that depends on nobody overwriting a checkout, which depends on the
call that writes one owning it and being the only one at work on its row; and so
on. `PaymentInvariant` states what each party may rely on:

* `StoreInv`: the unique constraints, rows that do not exist are empty, a checkout
  has an owner once handed out, and the properties about rows and prompts;
* `CallInv`: a call between its commit and its UPDATE has a row without a checkout,
  and the checkout in its hand is its own;
* `CarriedInv`: a delivery carries what its customer did, the row it has fetched
  still has its checkout, a batch holds rows that exist and had no receipt;
* `AnswerInv`: what is cached or was answered names a row of the right key, and
  that row's checkout.

`IInv` is their conjunction with `TypeOK`. TLC checks it in the run Idempotency, under all faults.

**The argument.** Every action writes the table in one of a few ways. `StoreStep`
(PaymentProofs) lists them; the lemmas `CallIsStoreStep`, `CallbackIsStoreStep` and
`JobIsStoreStep` place each action under one of them, and `StoreInvKept` shows once,
for all actions, that a `StoreStep` keeps `StoreInv`. `StoreAdvances` says what a
`StoreStep` may do to rows other parties rely on, which settles the invariants of
those who do not move (`CallInvByOthers`, `CarriedByOthers`, `AnswersByOthers`);
those of the mover take a lemma per component (`CallInvByCall`,
`CarriedByCallback`, `CarriedByJob`, `AnswersByCall`). The refinement reuses
`StoreStep`: each of its cases is a step of the ledger or a stutter
(`StoreStepIsLedgerStep`). `LockExcludes` and `DedupHolds` have small invariants of
their own, `LockInv` and `DedupInv`.

`DuplicateHasOriginalHolds` follows from the order in which a delivery sets its key
and goes on; `FailedBeforeInitiationHolds` needs `RefusalInv`: a call that has not
timed out has prompted nobody until its push is accepted, and its row is marked
failed only instead of that.

**How often a customer is prompted.** `PromptInv` counts the prompts of each call: no
more than the attempts of it that timed out, while attempts are left, and one more
at the end, never more than `Attempts`. Only an acceptance adds a prompt, and only to those
of its own call (`AcceptAddsOne`, `CallsOwnPrompts`); since at most one call of a key
pushes, the prompts of a key are those of one call (`EachPromptAnAttemptHolds`). Two
prompts of one key therefore take an attempt that timed out and another after it:
without timeouts, or with one attempt per push, there is no second one to pay
(`OnlyRetriesChargeTwice`), so the retry is the only cause of the double charge that the
run DoubleCharge finds.

**What else goes wrong, and why.** Two more theorems bound the differences of
section 6 in this way. `OnlyFailuresLoseCallbacks`: whoever has set a dedup key, and whoever
finds it set, leaves a delivery at work on the callback (`WorkedOnInv`), since without
failing statements and dying processes a delivery that has set its key goes on to its end; so a
durable delivery is dropped for nothing only after such a failure, or when a callback came before
the checkout was stored. `OnlyTheJobTakesBack` follows from `CompletedLeavesOnlyByExpiry`: neither
calls nor callbacks, in any order, take a completed payment back.

**The API process.** `Routed` says of every place a request can be at what it must
be to get there, `Probed` what a probe has seen and what it has made of it, and
`SettingsInv` that a process serves only with settings that may start. The theorem
on callbacks combines the two: the address read for a callback that is worked on was listed,
or the list was switched off, and in production it cannot be.

**Phone numbers.** `NothingIsMisread` compares what `normalise_phone` returns with
what a text spells: a subscriber's number, alone, after a 0, or after the country
code. What spells a number is read as that number (`SpellingIsRead`), for which the
tests must not mistake one spelling for another: a subscriber's number begins with 7 or
1, the other two with 0 and 2. What is not rejected matches the final
pattern, so it is some subscriber's number after the country code
(`MobileIsSubscribers`), and each test was passed by a spelling of it
(`ReadIsSpelling`).

**The rate limiter.** The bound is about all stretches of time, and no state of the
bucket shows them. What is inductive is the sum (`NeverMore`): what the bucket let
through since `t1`, and what it still holds, are together no more than the capacity
and what was added since `t1`. Taking a token moves one from the second to the first;
a tick adds to both sides; a key that expires has long been full (`TTLFills`). The
other promise is its counterpart (`NeverLess`): for the last time at which the bucket
was full, the sum is no less, so that a bucket with less than a token shows its limit was
used up. Nothing is assumed of how the cost of a request and the limits compare: balances are any
part of a token, and the cost may exceed the capacity, when every request is denied.

**The audit log.** While transactions do not overlap, the open one began after all
others, and what it reads is the end of the chain until it inserts (`AloneInv`); so
each row carries on from those before it (`Chained`). Dates then differ, the history is the only order of
the rows by date, and verification goes through it row by row. The proof needs no induction over the chain,
since each row's checksum is compared with its predecessor's alone. A change of
the columns outside the checksum leaves all of this as it is (`Retouch`); a changed date may
put the rows in another order and is left out.

`TamperingShowsHolds` has two parts. A checksum is that of its own event until a row is
altered (`SignedInv`); the altered row fails the comparison whatever comes before it,
so this holds for chains that overlapping transactions wrote, too. A row that is taken
out of a chain is missed by the one after it: every row but the last has one that
carries on from it, and no two rows have the same checksum, so that nothing else can
take its place (`LinkedInv`); after the removal, or after a change of its checksum, there is a row
that carries on from nothing (`GapInv`), and in the one order the history has,
verification stops there. That
checksums differ needs no induction either: a new row's checksum contains that of the
last one, from which no row has carried on so far (`FreshChecksum`). Where transactions
overlapped, two rows may carry on from the same one, and the removal of either goes
unnoticed: hence the condition.

**The Daraja client.** `TypeOK` needs that a post which is not done has an attempt
left (`AttemptLeft`), and `PostsObeyContract` that it has no end yet but the failure of its
fetch (`NoEndYet`). What a circuit may have counted is stated with a set, the attempts
of its process that failed (`FailedAttempts`), so that no sum over posts is needed:
a failure adds one attempt to the set of its process and no more than two to its count
(`AttemptFails`), and nothing takes an attempt away (`CountKept`, `CountInv`).

**Model-checked only.** The liveness properties (`CallsEnd`, `LocksEnd`, `PendingEnds`,
`DeliveriesEnd`, `PostsEnd`, `HitsEnd`): the prover has no way to establish ENABLED, on
which fairness rests. Every safety property of a passing run is a theorem. No module
that a theorem uses declares a RECURSIVE operator.

## 6. Where code and documentation differ

Four differences have a run each, in which TLC finds a behaviour that the quoted
text rules out.

1. **DoubleCharge** (`NoDoubleCharge`). `services/stk.py:5` promises "no double
   charge". A push that timed out may have been accepted; `client.py:144` tries it
   again, and each accepted attempt prompts the customer. Only the last
   attempt's checkout is stored, so a callback for the first finds no row. By
   `OnlyRetriesChargeTwice`, nothing else in the model charges twice.
2. **Expiry** (`CompletedIsFinal`). `models/payment.py:46` calls COMPLETED a row
   whose callback reported success. The job's UPDATE (`reconciliation_tasks.py:91`)
   has no condition on the status: a callback that completes a row after the
   job's SELECT is overwritten with FAILED. By `OnlyTheJobTakesBack`, only the job does so.
3. **DurableRetry** (`DurableIsApplied`). `stk_tasks.py:38` promises durable
   processing. The dedup key is set before the work (`services/stk.py:237`) and stays
   when the work fails: the retry takes itself for a duplicate and succeeds. By
   `OnlyFailuresLoseCallbacks`, a durable callback that does not come before its
   checkout is stored is dropped for nothing in no other way.
4. **Circuit** (`OpensAtThreshold`). `client.py:127` compares the state with OPEN
   where it means to assign it; the circuit never opens.

Others were met while modelling and have no run, being plain from the code or
outside what the models distinguish:

* `services/stk.py:133`: a second call that misses the cache while the row is
  pending goes on to INSERT, and the constraint makes it a 500 where the
  docstring promises the same response.
* `services/stk.py:112`: no parameters are compared; line 6 promises a 409 for
  other parameters under a used key.
* `services/stk.py:127`: `details` contains a set, which the handler of
  `DuplicatePaymentError` cannot render; the 409 becomes a bare 500 (`Unrenderable`).
* `main.py:109`: an error of a validator of the request's own carries the `ValueError`
  itself, which the handler cannot render either; the 422 becomes a bare 500.
* `middleware/security_headers.py:3` speaks of every response; refusals of the layers
  outside of it and bare 500s have no headers (`BareAnswersAreKnown`).
* `middleware/api_key.py:31`: `"/"` is among the exempt prefixes and begins every path,
  so that no route asks for a key and the status 401 is never sent; line 2 says that
  all others do.
* `middleware/ip_allowlist.py:103`: `ip_address` raises `ValueError`, of which
  `AddressValueError` is a subclass; an address that is none becomes a bare 500, not
  a 403.
* `middleware/ip_allowlist.py:2` lets "only requests coming from Safaricoms Known callback IPs"
  through. The address it compares is the first entry of `X-Forwarded-For` (`:84`), as received:
  unless a proxy in front of the process sets that header, it is what the sender says, so that
  the list does not establish where a callback is from. The rate limiter chooses its
  bucket in the same way (`middleware/rate_limit.py:103`).
* `dependencies.py:47`: no statement has a timeout. A PostgreSQL that hangs holds a request, a probe
  or a background task for as long as it hangs (`WaitsForHung`).
* `routes/health.py:25` says that the probe returns 200 always; the rate limiter may
  answer it with 429.
* `observability.py:158`: `sentry_sdk.init` does not know `service_name`, so that a
  process with a DSN does not start. `observability.py:63`: the pattern for phone
  numbers ends in a stray `}` and never matches one.
* `daraja/auth.py:81`: the `finally` clause deletes the token just stored, not the
  lock (`DropToken`): pollers, which line 13 says find the token, wait in vain and
  fetch it themselves, and the lock stays until its TTL ends.
* `services/stk.py:120`: 30 s is less than three attempts of a push and its token
  may take, though the docstring calls it longer than a round trip; with
  `"lockTTL"` among the faults `MutualExclusion` fails, and the constraint remains.
* `repository/payment_repo.py:141`: a late callback completes an expired row and
  leaves the -99 and its reason in it.
* `tasks/reconciliation_tasks.py:83`: a row without a receipt, which every pending
  row is (`ReceiptIsOwn`), is failed without the query the docstring promises; its
  customer may have paid.
* `daraja/client.py:153,178`: when attempts are used up tenacity raises
  `RetryError`, not `DarajaTimeoutError`; the row stays pending until the job.
* `daraja/client.py:263`, `daraja/auth.py:151,160`: a 200 that is not JSON, or a token reply
  that is no object or has no number in `expires_in`, raises a `ValueError` (or a `TypeError`)
  and not the `DarajaError` that `services/stk.py:172` expects: the row stays pending until
  the job, and the answer is a bare 500 (`PushUnreadable`, `ReplyUnreadable`, `badToken`).
* `daraja/client.py:229,236`: a 401 is not retried, though the comment says so.
* `daraja/client.py:163,224`: a 5xx is counted twice.
* `daraja/auth.py:73,81`: a failing SET or DELETE ends the post, though
  `exceptions.py:108` calls Redis failures non-fatal.
* `daraja/auth.py:99`: pollers that give up fetch without the lock.
* `tasks/_infra.py:64`: workers' posts fail whenever a token is cached.
* `daraja/query.py:145`: compares a code with the letter "o".
* `middleware/rate_limit.py:75`: the prefix lacks its leading slash and never
  matches; the STK path gets the default limit.
* `middleware/rate_limit.py:92`: after a restart of Redis, EVALSHA fails for ever
  in a process that has cached the digest, and every request is let through.
* `middleware/rate_limit.py:126`: the clock is read before the script runs. If the
  script runs late, `last_refill` goes back, and time is credited twice: `RateBound`
  fails without its condition `~late`.
* `models/audit.py:151,187`: transactions that overlap chain to the same row, and
  rows of one transaction come out in any order: `IntactVerifies` fails without its
  condition `~mixed`.
* `models/audit.py:80` says of `previous_checksum` that "breaking any link indicates
  tampering", and line 71 of the checksum that it detects "row tampering". `verify` (line 191) never reads
  `previous_checksum`, and the checksum covers neither that column nor the actor, the address, the
  request id and the date: changes of these go unnoticed (`Retouch`). The
  removal of the last rows does, too, and, since no key goes into a checksum, so does a change
  after which the checksums are computed anew.
* `tasks/celery.py:62,94,135`: `tasks_acks_late` is not a Celery setting, Beat
  schedules a task that no module defines, the dead-letter handler raises
  TypeError.

## 7. What is not modelled

* **Daraja query client**: requests with no state, whose only caller never reaches
  them (`ReceiptIsOwn`).
* **Schemas**: validators but `normalise_phone` only by how they end; the bounds on an
  amount are left out. `schemas/c2b.py` is used by no route.
* **Settings** other than the three that decide whether a process starts and whether
  callbacks are checked are the models' constants. Pool limits of Redis show up as
  Redis failures, those of the database as failing statements.
* **Logging and tracing, migrations**: no state of the service. **Routes of the
  documentation** (`/docs`, `/openapi.json`) and the greeting at `/`: constants.
* **Dead-letter handler**: publishes to a queue nobody reads. **Beat**: is the
  fairness of the job.
* **`PRD.md`** describes a product of which the code is a part; refunds, C2B, B2C and
  webhooks have no code. The statuses `reversed` and `cancelled` exist in the model as
  in the code, and nothing sets the first.
* **The composition of the layers with the payments**: `ApiRequests` takes what the
  services return as an input. They share no state but the process, and its death is
  in both.
* **A server that hangs** is modelled for PostgreSQL in `ApiRequests` only; see section 4 for
  `PaymentSystem`. **Rows of calls at work** do not grow old (`GrowOld`): an assumption on the
  settings, named in section 2.
* **Cancellation of a request** (a client that disconnects): a call runs to its end
  or dies with its process. A cancelled call would run its `finally` clause.
* **Real time**: TTLs, timeouts and waits are steps that may happen at any time, with
  the conditions named above.
* Nothing in the repository enqueues the tasks of `tasks/stk_tasks.py` yet or calls
  the audit log's `append`; both are modelled as what they are written for. The
  repository has no tests.

## 8. Plan

Order of work, most important behaviour first:

1. *Done.* Payments: `PaymentStore`, `DarajaGateway`, `StkInitiation`, `StkCallback`,
   `StalePayments`, composed in `PaymentSystem`; the abstract `PaymentLedger`; runs
   Idempotency, Exclusion, Outcomes, Liveness and three violations; the invariant
   and the theorems of section 5.
2. *Done.* `TokenManager` and `DarajaClient`; runs Posts and Circuit; the
   theorem on the refresh lock. `RateLimiter` and `AuditLog` with a run each.
3. *Done.* `RequestSchemas` and `ApiRequests`; the run Requests; the status query.
   Type correctness of all systems; the promises of the rate limiter, intact chains of
   the audit log, and the invariants of the API process, proved.
4. *Done.* `PushContract`, and that `DarajaClient` implements it.
5. *Left, models.* Cancellation of a call at any await. Calls of several clients in the
   rate limiter.
6. *Done.* The remaining safety properties of the runs, as theorems: tampering with the
   audit log, the failure count of the circuit, phone numbers, prompts per key; and
   what it takes to charge twice, to lose a callback, and to take back a payment.
7. *Left, proofs.* What a row says once its calls and callbacks have ended, as an
   abstract specification of one payment that `PaymentSystem` implements; what pollers of
   the token manager may fetch without the lock.
