---------------------------- MODULE StkInitiation ----------------------------
(***************************************************************************)
(* STKService.initiate_stk_push: what one HTTP call (or one run of the     *)
(* initiate_stk_push_async task) does between its awaits.  Any number of   *)
(* calls run at once, in one process or in several; they share the         *)
(* payments table and, through Redis, the cached responses and the locks.  *)
(*                                                                         *)
(*   idle --> lock --> check --> create --> push --> persist --> cache     *)
(*     |       |         |          |        | |        |          |       *)
(*     v       v         |          |        | reject   |          |       *)
(*   done    done        +----------+--------+---+------+----------+       *)
(*                                               v                         *)
(*                                            release --> done             *)
(*                                                                         *)
(* Faults names what may go wrong.  The code catches every Redis error and *)
(* goes on, so "redis" adds outcomes rather than stopping a call.          *)
(***************************************************************************)
EXTENDS DarajaGateway, Naturals

CONSTANTS
  Faults,     \* the kinds of fault that may happen
  Attempts    \* daraja_retry_attempts

FaultKinds ==
  {"redis",     \* a Redis command fails, with or without taking effect
   "lockTTL",   \* a lock's TTL ends while a call still relies on it
   "cacheTTL",  \* a cached response or a callback's dedup key expires
   "db",        \* a statement or a commit fails, with or without effect
   "crash",     \* a process dies
   "timeout",   \* a push times out or gets a 5xx, accepted or not
   "reject",    \* Daraja (or its OAuth endpoint) refuses a push
   "token",     \* a token cannot be decoded: a worker's, or one just fetched
   "badreply"}  \* Daraja's reply to a push does not validate, or is not JSON

ASSUME InitiationAssumption ==
  /\ Faults \subseteq FaultKinds
  /\ Attempts \in Nat \ {0}

VARIABLES
  pc,         \* pc[r]: the await call r is at
  tries,      \* tries[r]: attempts of tenacity that have timed out
  hand,       \* hand[r]: the checkout of the reply call r holds, or Null
  resp,       \* resp[r]: what call r answered
  idemCache,  \* idemCache[k]: the response cached under stk:idem:<k>
  locked      \* the keys k for which stk:lock:<k> is set

callVars == <<pc, tries, hand, resp>>
initVars == <<payments, owner, prompt, pc, tries, hand, resp, idemCache, locked>>

Fault(kind) == kind \in Faults

Place == {"idle", "lock", "check", "create", "push", "reject", "persist",
          "cache", "release", "done", "crashed"}

\* Places a call passes before its first attempt
Before == {"idle", "lock", "check", "create"}

\* Places a call passes between taking the lock and deleting it
Critical == {"check", "create", "push", "reject", "persist", "cache", "release"}

\* Answers: "accepted" and "cached" carry status pending, "settled" the
\* status of the row; "conflict" is DuplicatePaymentError, "error" any other
AnswerKind == {"none", "accepted", "cached", "settled", "conflict", "error"}
Answer == [kind     : AnswerKind,
           payment  : Requests \cup {Null},
           checkout : Checkouts \cup {Null}]
NoAnswer == [kind |-> "none", payment |-> Null, checkout |-> Null]
Failure(kind) == [NoAnswer EXCEPT !.kind = kind]

CacheEntry == [payment : Requests \cup {Null}, checkout : Checkouts \cup {Null}]
NoEntry == [payment |-> Null, checkout |-> Null]

InitiationInit ==
  /\ pc        = [r \in Requests |-> "idle"]
  /\ tries     = [r \in Requests |-> 0]
  /\ hand      = [r \in Requests |-> Null]
  /\ resp      = [r \in Requests |-> NoAnswer]
  /\ idemCache = [k \in Keys |-> NoEntry]
  /\ locked    = {}

InitiationTypeOK ==
  /\ pc        \in [Requests -> Place]
  /\ tries     \in [Requests -> 0 .. Attempts]
  /\ hand      \in [Requests -> Checkouts \cup {Null}]
  /\ resp      \in [Requests -> Answer]
  /\ idemCache \in [Keys -> CacheEntry]
  /\ locked    \in SUBSET Keys
  /\ \A r \in Requests : pc[r] \in Before => tries[r] = 0
  /\ \A r \in Requests : pc[r] = "push" => tries[r] < Attempts

----------------------------------------------------------------------------
At(r, place) == pc[r] = place
GoTo(r, place) == pc' = [pc EXCEPT ![r] = place]
Reply(r, answer) == resp' = [resp EXCEPT ![r] = answer]

\* An exception leaves the try block: the finally clause is next
Raise(r) == GoTo(r, "release") /\ Reply(r, Failure("error"))

\* Call r arrives.  A failing GET counts as a miss.
CacheLookup(r) ==
  /\ At(r, "idle")
  /\ \/ /\ idemCache[KeyOf[r]] # NoEntry
        /\ GoTo(r, "done")
        /\ Reply(r, [kind     |-> "cached",
                     payment  |-> idemCache[KeyOf[r]].payment,
                     checkout |-> idemCache[KeyOf[r]].checkout])
     \/ /\ idemCache[KeyOf[r]] = NoEntry \/ Fault("redis")
        /\ GoTo(r, "lock")
        /\ UNCHANGED resp
  /\ UNCHANGED <<payments, owner, prompt, tries, hand, idemCache, locked>>

\* (mistake: SET without NX)
AcquireLockAnyway(r) ==
  /\ At(r, "lock")
  /\ locked' = locked \cup {KeyOf[r]}
  /\ GoTo(r, "check")
  /\ UNCHANGED <<payments, owner, prompt, tries, hand, resp, idemCache>>

\* SET NX.  A failing SET counts as success, whether or not it took effect.
AcquireLock(r) ==
  /\ At(r, "lock")
  /\ \/ /\ KeyOf[r] \notin locked
        /\ locked' = locked \cup {KeyOf[r]}
        /\ GoTo(r, "check")
        /\ UNCHANGED resp
     \/ /\ KeyOf[r] \in locked
        /\ GoTo(r, "done")
        /\ Reply(r, Failure("conflict"))
        /\ UNCHANGED locked
     \/ /\ Fault("redis")
        /\ locked' \in {locked, locked \cup {KeyOf[r]}}
        /\ GoTo(r, "check")
        /\ UNCHANGED resp
  /\ UNCHANGED <<payments, owner, prompt, tries, hand, idemCache>>

Settled(p) == payments[p].status \in {"completed", "failed", "cancelled"}

\* A row that is settled answers the call; a pending one does not.
DbCheck(r) ==
  /\ At(r, "check")
  /\ \/ \E p \in GetByIdempotencyKey(KeyOf[r]) :
          /\ Settled(p)
          /\ GoTo(r, "release")
          /\ Reply(r, [kind     |-> "settled",
                       payment  |-> p,
                       checkout |-> payments[p].checkout])
     \/ /\ ~ \E p \in GetByIdempotencyKey(KeyOf[r]) : Settled(p)
        /\ GoTo(r, "create")
        /\ UNCHANGED resp
     \/ Fault("db") /\ Raise(r)
  /\ UNCHANGED <<payments, owner, prompt, tries, hand, idemCache, locked>>

\* (mistake: the row is only flushed, to be committed with the checkout id)
CreateRowUncommitted(r) ==
  /\ At(r, "create")
  /\ KeyIsFree(r)
  /\ GoTo(r, "push")
  /\ UNCHANGED <<payments, owner, prompt, tries, hand, resp, idemCache, locked>>

\* (mistake: a violated constraint is taken to mean that the row is there)
CreateRowOrGoOn(r) ==
  /\ At(r, "create")
  /\ IF KeyIsFree(r) THEN Create(r) ELSE UNCHANGED payments
  /\ GoTo(r, "push")
  /\ UNCHANGED <<owner, prompt, tries, hand, resp, idemCache, locked>>

\* INSERT and COMMIT.  The unique constraint refuses a second row of the key.
CreateRow(r) ==
  /\ At(r, "create")
  /\ \/ /\ KeyIsFree(r)
        /\ Create(r)
        /\ \/ GoTo(r, "push") /\ UNCHANGED resp
           \/ Fault("db") /\ Raise(r)
     \/ /\ ~KeyIsFree(r) \/ Fault("db")
        /\ Raise(r)
        /\ UNCHANGED payments
  /\ UNCHANGED <<owner, prompt, tries, hand, idemCache, locked>>

----------------------------------------------------------------------------
(***************************************************************************)
(* One attempt of DarajaClient.post, the token it needs included.          *)
(***************************************************************************)

\* A JSON reply that does not validate is a DarajaError
PushAccepted(r) ==
  /\ At(r, "push")
  /\ \E c \in Checkouts :
       /\ Accept(r, c)
       /\ \/ GoTo(r, "persist") /\ hand' = [hand EXCEPT ![r] = c]
          \/ Fault("badreply") /\ GoTo(r, "reject") /\ UNCHANGED hand
  /\ UNCHANGED <<payments, tries, resp, idemCache, locked>>

\* (mistake: one attempt too many)
PushTimedOutOnceMore(r) ==
  /\ At(r, "push")
  /\ Fault("timeout")
  /\ tries' = [tries EXCEPT ![r] = @ + 1]
  /\ IF tries[r] < Attempts THEN UNCHANGED <<pc, resp>> ELSE Raise(r)
  /\ UNCHANGED <<payments, owner, prompt, hand, idemCache, locked>>

\* (mistake: when the attempts are used up, their count starts again)
PushTimedOutForever(r) ==
  /\ At(r, "push")
  /\ Fault("timeout")
  /\ tries' = [tries EXCEPT ![r] = IF @ < Attempts THEN @ + 1 ELSE 0]
  /\ UNCHANGED <<payments, owner, prompt, pc, hand, resp, idemCache, locked>>

\* tenacity tries again until the attempts are used up; then its RetryError,
\* which is no DarajaError, passes the handler that marks the row failed.
PushTimedOut(r) ==
  /\ At(r, "push")
  /\ Fault("timeout")
  /\ \/ \E c \in Checkouts : Accept(r, c)
     \/ UNCHANGED gatewayVars
  /\ tries' = [tries EXCEPT ![r] = @ + 1]
  /\ IF tries[r] + 1 < Attempts THEN UNCHANGED <<pc, resp>> ELSE Raise(r)
  /\ UNCHANGED <<payments, hand, idemCache, locked>>

\* A 200 that is not JSON, its push accepted or not: a ValueError, which tenacity
\* does not retry and the handler of DarajaError does not catch
PushUnreadable(r) ==
  /\ At(r, "push")
  /\ Fault("badreply")
  /\ \/ \E c \in Checkouts : Accept(r, c)
     \/ UNCHANGED gatewayVars
  /\ Raise(r)
  /\ UNCHANGED <<payments, tries, hand, idemCache, locked>>

PushRefused(r) ==
  /\ At(r, "push")
  /\ Fault("reject")
  /\ GoTo(r, "reject")
  /\ UNCHANGED <<payments, owner, prompt, tries, hand, resp, idemCache, locked>>

\* The token manager lets a failing SET or DELETE through as a RedisError, in a
\* worker the AttributeError of a token it cannot decode, and the ValueError of
\* an OAuth reply it cannot read
TokenUnavailable(r) ==
  /\ At(r, "push")
  /\ Fault("redis") \/ Fault("token")
  /\ Raise(r)
  /\ UNCHANGED <<payments, owner, prompt, tries, hand, idemCache, locked>>

Push(r) ==
  \/ PushAccepted(r) \/ PushTimedOut(r) \/ PushUnreadable(r)
  \/ PushRefused(r) \/ TokenUnavailable(r)

----------------------------------------------------------------------------
\* The handler of DarajaError; it swallows a failing UPDATE.
MarkRejected(r) ==
  /\ At(r, "reject")
  /\ \/ MarkFailed(r, "api_error")
     \/ Fault("db") /\ UNCHANGED payments
  /\ Raise(r)
  /\ UNCHANGED <<owner, prompt, tries, hand, idemCache, locked>>

\* (mistake: the handler that marks the row failed covers this statement, too)
PersistIdsOrFail(r) ==
  /\ At(r, "persist")
  /\ \/ UpdateDarajaIds(r, hand[r]) /\ GoTo(r, "cache")
     \/ Fault("db") /\ GoTo(r, "reject") /\ UNCHANGED payments
  /\ UNCHANGED <<owner, prompt, tries, hand, resp, idemCache, locked>>

PersistIds(r) ==
  /\ At(r, "persist")
  /\ \/ /\ CheckoutIsFree(hand[r])
        /\ UpdateDarajaIds(r, hand[r])
        /\ \/ GoTo(r, "cache") /\ UNCHANGED resp
           \/ Fault("db") /\ Raise(r)
     \/ /\ ~CheckoutIsFree(hand[r]) \/ Fault("db")
        /\ Raise(r)
        /\ UNCHANGED payments
  /\ UNCHANGED <<owner, prompt, tries, hand, idemCache, locked>>

\* SETEX of the response, which is then returned whether or not that worked
CacheResult(r) ==
  /\ At(r, "cache")
  /\ \/ idemCache' = [idemCache EXCEPT ![KeyOf[r]] =
                        [payment |-> r, checkout |-> hand[r]]]
     \/ Fault("redis") /\ UNCHANGED idemCache
  /\ GoTo(r, "release")
  /\ Reply(r, [kind |-> "accepted", payment |-> r, checkout |-> hand[r]])
  /\ UNCHANGED <<payments, owner, prompt, tries, hand, locked>>

\* finally: DEL of the lock, no matter who set it
ReleaseLock(r) ==
  /\ At(r, "release")
  /\ \/ locked' = locked \ {KeyOf[r]}
     \/ Fault("redis") /\ UNCHANGED locked
  /\ GoTo(r, "done")
  /\ UNCHANGED <<payments, owner, prompt, tries, hand, resp, idemCache>>

\* The process of call r dies: no finally clause, no answer.
CrashCall(r) ==
  /\ Fault("crash")
  /\ pc[r] \notin {"idle", "done", "crashed"}
  /\ GoTo(r, "crashed")
  /\ Reply(r, NoAnswer)
  /\ UNCHANGED <<payments, owner, prompt, tries, hand, idemCache, locked>>

\* (mistake: the lock is set without EX)
LockWithoutTTL(k) == FALSE

\* The TTL ends; without "lockTTL" it outlasts every call that relies on it.
LockExpires(k) ==
  /\ k \in locked
  /\ Fault("lockTTL") \/ \A r \in Requests : KeyOf[r] = k => pc[r] \notin Critical
  /\ locked' = locked \ {k}
  /\ UNCHANGED <<payments, owner, prompt, pc, tries, hand, resp, idemCache>>

CacheExpires(k) ==
  /\ Fault("cacheTTL")
  /\ idemCache[k] # NoEntry
  /\ idemCache' = [idemCache EXCEPT ![k] = NoEntry]
  /\ UNCHANGED <<payments, owner, prompt, pc, tries, hand, resp, locked>>

\* One step of call r
CallStep(r) ==
  \/ AcquireLock(r) \/ DbCheck(r) \/ CreateRow(r) \/ Push(r)
  \/ MarkRejected(r) \/ PersistIds(r) \/ CacheResult(r) \/ ReleaseLock(r)

InitiationNext ==
  \/ \E r \in Requests : CacheLookup(r) \/ CallStep(r) \/ CrashCall(r)
  \/ \E k \in Keys : LockExpires(k) \/ CacheExpires(k)
=============================================================================
