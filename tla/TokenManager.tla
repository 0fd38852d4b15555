---------------------------- MODULE TokenManager ----------------------------
(***************************************************************************)
(* DarajaAuthManager.get_token: how the posts to Daraja, of every process, *)
(* come by a bearer token.  They share, through Redis, the cached token    *)
(* and the lock on refreshing it.                                          *)
(*                                                                         *)
(*   lookup --> lock --> fetch --> store --> drop --> send                 *)
(*     |  \       |        ^         |                 ^                   *)
(*     |   \      +-> poll-+         +-----------------+                   *)
(*     |    +--------------+               not the lock's holder           *)
(*     +--> send                                                           *)
(*                                                                         *)
(* One attempt of a post begins at lookup and is at send when it has the   *)
(* token; what follows is DarajaClient's.                                  *)
(***************************************************************************)
EXTENDS Integers

CONSTANTS
  Posts,       \* calls of DarajaClient.post
  Processes,   \* what has a client of its own: API processes and Celery tasks
  ProcessOf,   \* the process of each post
  Workers,     \* the Celery tasks among them
  Faults,      \* the kinds of fault that may happen
  MaxPolls     \* lock TTL / 250 ms, 40 in the code

FaultKinds ==
  {"redis",         \* a Redis command fails, with or without taking effect
   "lockTTL",       \* the lock's TTL ends while its holder is still fetching
   "tokenTTL",      \* the cached token comes within five minutes of its expiry
   "oauth",         \* the OAuth request fails: error status, timeout, network
   "network",       \* a post times out or its connection breaks
   "server",        \* Daraja answers a post with a 5xx
   "unauthorized",  \* ... with a 401
   "refused",       \* ... with another 4xx
   "unreadable",    \* a 200, to a post or to the OAuth request, cannot be read
   "crash"}         \* a process dies in the middle of a post

ASSUME TokenAssumption ==
  /\ ProcessOf \in [Posts -> Processes]
  /\ Workers \subseteq Processes
  /\ \A p1, p2 \in Posts :  \* a task makes one post
       ProcessOf[p1] = ProcessOf[p2] /\ ProcessOf[p1] \in Workers => p1 = p2
  /\ Faults \subseteq FaultKinds
  /\ MaxPolls \in Nat \ {0}

VARIABLES
  at,           \* at[p]: the await post p is at
  ended,        \* ended[p]: what post p returned or raised
  polls,        \* polls[p]: polls done while p waits for another's token
  tokenCached,  \* daraja:oauth:token is set
  tokenLock,    \* daraja:oauth:lock is set
  holding       \* the posts whose SET NX of the lock succeeded, until they drop

tokenVars == <<at, ended, polls, tokenCached, tokenLock, holding>>

Fault(kind) == kind \in Faults

Waiting == {"lookup", "lock", "poll", "fetch", "store", "drop"}
Place   == {"idle", "send", "done"} \cup Waiting

Ending == {"none", "response", "badReply", "circuitOpen", "retryError",
           "unauthorized", "refused", "authError", "badToken", "redisError",
           "attributeError", "crashed"}

TokenInit ==
  /\ at          = [p \in Posts |-> "idle"]
  /\ ended       = [p \in Posts |-> "none"]
  /\ polls       = [p \in Posts |-> 0]
  /\ tokenCached = FALSE
  /\ tokenLock   = FALSE
  /\ holding     = {}

TokenTypeOK ==
  /\ at          \in [Posts -> Place]
  /\ ended       \in [Posts -> Ending]
  /\ polls       \in [Posts -> 0 .. MaxPolls - 1]
  /\ tokenCached \in BOOLEAN
  /\ tokenLock   \in BOOLEAN
  /\ holding     \in SUBSET Posts

MoveTo(p, place) == at' = [at EXCEPT ![p] = place] /\ UNCHANGED ended

End(p, how) ==
  /\ at'    = [at EXCEPT ![p] = "done"]
  /\ ended' = [ended EXCEPT ![p] = how]

\* A worker's Redis client decodes what it reads, and a str has no decode()
CanDecode(p) == ProcessOf[p] \notin Workers

GetToken(p) ==
  /\ at[p] = "lookup"
  /\ \/ tokenCached /\ CanDecode(p) /\ MoveTo(p, "send")
     \/ tokenCached /\ ~CanDecode(p) /\ End(p, "attributeError")
     \/ ~tokenCached /\ MoveTo(p, "lock")
     \/ Fault("redis") /\ MoveTo(p, "fetch")
  /\ UNCHANGED <<polls, tokenCached, tokenLock, holding>>

\* (mistake: SET without NX)
AcquireAnyway(p) ==
  /\ at[p] = "lock"
  /\ tokenLock' = TRUE
  /\ holding' = holding \cup {p}
  /\ MoveTo(p, "fetch")
  /\ UNCHANGED <<polls, tokenCached>>

\* SET NX PX; nothing catches its failure
AcquireTokenLock(p) ==
  /\ at[p] = "lock"
  /\ \/ /\ ~tokenLock
        /\ tokenLock' = TRUE
        /\ holding' = holding \cup {p}
        /\ MoveTo(p, "fetch")
     \/ /\ tokenLock
        /\ MoveTo(p, "poll")
        /\ UNCHANGED <<tokenLock, holding>>
     \/ /\ Fault("redis")
        /\ tokenLock' \in {tokenLock, TRUE}
        /\ End(p, "redisError")
        /\ UNCHANGED holding
  /\ UNCHANGED <<polls, tokenCached>>

\* (mistake: polls until the token appears)
PollForToken(p) ==
  /\ at[p] = "poll"
  /\ tokenCached /\ CanDecode(p)
  /\ MoveTo(p, "send")
  /\ UNCHANGED <<polls, tokenCached, tokenLock, holding>>

\* Any exception of a poll, the worker's included, counts as no token yet
Poll(p) ==
  /\ at[p] = "poll"
  /\ \/ /\ tokenCached /\ CanDecode(p)
        /\ MoveTo(p, "send")
        /\ polls' = [polls EXCEPT ![p] = 0]
     \/ /\ ~tokenCached \/ ~CanDecode(p) \/ Fault("redis")
        /\ IF polls[p] + 1 < MaxPolls
             THEN polls' = [polls EXCEPT ![p] = @ + 1] /\ UNCHANGED <<at, ended>>
             ELSE MoveTo(p, "fetch") /\ polls' = [polls EXCEPT ![p] = 0]
  /\ UNCHANGED <<tokenCached, tokenLock, holding>>

\* A request that fails, or whose 200 has no token, raises a DarajaAuthError; a
\* 200 that is no JSON object, or whose expires_in is no number, raises what
\* nothing wraps.  The holder's finally clause runs in either case.
FetchNewToken(p) ==
  /\ at[p] = "fetch"
  /\ \/ MoveTo(p, "store")
     \/ \E how \in {"authError", "badToken"} :
          /\ Fault(IF how = "authError" THEN "oauth" ELSE "unreadable")
          /\ ended' = [ended EXCEPT ![p] = how]
          /\ at' = [at EXCEPT ![p] = IF p \in holding THEN "drop" ELSE "done"]
  /\ UNCHANGED <<polls, tokenCached, tokenLock, holding>>

StoreToken(p) ==
  /\ at[p] = "store"
  /\ tokenCached' = TRUE \/ (Fault("redis") /\ UNCHANGED tokenCached)
  /\ MoveTo(p, IF p \in holding THEN "drop" ELSE "send")
  /\ UNCHANGED <<polls, tokenLock, holding>>

\* finally: DEL of the token, not of the lock, which its TTL ends
DropToken(p) ==
  /\ at[p] = "drop"
  /\ holding' = holding \ {p}
  /\ \/ /\ tokenCached' = FALSE
        /\ IF ended[p] = "none" THEN MoveTo(p, "send") ELSE End(p, ended[p])
     \/ /\ Fault("redis")
        /\ tokenCached' \in {tokenCached, FALSE}
        /\ End(p, "redisError")
  /\ UNCHANGED <<polls, tokenLock>>

TokenStep(p) ==
  \/ GetToken(p) \/ AcquireTokenLock(p) \/ Poll(p)
  \/ FetchNewToken(p) \/ StoreToken(p) \/ DropToken(p)

TokenLockExpires ==
  /\ tokenLock
  /\ Fault("lockTTL") \/ holding = {}
  /\ tokenLock' = FALSE
  /\ UNCHANGED <<at, ended, polls, tokenCached, holding>>

TokenExpires ==
  /\ Fault("tokenTTL")
  /\ tokenCached
  /\ tokenCached' = FALSE
  /\ UNCHANGED <<at, ended, polls, tokenLock, holding>>
=============================================================================
