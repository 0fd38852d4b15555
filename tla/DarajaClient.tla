---------------------------- MODULE DarajaClient ----------------------------
(***************************************************************************)
(* DarajaClient.post: retries and the circuit breaker.  An API process has *)
(* one client, whose circuit and failure count all its posts share, and a  *)
(* Celery task one for its single post; nothing awaits between reading and *)
(* writing them.                                                           *)
(***************************************************************************)
EXTENDS TokenManager, FiniteSets

CONSTANTS
  Attempts,    \* daraja_retry_attempts
  Threshold    \* circuit_breaker_failure_threshold

ASSUME ClientAssumption == Attempts \in Nat \ {0} /\ Threshold \in Nat \ {0}

VARIABLES
  circuit,    \* circuit[q]: the state of the circuit of process q
  failures,   \* failures[q]: _failure_count
  tries       \* tries[p]: attempts of post p that have failed transiently

clientVars == <<circuit, failures, tries>>
vars == <<tokenVars, clientVars>>

\* The posts of process q
PostsOf(q) == {p \in Posts : ProcessOf[p] = q}

Init ==
  /\ TokenInit
  /\ circuit  = [q \in Processes |-> "closed"]
  /\ failures = [q \in Processes |-> 0]
  /\ tries    = [p \in Posts |-> 0]

TypeOK ==
  /\ TokenTypeOK
  /\ circuit  \in [Processes -> {"closed", "open", "half_open"}]
  /\ failures \in [Processes -> Nat]
  /\ tries    \in [Posts -> 0 .. Attempts]

\* _check_circuit, and on to the first attempt.  Whether recovery_timeout has
\* passed since the last failure is left open.
StartPost(p) ==
  LET q == ProcessOf[p] IN
  /\ at[p] = "idle"
  /\ \E cooled \in BOOLEAN :
       IF circuit[q] = "open" /\ ~cooled
         THEN End(p, "circuitOpen") /\ UNCHANGED circuit
         ELSE /\ MoveTo(p, "lookup")
              /\ circuit' = [circuit EXCEPT ![q] = IF @ = "open" THEN "half_open" ELSE @]
  /\ UNCHANGED <<polls, tokenCached, tokenLock, holding, failures, tries>>

OnSuccess(q) ==
  /\ failures' = [failures EXCEPT ![q] = 0]
  /\ circuit'  = [circuit EXCEPT ![q] = "closed"]

\* _on_failure, called n times.  It compares the state with OPEN where it
\* means to assign it, so the state stays what it is.
OnFailure(q, n) ==
  /\ failures' = [failures EXCEPT ![q] = @ + n]
  /\ UNCHANGED circuit

Succeed(p) ==
  /\ at[p] = "send"
  /\ OnSuccess(ProcessOf[p])
  /\ End(p, "response")
  /\ UNCHANGED <<polls, tokenCached, tokenLock, holding, tries>>

\* A 5xx is counted where it is seen, and again where it is caught
Counted == {n \in {1, 2} : Fault(IF n = 1 THEN "network" ELSE "server")}

\* (mistake: one attempt too many)
FailOnceMore(p) ==
  /\ at[p] = "send"
  /\ \E n \in Counted : OnFailure(ProcessOf[p], n)
  /\ tries' = [tries EXCEPT ![p] = @ + 1]
  /\ IF tries[p] < Attempts THEN MoveTo(p, "lookup") ELSE End(p, "retryError")
  /\ UNCHANGED <<polls, tokenCached, tokenLock, holding>>

\* (mistake: tenacity raises the error of the last attempt, a DarajaError)
FailAsRefused(p) ==
  /\ at[p] = "send"
  /\ \E n \in Counted : OnFailure(ProcessOf[p], n)
  /\ tries' = [tries EXCEPT ![p] = @ + 1]
  /\ IF tries[p] + 1 < Attempts THEN MoveTo(p, "lookup") ELSE End(p, "refused")
  /\ UNCHANGED <<polls, tokenCached, tokenLock, holding>>

\* tenacity tries again, with no second look at the circuit, until the
\* attempts are used up; then it raises a RetryError of its own.
FailTransiently(p) ==
  /\ at[p] = "send"
  /\ \E n \in Counted : OnFailure(ProcessOf[p], n)
  /\ tries' = [tries EXCEPT ![p] = @ + 1]
  /\ IF tries[p] + 1 < Attempts THEN MoveTo(p, "lookup") ELSE End(p, "retryError")
  /\ UNCHANGED <<polls, tokenCached, tokenLock, holding>>

\* 401: the cached token is deleted, if Redis can be reached
Unauthorized(p) ==
  /\ at[p] = "send"
  /\ Fault("unauthorized")
  /\ tokenCached' = FALSE \/ (Fault("redis") /\ UNCHANGED tokenCached)
  /\ End(p, "unauthorized")
  /\ UNCHANGED <<polls, tokenLock, holding, clientVars>>

\* (mistake: a refusal counts as a failure)
RefusedCounts(p) ==
  /\ at[p] = "send"
  /\ Fault("refused")
  /\ OnFailure(ProcessOf[p], 1)
  /\ End(p, "refused")
  /\ UNCHANGED <<polls, tokenCached, tokenLock, holding, tries>>

\* Another 4xx, whatever its body
Refused(p) ==
  /\ at[p] = "send"
  /\ Fault("refused")
  /\ End(p, "refused")
  /\ UNCHANGED <<polls, tokenCached, tokenLock, holding, clientVars>>

\* A 200 whose body is not JSON: the ValueError is no DarajaError, tenacity does
\* not try again, and the circuit hears of neither a success nor a failure.
ReplyUnreadable(p) ==
  /\ at[p] = "send"
  /\ Fault("unreadable")
  /\ End(p, "badReply")
  /\ UNCHANGED <<polls, tokenCached, tokenLock, holding, clientVars>>

\* The process dies with all its posts; a new one starts with a closed circuit
CrashProcess(q) ==
  LET dying == {p \in PostsOf(q) : at[p] \notin {"idle", "done"}} IN
  /\ Fault("crash")
  /\ dying # {}
  /\ at'       = [p \in Posts |-> IF p \in dying THEN "done" ELSE at[p]]
  /\ ended'    = [p \in Posts |-> IF p \in dying THEN "crashed" ELSE ended[p]]
  /\ polls'    = [p \in Posts |-> IF p \in dying THEN 0 ELSE polls[p]]
  /\ holding'  = holding \ dying
  /\ circuit'  = [circuit EXCEPT ![q] = "closed"]
  /\ failures' = [failures EXCEPT ![q] = 0]
  /\ UNCHANGED <<tokenCached, tokenLock, tries>>

\* One step of a post that has started
PostStep(p) ==
  \/ TokenStep(p) /\ UNCHANGED clientVars
  \/ Succeed(p) \/ FailTransiently(p)
  \/ Unauthorized(p) \/ Refused(p) \/ ReplyUnreadable(p)

Next ==
  \/ \E p \in Posts : StartPost(p) \/ PostStep(p)
  \/ \E q \in Processes : CrashProcess(q)
  \/ (TokenLockExpires \/ TokenExpires) /\ UNCHANGED clientVars

Spec == Init /\ [][Next]_vars

\* The event loop resumes a post that has started; Redis ends TTLs
FairSpec ==
  /\ Spec
  /\ \A p \in Posts : WF_vars(PostStep(p))
  /\ WF_vars(TokenLockExpires /\ UNCHANGED clientVars)

-----------------------------------------------------------------------------
\* The attempts of the posts of process q that have failed transiently
FailedAttempts(q) ==
  {attempt \in PostsOf(q) \X (1 .. Attempts) : attempt[2] <= tries[attempt[1]]}

\* The circuit counts nothing but transient failures, of its own process: a
\* refusal, a bad credential or another process's trouble never brings it
\* nearer to its threshold, and no failure is counted more than twice.
OnlyTransientFailuresCount ==
  \A q \in Processes : failures[q] <= 2 * Cardinality(FailedAttempts(q))

\* As long as the lock outlasts the fetch, one post at a time refreshes the
\* token under the lock, in all processes, crashes of a holder included.
OneHolder ==
  /\ \A p1, p2 \in holding : p1 = p2
  /\ holding # {} => tokenLock

\* Every post that has started ends, though the token its pollers wait for is
\* deleted by the post that fetched it.
PostsEnd == \A p \in Posts : (at[p] # "idle") ~> (at[p] = "done")

\* What the caller makes of the end of a post: DarajaError and its subclasses
\* are refusals to it, and no other exception is
StageOf ==
  [response       |-> "replied", badReply |-> "unread",
   circuitOpen    |-> "refused", unauthorized |-> "refused",
   refused        |-> "refused", authError    |-> "refused",
   redisError     |-> "unavailable", attributeError |-> "unavailable",
   badToken       |-> "unavailable",
   retryError     |-> "exhausted",
   crashed        |-> "dead"]

Stages ==
  [p \in Posts |-> IF at[p] = "idle" THEN "idle"
                   ELSE IF at[p] = "done" THEN StageOf[ended[p]] ELSE "trying"]

Contract == INSTANCE PushContract WITH stage <- Stages, doubts <- tries

\* A post is what the push of StkInitiation takes it for, whatever the token
\* manager, the circuit and the other posts do: refused once and for all, left
\* unread by an attempt that is its last, or exhausted after exactly the
\* configured number of attempts in doubt.
ImplementsPush == Contract!ContractSpec

(***************************************************************************)
(* What the documentation says and the code does not do (see README).      *)
(***************************************************************************)

\* client.py:6, "Open -> requests fail fast": once the threshold is reached the
\* circuit is not closed.
OpensAtThreshold ==
  \A q \in Processes : failures[q] >= Threshold => circuit[q] # "closed"
=============================================================================
