---------------------------- MODULE ClientProofs ----------------------------
(***************************************************************************)
(* Proofs about DarajaClient, for any number of posts and processes.       *)
(* OneHolder is inductive as it stands: a lock that is held keeps others   *)
(* out, and it is not lost while its holder relies on it.                  *)
(***************************************************************************)
EXTENDS DarajaClient, FiniteSetTheorems, TLAPS

\* No step of a post lets a second post hold the lock, or loses a lock that is
\* held.
LEMMA HolderKeptByPost ==
  ASSUME OneHolder, NEW p \in Posts, StartPost(p) \/ PostStep(p)
  PROVE  OneHolder'
<1>1. CASE AcquireTokenLock(p)
  BY <1>1 DEF AcquireTokenLock, OneHolder
<1>2. CASE DropToken(p)
  BY <1>2 DEF DropToken, OneHolder
<1>3. CASE UNCHANGED <<tokenLock, holding>>
  BY <1>3 DEF OneHolder
<1>4. \/ AcquireTokenLock(p) \/ DropToken(p)
      \/ UNCHANGED <<tokenLock, holding>>
  <2>1. CASE TokenStep(p)
    BY <2>1 DEF TokenStep, GetToken, Poll, FetchNewToken, StoreToken
  <2>2. CASE Succeed(p) \/ FailTransiently(p) \/ Unauthorized(p) \/ Refused(p) \/ ReplyUnreadable(p)
    BY <2>2 DEF Succeed, FailTransiently, Unauthorized, Refused, ReplyUnreadable
  <2>3. CASE StartPost(p)
    BY <2>3 DEF StartPost
  <2> QED
    BY <2>1, <2>2, <2>3 DEF PostStep
<1> QED
  BY <1>1, <1>2, <1>3, <1>4

\* While the lock's TTL outlasts the fetch, at most one post of all processes
\* refreshes the token under the lock, whatever Redis does and whoever dies.
THEOREM OneHolderHolds ==
  ASSUME "lockTTL" \notin Faults
  PROVE  Spec => []OneHolder
<1>1. Init => OneHolder
  BY DEF Init, TokenInit, OneHolder
<1>2. OneHolder /\ [Next]_vars => OneHolder'
  <2> SUFFICES ASSUME OneHolder, [Next]_vars PROVE OneHolder'
    OBVIOUS
  <2>1. CASE \E p \in Posts : StartPost(p) \/ PostStep(p)
    BY <2>1, HolderKeptByPost
  <2>2. CASE \E q \in Processes : CrashProcess(q)
    BY <2>2 DEF CrashProcess, tokenVars, OneHolder
  <2>3. CASE TokenLockExpires
    BY <2>3 DEF TokenLockExpires, Fault, OneHolder
  <2>4. CASE TokenExpires
    BY <2>4 DEF TokenExpires, OneHolder
  <2>5. CASE UNCHANGED vars
    BY <2>5 DEF vars, tokenVars, OneHolder
  <2> QED
    BY <2>1, <2>2, <2>3, <2>4, <2>5 DEF Next
<1> QED
  BY <1>1, <1>2, PTL DEF Spec

-----------------------------------------------------------------------------
(***************************************************************************)
(* Type correctness.  The invariant adds that a post that is on its way    *)
(* has an attempt left.                                                    *)
(***************************************************************************)

AttemptLeft == \A p \in Posts : at[p] # "done" => tries[p] < Attempts

TypeInv == TypeOK /\ AttemptLeft

\* A step of one post, of the token manager's or the client's
LEMMA PostTypes ==
  ASSUME TypeInv, NEW p \in Posts, StartPost(p) \/ PostStep(p)
  PROVE  TypeInv'
<1> USE DEF TypeInv, TypeOK, TokenTypeOK, AttemptLeft
<1> USE ClientAssumption, TokenAssumption
<1>1. /\ tokenCached' \in BOOLEAN /\ tokenLock' \in BOOLEAN /\ holding' \in SUBSET Posts
      /\ polls' \in [Posts -> 0 .. MaxPolls - 1]
  <2>1. CASE TokenStep(p)
    <3>1. CASE Poll(p)
      <4>1. polls[p] + 1 < MaxPolls => polls[p] + 1 \in 0 .. MaxPolls - 1
        OBVIOUS
      <4>2. 0 \in 0 .. MaxPolls - 1
        OBVIOUS
      <4>3. \/ polls' = [polls EXCEPT ![p] = 0]
            \/ polls[p] + 1 < MaxPolls /\ polls' = [polls EXCEPT ![p] = polls[p] + 1]
        BY <3>1 DEF Poll
      <4> QED
        BY <3>1, <4>1, <4>2, <4>3 DEF Poll
    <3>2. CASE GetToken(p) \/ AcquireTokenLock(p) \/ FetchNewToken(p) \/ StoreToken(p) \/ DropToken(p)
      BY <3>2 DEF GetToken, AcquireTokenLock, FetchNewToken, StoreToken, DropToken
    <3> QED
      BY <2>1, <3>1, <3>2 DEF TokenStep
  <2>2. CASE \/ Succeed(p) \/ FailTransiently(p) \/ Unauthorized(p) \/ Refused(p)
             \/ ReplyUnreadable(p) \/ StartPost(p)
    BY <2>2 DEF Succeed, FailTransiently, Unauthorized, Refused, ReplyUnreadable, StartPost
  <2> QED
    BY <2>1, <2>2 DEF PostStep
<1>2. /\ at' \in [Posts -> Place] /\ ended' \in [Posts -> Ending]
      /\ at[p] # "done" /\ \A o \in Posts \ {p} : at'[o] = at[o]
  <2>1. CASE TokenStep(p)
    BY <2>1 DEF TokenStep, GetToken, AcquireTokenLock, Poll, FetchNewToken, StoreToken, DropToken,
                MoveTo, End, Place, Ending, Waiting
  <2>2. CASE \/ Succeed(p) \/ FailTransiently(p) \/ Unauthorized(p) \/ Refused(p)
             \/ ReplyUnreadable(p) \/ StartPost(p)
    BY <2>2 DEF Succeed, FailTransiently, Unauthorized, Refused, ReplyUnreadable, StartPost,
                MoveTo, End, Place, Ending, Waiting
  <2> QED
    BY <2>1, <2>2 DEF PostStep
<1>3. /\ circuit' \in [Processes -> {"closed", "open", "half_open"}]
      /\ failures' \in [Processes -> Nat]
  <2>1. ASSUME NEW n \in {1, 2}, OnFailure(ProcessOf[p], n)
        PROVE  failures' \in [Processes -> Nat] /\ UNCHANGED circuit
    BY <2>1 DEF OnFailure
  <2>2. CASE FailTransiently(p)
    BY <2>1, <2>2 DEF FailTransiently, Counted
  <2>3. CASE Succeed(p)
    BY <2>3 DEF Succeed, OnSuccess
  <2>4. CASE StartPost(p)
    BY <2>4 DEF StartPost
  <2>5. CASE UNCHANGED clientVars
    BY <2>5 DEF clientVars
  <2> QED
    BY <2>2, <2>3, <2>4, <2>5 DEF PostStep, Unauthorized, Refused, ReplyUnreadable
<1>4. /\ tries' \in [Posts -> 0 .. Attempts]
      /\ \A o \in Posts : at'[o] # "done" => tries'[o] < Attempts
  <2>1. CASE FailTransiently(p)
    <3>1. tries[p] + 1 \in 0 .. Attempts /\ tries' = [tries EXCEPT ![p] = tries[p] + 1]
      BY <1>2, <2>1 DEF FailTransiently
    <3>2. at'[p] = "done" \/ tries[p] + 1 < Attempts
      BY <2>1 DEF FailTransiently, End
    <3> QED
      BY <1>2, <3>1, <3>2
  <2>2. CASE UNCHANGED tries
    BY <1>2, <2>2
  <2> QED
    BY <2>1, <2>2 DEF PostStep, StartPost, Succeed, Unauthorized, Refused, ReplyUnreadable, clientVars
<1> QED
  BY <1>1, <1>2, <1>3, <1>4

\* No post makes more attempts than the configured number
LEMMA TypesKept == Spec => []TypeInv
<1> USE ClientAssumption, TokenAssumption
<1>1. ASSUME Init PROVE TypeInv
  <2>1. 0 \in 0 .. MaxPolls - 1 /\ 0 \in 0 .. Attempts /\ 0 < Attempts
    OBVIOUS
  <2>2. TokenTypeOK
    BY <1>1, <2>1 DEF Init, TokenInit, TokenTypeOK, Place, Ending
  <2> QED
    BY <1>1, <2>1, <2>2 DEF Init, TypeInv, TypeOK, AttemptLeft
<1>2. TypeInv /\ [Next]_vars => TypeInv'
  <2> SUFFICES ASSUME TypeInv, [Next]_vars PROVE TypeInv'
    OBVIOUS
  <2>1. ASSUME NEW q \in Processes, CrashProcess(q) PROVE TypeInv'
    <3> USE DEF TypeInv, TypeOK, TokenTypeOK, AttemptLeft
    <3> DEFINE dying == {p \in PostsOf(q) : at[p] \notin {"idle", "done"}}
    <3>1. /\ at' \in [Posts -> Place] /\ ended' \in [Posts -> Ending]
          /\ polls' \in [Posts -> 0 .. MaxPolls - 1]
          /\ \A p \in Posts : at'[p] # "done" => at[p] # "done"
      <4> HIDE DEF dying
      <4> QED
        BY <2>1 DEF CrashProcess, Place, Ending, dying
    <3>2. circuit' \in [Processes -> {"closed", "open", "half_open"}] /\ failures' \in [Processes -> Nat]
      BY <2>1 DEF CrashProcess
    <3>3. holding' \in SUBSET Posts /\ UNCHANGED <<tokenCached, tokenLock, tries>>
      BY <2>1 DEF CrashProcess
    <3> QED
      BY <3>1, <3>2, <3>3
  <2>2. CASE (TokenLockExpires \/ TokenExpires) /\ UNCHANGED clientVars
    BY <2>2 DEF TokenLockExpires, TokenExpires, clientVars, tokenVars, TypeInv, TypeOK, TokenTypeOK,
                AttemptLeft
  <2>3. CASE UNCHANGED vars
    BY <2>3 DEF vars, tokenVars, clientVars, TypeInv, TypeOK, TokenTypeOK, AttemptLeft
  <2> QED
    BY <2>1, <2>2, <2>3, PostTypes DEF Next
<1> QED
  BY <1>1, <1>2, PTL DEF Spec

\* The posts, the token and the circuits keep their types: no post makes more
\* attempts than the configured number.
THEOREM TypeCorrect == Spec => []TypeOK
<1>1. TypeInv => TypeOK
  BY DEF TypeInv
<1> QED
  BY <1>1, TypesKept, PTL

-----------------------------------------------------------------------------
(***************************************************************************)
(* What the circuit counts.  The failed attempts of a process are a finite *)
(* set, which grows by one with each failure and never shrinks.            *)
(***************************************************************************)

CountInv ==
  \A q \in Processes : /\ IsFiniteSet(FailedAttempts(q))
                        /\ failures[q] <= 2 * Cardinality(FailedAttempts(q))

\* A transient failure adds an attempt to those of its process that have failed
LEMMA AttemptFails ==
  ASSUME TypeInv, CountInv, NEW p \in Posts, FailTransiently(p)
  PROVE  CountInv'
<1> USE ClientAssumption, TokenAssumption DEF TypeInv, TypeOK, TokenTypeOK
<1> DEFINE own == ProcessOf[p]
           new == <<p, tries[p] + 1>>
<1>1. own \in Processes /\ PostsOf(own)' = PostsOf(own) /\ p \in PostsOf(own)
  BY DEF PostsOf
<1>2. /\ tries[p] + 1 \in 1 .. Attempts
      /\ tries' = [tries EXCEPT ![p] = tries[p] + 1]
  BY DEF FailTransiently, AttemptLeft
<1>3. PICK n \in {1, 2} : failures' = [failures EXCEPT ![own] = @ + n]
  BY DEF FailTransiently, Counted, OnFailure
<1>4. FailedAttempts(own)' = FailedAttempts(own) \cup {new} /\ new \notin FailedAttempts(own)
  <2>1. new \in PostsOf(own) \X (1 .. Attempts) /\ new[1] = p /\ new[2] = tries[p] + 1
    BY <1>1, <1>2
  <2>2. tries'[p] = tries[p] + 1 /\ \A o \in Posts \ {p} : tries'[o] = tries[o]
    BY <1>2
  <2>3. ASSUME NEW attempt \in PostsOf(own) \X (1 .. Attempts)
        PROVE  attempt[2] <= tries'[attempt[1]] <=> attempt[2] <= tries[attempt[1]] \/ attempt = new
    <3>1. PICK o \in Posts, k \in 1 .. Attempts : attempt = <<o, k>>
      BY DEF PostsOf
    <3>2. CASE o = p
      BY <2>2, <3>1, <3>2
    <3>3. CASE o # p
      BY <2>2, <3>1, <3>3
    <3> QED
      BY <3>2, <3>3
  <2>4. new \notin FailedAttempts(own)
    BY <2>1 DEF FailedAttempts
  <2> HIDE DEF new
  <2>5. FailedAttempts(own)' = FailedAttempts(own) \cup {new}
    BY <1>1, <2>1, <2>3 DEF FailedAttempts
  <2> QED
    BY <2>4, <2>5
<1>5. \A q \in Processes \ {own} : FailedAttempts(q)' = FailedAttempts(q) /\ failures'[q] = failures[q]
  BY <1>1, <1>2, <1>3 DEF FailedAttempts, PostsOf
<1>6. /\ IsFiniteSet(FailedAttempts(own)')
      /\ Cardinality(FailedAttempts(own)') = Cardinality(FailedAttempts(own)) + 1
      /\ Cardinality(FailedAttempts(own)) \in Nat
  <2>1. IsFiniteSet(FailedAttempts(own)) /\ Cardinality(FailedAttempts(own)) \in Nat
    BY <1>1, FS_CardinalityType DEF CountInv
  <2> HIDE DEF new, own
  <2>2. /\ IsFiniteSet(FailedAttempts(own) \cup {new})
        /\ Cardinality(FailedAttempts(own) \cup {new}) = Cardinality(FailedAttempts(own)) + 1
    BY <1>4, <2>1, FS_AddElement
  <2> QED
    BY <1>4, <2>1, <2>2
<1>7. failures'[own] <= failures[own] + 2 /\ failures[own] \in Nat /\ failures'[own] \in Nat
  BY <1>1, <1>3
<1>8. failures[own] <= 2 * Cardinality(FailedAttempts(own))
  BY <1>1 DEF CountInv
<1>9. failures'[own] <= 2 * Cardinality(FailedAttempts(own)')
  BY <1>6, <1>7, <1>8
<1> QED
  BY <1>5, <1>6, <1>9 DEF CountInv

\* Everything else leaves the count alone or starts it again
LEMMA CountKept ==
  ASSUME TypeInv, CountInv, UNCHANGED tries,
         \A q \in Processes : failures'[q] = failures[q] \/ failures'[q] = 0
  PROVE  CountInv'
<1>1. \A q \in Processes : FailedAttempts(q)' = FailedAttempts(q)
  BY DEF FailedAttempts, PostsOf
<1>2. \A q \in Processes : Cardinality(FailedAttempts(q)) \in Nat
  BY FS_CardinalityType DEF CountInv
<1> QED
  BY <1>1, <1>2 DEF CountInv

\* The circuit of a process counts nothing but the transient failures of its own
\* posts, and none of them more than twice, whatever the other processes meet.
THEOREM OnlyTransientFailuresCountHolds == Spec => []OnlyTransientFailuresCount
<1>1. ASSUME Init PROVE CountInv
  <2>1. ASSUME NEW q \in Processes PROVE FailedAttempts(q) = {} /\ failures[q] = 0
    BY <1>1 DEF Init, FailedAttempts, PostsOf
  <2> QED
    BY <2>1, FS_EmptySet DEF CountInv
<1>2. ASSUME TypeInv, CountInv, [Next]_vars PROVE CountInv'
  <2>1. ASSUME NEW p \in Posts, FailTransiently(p) PROVE CountInv'
    BY <1>2, <2>1, AttemptFails
  <2>2. CASE UNCHANGED clientVars
    BY <1>2, <2>2, CountKept DEF clientVars
  <2>3. ASSUME NEW p \in Posts, StartPost(p) \/ Succeed(p) PROVE CountInv'
    <3>1. UNCHANGED tries /\ \A q \in Processes : failures'[q] = failures[q] \/ failures'[q] = 0
      BY <1>2, <2>3 DEF StartPost, Succeed, OnSuccess, TypeInv, TypeOK
    <3> QED
      BY <1>2, <3>1, CountKept
  <2>4. ASSUME NEW q \in Processes, CrashProcess(q) PROVE CountInv'
    <3>1. UNCHANGED tries /\ \A o \in Processes : failures'[o] = failures[o] \/ failures'[o] = 0
      BY <1>2, <2>4 DEF CrashProcess, TypeInv, TypeOK
    <3> QED
      BY <1>2, <3>1, CountKept
  <2>5. CASE UNCHANGED vars
    BY <2>2, <2>5 DEF vars, clientVars
  <2> QED
    BY <1>2, <2>1, <2>2, <2>3, <2>4, <2>5 DEF Next, PostStep, Unauthorized, Refused, ReplyUnreadable
<1>3. CountInv => OnlyTransientFailuresCount
  BY DEF CountInv, OnlyTransientFailuresCount
<1> QED
  BY <1>1, <1>2, <1>3, TypesKept, PTL DEF Spec

-----------------------------------------------------------------------------
(***************************************************************************)
(* The contract of a post.                                                 *)
(***************************************************************************)

\* Until it is done, a post has no end but a failure of its fetch, which waits
\* for the holder's finally clause
NoEndYet == \A p \in Posts : at[p] # "done" => ended[p] \in {"none", "authError", "badToken"}

ContractInv == TypeInv /\ NoEndYet

\* The stage of a post that ends
LEMMA StageOfEnd ==
  ASSUME ContractInv, NEW p \in Posts, NEW how \in DOMAIN StageOf, End(p, how)
  PROVE  Stages' = [Stages EXCEPT ![p] = StageOf[how]]
<1> QED
  BY DEF ContractInv, TypeInv, TypeOK, TokenTypeOK, End, Stages

\* The stage of a post that goes on
LEMMA StageOfMove ==
  ASSUME ContractInv, NEW p \in Posts, NEW place \in Place \ {"idle", "done"}, MoveTo(p, place)
  PROVE  Stages' = [Stages EXCEPT ![p] = "trying"]
<1> QED
  BY DEF ContractInv, TypeInv, TypeOK, TokenTypeOK, MoveTo, Stages

\* A step of one post is a step of the contract, or none
LEMMA PostKeepsContract ==
  ASSUME ContractInv, NEW p \in Posts, StartPost(p) \/ PostStep(p)
  PROVE  NoEndYet' /\ [Contract!ContractNext]_(Contract!contractVars)
<1> DEFINE Goes   == \E place \in Place \ {"idle", "done"} : MoveTo(p, place)
           Ends   == \E how \in DOMAIN StageOf \ {"retryError", "crashed", "circuitOpen"} : End(p, how)
           Parked == /\ \E how \in {"authError", "badToken"} : ended' = [ended EXCEPT ![p] = how]
                     /\ at' = [at EXCEPT ![p] = "drop"]
<1>1. CASE StartPost(p)
  <2>1. at[p] = "idle" /\ UNCHANGED tries
    BY <1>1 DEF StartPost
  <2>2. MoveTo(p, "lookup") \/ End(p, "circuitOpen")
    BY <1>1 DEF StartPost
  <2>3. Stages' = [Stages EXCEPT ![p] = "trying"] \/ Stages' = [Stages EXCEPT ![p] = "refused"]
    BY <2>2, StageOfMove, StageOfEnd DEF StageOf, Place, Waiting
  <2>4. Stages[p] = "idle"
    BY <2>1 DEF Stages
  <2>5. Contract!Begin(p)
    BY <2>1, <2>3, <2>4 DEF Contract!Begin
  <2>6. NoEndYet'
    <3>1. CASE MoveTo(p, "lookup")
      BY <2>1, <3>1 DEF ContractInv, NoEndYet, TypeInv, TypeOK, TokenTypeOK, MoveTo
    <3>2. CASE End(p, "circuitOpen")
      BY <3>2 DEF ContractInv, NoEndYet, TypeInv, TypeOK, TokenTypeOK, End
    <3> QED
      BY <2>2, <3>1, <3>2
  <2> QED
    BY <2>5, <2>6 DEF Contract!ContractNext
<1>2. CASE FailTransiently(p)
  <2>1. /\ at[p] = "send" /\ tries' = [tries EXCEPT ![p] = @ + 1]
        /\ IF tries[p] + 1 < Attempts THEN MoveTo(p, "lookup") ELSE End(p, "retryError")
    BY <1>2 DEF FailTransiently
  <2>2. Stages[p] = "trying"
    BY <2>1 DEF Stages
  <2>3. tries'[p] = tries[p] + 1
    BY <2>1 DEF ContractInv, TypeInv, TypeOK
  <2>4. Stages' = [Stages EXCEPT ![p] = IF tries'[p] < Attempts THEN "trying" ELSE "exhausted"]
    BY <2>1, <2>3, StageOfMove, StageOfEnd DEF StageOf, Place, Waiting
  <2>5. Contract!Doubt(p)
    BY <2>1, <2>2, <2>4 DEF Contract!Doubt
  <2>6. NoEndYet'
    BY <2>1 DEF ContractInv, NoEndYet, TypeInv, TypeOK, TokenTypeOK, MoveTo, End
  <2> QED
    BY <2>5, <2>6 DEF Contract!ContractNext
<1>3. CASE \/ TokenStep(p) /\ UNCHANGED clientVars
           \/ Succeed(p) \/ Unauthorized(p) \/ Refused(p) \/ ReplyUnreadable(p)
  <2>1. at[p] \notin {"idle", "done"} /\ UNCHANGED tries
    BY <1>3 DEF TokenStep, GetToken, AcquireTokenLock, Poll, FetchNewToken, StoreToken, DropToken,
                Succeed, Unauthorized, Refused, ReplyUnreadable, clientVars
  <2>2. Goes \/ Ends \/ Parked \/ UNCHANGED <<at, ended>>
    <3>1. CASE DropToken(p)
      <4>1. MoveTo(p, "send") \/ End(p, "authError") \/ End(p, "badToken") \/ End(p, "redisError")
        BY <2>1, <3>1 DEF DropToken, ContractInv, NoEndYet
      <4> QED
        BY <4>1 DEF StageOf, Place, Waiting
    <3>2. CASE FetchNewToken(p)
      <4>1. MoveTo(p, "store") \/ Parked \/ End(p, "authError") \/ End(p, "badToken")
        BY <3>2 DEF FetchNewToken, End
      <4> QED
        BY <4>1 DEF StageOf, Place, Waiting
    <3>3. CASE GetToken(p)
      <4>1. \/ MoveTo(p, "send") \/ MoveTo(p, "lock") \/ MoveTo(p, "fetch")
            \/ End(p, "attributeError")
        BY <3>3 DEF GetToken
      <4> QED
        BY <4>1 DEF StageOf, Place, Waiting
    <3>4. CASE AcquireTokenLock(p) \/ Poll(p) \/ StoreToken(p)
      <4>1. \/ MoveTo(p, "fetch") \/ MoveTo(p, "poll") \/ MoveTo(p, "send") \/ MoveTo(p, "drop")
            \/ End(p, "redisError") \/ UNCHANGED <<at, ended>>
        BY <3>4 DEF AcquireTokenLock, Poll, StoreToken
      <4> QED
        BY <4>1 DEF StageOf, Place, Waiting
    <3>5. CASE Succeed(p) \/ Unauthorized(p) \/ Refused(p) \/ ReplyUnreadable(p)
      <4>1. \/ End(p, "response") \/ End(p, "badReply")
            \/ End(p, "unauthorized") \/ End(p, "refused")
        BY <3>5 DEF Succeed, Unauthorized, Refused, ReplyUnreadable
      <4> QED
        BY <4>1 DEF StageOf
    <3> QED
      BY <1>3, <3>1, <3>2, <3>3, <3>4, <3>5 DEF TokenStep
  <2>3. Stages[p] = "trying"
    BY <2>1 DEF Stages
  <2>4. Stages \in [Posts -> {"idle", "trying"} \cup {StageOf[how] : how \in Ending}]
    BY DEF Stages, ContractInv, TypeInv, TypeOK, TokenTypeOK
  <2>5. ASSUME Goes PROVE UNCHANGED Stages
    BY <2>3, <2>4, <2>5, StageOfMove
  <2>6. ASSUME Ends PROVE Contract!Settle(p)
    <3>1. PICK how \in DOMAIN StageOf \ {"retryError", "crashed", "circuitOpen"} : End(p, how)
      BY <2>6
    <3>2. StageOf[how] \in {"replied", "unread", "refused", "unavailable"}
      BY DEF StageOf
    <3>3. Stages' = [Stages EXCEPT ![p] = StageOf[how]]
      BY <3>1, StageOfEnd
    <3> QED
      BY <2>1, <2>3, <3>2, <3>3 DEF Contract!Settle
  <2>7. ASSUME Parked PROVE UNCHANGED Stages
    BY <2>1, <2>7 DEF Stages, ContractInv, TypeInv, TypeOK, TokenTypeOK
  <2>8. ASSUME UNCHANGED <<at, ended>> PROVE UNCHANGED Stages
    BY <2>8 DEF Stages
  <2>9. NoEndYet'
    BY <2>1, <2>2 DEF ContractInv, NoEndYet, TypeInv, TypeOK, TokenTypeOK, MoveTo, End
  <2> QED
    BY <2>1, <2>2, <2>5, <2>6, <2>7, <2>8, <2>9 DEF Contract!ContractNext, Contract!contractVars
<1> QED
  BY <1>1, <1>2, <1>3 DEF PostStep

\* A post is what its caller takes it for: refused once and for all, left unread
\* by its last attempt, or exhausted after exactly the configured number of
\* attempts in doubt.
THEOREM PostsObeyContract == Spec => ImplementsPush
<1>1. ASSUME Init PROVE NoEndYet /\ Contract!ContractInit
  BY <1>1 DEF Init, TokenInit, NoEndYet, Contract!ContractInit, Stages
<1>2. ASSUME ContractInv, [Next]_vars
      PROVE  NoEndYet' /\ [Contract!ContractNext]_(Contract!contractVars)
  <2>1. ASSUME NEW q \in Processes, CrashProcess(q)
        PROVE  NoEndYet' /\ Contract!ContractNext
    <3> DEFINE dying == {p \in PostsOf(q) : at[p] \notin {"idle", "done"}}
    <3>1. /\ at'    = [p \in Posts |-> IF p \in dying THEN "done" ELSE at[p]]
          /\ ended' = [p \in Posts |-> IF p \in dying THEN "crashed" ELSE ended[p]]
          /\ UNCHANGED tries
      BY <2>1 DEF CrashProcess
    <3>2. dying \subseteq {p \in Posts : Stages[p] = "trying"}
      BY DEF PostsOf, Stages
    <3>3. Stages' = [p \in Posts |-> IF p \in dying THEN "dead" ELSE Stages[p]]
      BY <3>1 DEF Stages, StageOf
    <3>4. Contract!Die
      <4> HIDE DEF dying
      <4> QED
        BY <3>1, <3>2, <3>3 DEF Contract!Die
    <3>5. NoEndYet'
      BY <1>2, <3>1 DEF ContractInv, NoEndYet
    <3> QED
      BY <3>4, <3>5 DEF Contract!ContractNext
  <2>2. ASSUME UNCHANGED <<at, ended, tries>>
        PROVE  NoEndYet' /\ UNCHANGED Contract!contractVars
    BY <1>2, <2>2 DEF ContractInv, NoEndYet, Contract!contractVars, Stages
  <2>3. CASE (TokenLockExpires \/ TokenExpires) /\ UNCHANGED clientVars
    BY <2>2, <2>3 DEF TokenLockExpires, TokenExpires, clientVars
  <2>4. CASE UNCHANGED vars
    BY <2>2, <2>4 DEF vars, tokenVars, clientVars
  <2> QED
    BY <1>2, <2>1, <2>3, <2>4, PostKeepsContract DEF Next
<1>3. TypeInv /\ NoEndYet /\ [Next]_vars => NoEndYet' /\ [Contract!ContractNext]_(Contract!contractVars)
  BY <1>2 DEF ContractInv
<1> QED
  BY <1>1, <1>3, TypesKept, PTL DEF Spec, ImplementsPush, Contract!ContractSpec
=============================================================================
