-------------------------- MODULE PaymentTypeProofs --------------------------
(***************************************************************************)
(* Type correctness of PaymentSystem, one lemma per kind of step.          *)
(***************************************************************************)
EXTENDS PaymentInvariant, TLAPS

\* Each statement of the repository writes rows of the right type
LEMMA StoreWrites ==
  ASSUME StoreTypeOK, NEW p \in Requests
  PROVE  /\ Create(p) => StoreTypeOK'
         /\ \A c \in Checkouts \cup {Null} : UpdateDarajaIds(p, c) => StoreTypeOK'
         /\ \A x \in Checkouts \cup {Null} : MarkCompleted(p, x) => StoreTypeOK'
         /\ \A code \in RowCode : MarkFailed(p, code) => StoreTypeOK'
  BY DEF StoreTypeOK, Row, NoRow, RowCode, Status, Create, UpdateDarajaIds, MarkCompleted, MarkFailed

\* The initial state has the right types
LEMMA TypeInit == Init => TypeOK
<1> SUFFICES ASSUME Init PROVE TypeOK
  OBVIOUS
<1>1. StoreTypeOK
  BY DEF Init, StoreInit, StoreTypeOK, Row, NoRow, RowCode, Status
<1>2. GatewayTypeOK
  BY DEF Init, GatewayInit, GatewayTypeOK, Prompt
<1>3. InitiationTypeOK
  BY InitiationAssumption, StoreAssumption
  DEF Init, InitiationInit, InitiationTypeOK, Place, Answer, NoAnswer, AnswerKind,
      CacheEntry, NoEntry
<1>4. CallbackTypeOK
  BY CallbackAssumption DEF Init, CallbackInit, CallbackTypeOK, Callback, NoCallback
<1>5. JobTypeOK
  BY DEF Init, JobInit, JobTypeOK
<1> QED
  BY <1>1, <1>2, <1>3, <1>4, <1>5 DEF TypeOK

\* What a call may answer with when it fails is an answer
LEMMA Answers ==
  /\ Failure("error") \in Answer
  /\ Failure("conflict") \in Answer
  /\ NoAnswer \in Answer
  BY DEF Failure, NoAnswer, Answer, AnswerKind

\* A call moves, keeps or fills its hand, and gives an answer or does not
LEMMA CallMoves ==
  ASSUME InitiationTypeOK, NEW r \in Requests, NEW place \in Place, GoTo(r, place),
         resp' = resp \/ \E a \in Answer : Reply(r, a),
         hand' = hand \/ \E c \in Checkouts : hand' = [hand EXCEPT ![r] = c],
         tries' = tries \/ (tries' = [tries EXCEPT ![r] = @ + 1] /\ pc[r] = "push"),
         place \in Before => pc[r] \in Before /\ tries' = tries,
         place = "push" => tries'[r] < Attempts,
         idemCache' \in [Keys -> CacheEntry],
         locked' \in SUBSET Keys
  PROVE  InitiationTypeOK'
<1>1. pc' \in [Requests -> Place]
  BY DEF InitiationTypeOK, GoTo
<1>2. tries' \in [Requests -> 0 .. Attempts]
  BY InitiationAssumption DEF InitiationTypeOK
<1>3. hand' \in [Requests -> Checkouts \cup {Null}]
  BY DEF InitiationTypeOK
<1>4. resp' \in [Requests -> Answer]
  BY DEF InitiationTypeOK, Reply
<1>5. \A q \in Requests : pc'[q] \in Before => tries'[q] = 0
  BY DEF InitiationTypeOK, GoTo, Before
<1>6. \A q \in Requests : pc'[q] = "push" => tries'[q] < Attempts
  BY DEF InitiationTypeOK, GoTo
<1> QED
  BY <1>1, <1>2, <1>3, <1>4, <1>5, <1>6 DEF InitiationTypeOK

\* A step of one call keeps the types of all it can write
LEMMA TypeCall ==
  ASSUME TypeOK, NEW r \in Requests, CacheLookup(r) \/ CallStep(r) \/ CrashCall(r)
  PROVE  StoreTypeOK' /\ GatewayTypeOK' /\ InitiationTypeOK'
<1> USE DEF TypeOK, Place, Before
<1>0. /\ pc[r] \in Place /\ tries[r] \in 0 .. Attempts /\ hand[r] \in Checkouts \cup {Null}
      /\ KeyOf[r] \in Keys
      /\ idemCache \in [Keys -> CacheEntry] /\ locked \in SUBSET Keys
      /\ pc[r] \in Before => tries[r] = 0
      /\ pc[r] = "push" => tries[r] < Attempts
  BY StoreAssumption DEF InitiationTypeOK
<1>a. /\ tries[r] = 0 => tries[r] < Attempts
      /\ Attempts \in Nat
  BY InitiationAssumption
<1>1. CASE CacheLookup(r)
  <2> DEFINE a == [kind |-> "cached", payment |-> idemCache[KeyOf[r]].payment,
                   checkout |-> idemCache[KeyOf[r]].checkout]
  <2>1. a \in Answer
    BY <1>0 DEF Answer, AnswerKind, CacheEntry
  <2>2. /\ resp' = resp \/ Reply(r, a)
        /\ pc[r] = "idle" /\ (GoTo(r, "done") \/ GoTo(r, "lock"))
        /\ UNCHANGED <<payments, owner, prompt, tries, hand, idemCache, locked>>
    BY <1>1 DEF CacheLookup, At
  <2>3. InitiationTypeOK'
    <3> HIDE DEF a
    <3> QED BY <2>1, <2>2, <1>0, CallMoves
  <2> QED
    BY <2>2, <2>3 DEF StoreTypeOK, GatewayTypeOK
<1>2. CASE AcquireLock(r)
  BY <1>2, <1>0, CallMoves, Answers DEF AcquireLock, At, StoreTypeOK, GatewayTypeOK
<1>3. CASE DbCheck(r)
  <2>1. \A p \in GetByIdempotencyKey(KeyOf[r]) :
           [kind |-> "settled", payment |-> p, checkout |-> payments[p].checkout] \in Answer
    BY DEF Answer, AnswerKind, GetByIdempotencyKey, StoreTypeOK, Row
  <2>2. resp' = resp \/ \E a \in Answer : Reply(r, a)
    BY <1>3, <2>1, Answers DEF DbCheck, Raise
  <2>3. /\ pc[r] = "check" /\ (GoTo(r, "release") \/ GoTo(r, "create"))
        /\ UNCHANGED <<payments, owner, prompt, tries, hand, idemCache, locked>>
    BY <1>3 DEF DbCheck, At, Raise
  <2>4. InitiationTypeOK'
    BY <2>2, <2>3, <1>0, CallMoves
  <2> QED
    BY <2>3, <2>4 DEF StoreTypeOK, GatewayTypeOK
<1>4. CASE CreateRow(r)
  <2>1. StoreTypeOK'
    BY <1>4, StoreWrites DEF CreateRow, StoreTypeOK
  <2>2. InitiationTypeOK'
    BY <1>4, <1>0, <1>a, CallMoves, Answers DEF CreateRow, Raise, At
  <2> QED
    BY <1>4, <2>1, <2>2 DEF CreateRow, GatewayTypeOK
<1>5. CASE PushAccepted(r)
  <2>1. InitiationTypeOK'
    BY <1>5, <1>0, CallMoves, Answers DEF PushAccepted, At
  <2> QED
    BY <1>5, <2>1 DEF PushAccepted, Accept, Prompt, StoreTypeOK, GatewayTypeOK
<1>6. CASE PushTimedOut(r)
  <2>1. GatewayTypeOK'
    BY <1>6 DEF PushTimedOut, Accept, Prompt, GatewayTypeOK, gatewayVars
  <2>2. /\ pc[r] = "push" /\ tries' = [tries EXCEPT ![r] = @ + 1]
        /\ UNCHANGED <<payments, hand, idemCache, locked>>
        /\ \/ tries[r] + 1 < Attempts /\ UNCHANGED <<pc, resp>>
           \/ Raise(r)
    BY <1>6 DEF PushTimedOut, At
  <2>3. tries'[r] = tries[r] + 1
    BY <2>2 DEF InitiationTypeOK
  <2>4. InitiationTypeOK'
    <3>1. CASE Raise(r)
      BY <3>1, <2>2, <1>0, CallMoves, Answers DEF Raise
    <3>2. CASE tries[r] + 1 < Attempts /\ UNCHANGED <<pc, resp>>
      <4>1. GoTo(r, "push")
        BY <3>2, <2>2 DEF InitiationTypeOK, GoTo
      <4> QED
        BY <3>2, <4>1, <2>2, <2>3, <1>0, CallMoves
    <3> QED
      BY <2>2, <3>1, <3>2
  <2> QED
    BY <2>1, <2>2, <2>4 DEF StoreTypeOK
<1>13. CASE PushUnreadable(r)
  <2>1. GatewayTypeOK'
    BY <1>13 DEF PushUnreadable, Accept, Prompt, GatewayTypeOK, gatewayVars
  <2>2. InitiationTypeOK'
    BY <1>13, <1>0, CallMoves, Answers DEF PushUnreadable, Raise, At
  <2> QED
    BY <1>13, <2>1, <2>2 DEF PushUnreadable, StoreTypeOK
<1>7. CASE PushRefused(r) \/ TokenUnavailable(r)
  BY <1>7, <1>0, CallMoves, Answers
  DEF PushRefused, TokenUnavailable, Raise, At, StoreTypeOK, GatewayTypeOK
<1>8. CASE MarkRejected(r)
  <2>1. StoreTypeOK'
    BY <1>8, StoreWrites DEF MarkRejected, StoreTypeOK, RowCode
  <2>2. InitiationTypeOK'
    BY <1>8, <1>0, CallMoves, Answers DEF MarkRejected, Raise, At
  <2> QED
    BY <1>8, <2>1, <2>2 DEF MarkRejected, GatewayTypeOK
<1>9. CASE PersistIds(r)
  <2>1. StoreTypeOK'
    BY <1>9, <1>0, StoreWrites DEF PersistIds, StoreTypeOK
  <2>2. InitiationTypeOK'
    BY <1>9, <1>0, CallMoves, Answers DEF PersistIds, Raise, At
  <2> QED
    BY <1>9, <2>1, <2>2 DEF PersistIds, GatewayTypeOK
<1>10. CASE CacheResult(r)
  <2>1. /\ [kind |-> "accepted", payment |-> r, checkout |-> hand[r]] \in Answer
        /\ [payment |-> r, checkout |-> hand[r]] \in CacheEntry
    BY <1>0 DEF Answer, AnswerKind, CacheEntry
  <2>2. idemCache' \in [Keys -> CacheEntry]
    BY <1>10, <2>1, <1>0 DEF CacheResult
  <2> QED
    BY <1>10, <2>1, <2>2, <1>0, CallMoves DEF CacheResult, At, StoreTypeOK, GatewayTypeOK
<1>11. CASE ReleaseLock(r)
  BY <1>11, <1>0, CallMoves DEF ReleaseLock, At, StoreTypeOK, GatewayTypeOK
<1>12. CASE CrashCall(r)
  BY <1>12, <1>0, CallMoves, Answers DEF CrashCall, StoreTypeOK, GatewayTypeOK
<1> QED
  BY <1>1, <1>2, <1>3, <1>4, <1>5, <1>6, <1>7, <1>8, <1>9, <1>10, <1>11, <1>12, <1>13
  DEF CallStep, Push

\* So does the expiry of a lock or of a cached response
LEMMA TypeExpiry ==
  ASSUME TypeOK, NEW k \in Keys, LockExpires(k) \/ CacheExpires(k)
  PROVE  StoreTypeOK' /\ GatewayTypeOK' /\ InitiationTypeOK'
<1>1. /\ UNCHANGED <<payments, owner, prompt, pc, tries, hand, resp>>
      /\ locked' = locked \/ locked' = locked \ {k}
      /\ idemCache' = idemCache \/ idemCache' = [idemCache EXCEPT ![k] = NoEntry]
  BY DEF LockExpires, CacheExpires
<1>2. NoEntry \in CacheEntry
  BY DEF NoEntry, CacheEntry
<1> QED
  BY <1>1, <1>2 DEF TypeOK, StoreTypeOK, GatewayTypeOK, InitiationTypeOK

\* So does a step of a delivery, whose retries stay within their bound
LEMMA TypeCallback ==
  ASSUME TypeOK, CallbackNext
  PROVE  StoreTypeOK' /\ CallbackTypeOK'
<1> USE CallbackAssumption DEF TypeOK, CallbackTypeOK, CbGoTo, CbBusy, CbEnded
<1>1. ASSUME NEW d \in Deliveries, Receive(d)
      PROVE  StoreTypeOK' /\ CallbackTypeOK'
  <2>1. PICK c \in Checkouts, receipt \in Checkouts \cup {Null} :
          /\ prompt[c] \in Outcome
          /\ cb' = [cb EXCEPT ![d] = [checkout |-> c, outcome |-> prompt[c],
                                      receipt |-> receipt]]
    BY <1>1 DEF Receive
  <2>2. [checkout |-> c, outcome |-> prompt[c], receipt |-> receipt] \in Callback
    BY <2>1 DEF Callback
  <2>3. cb' \in [Deliveries -> Callback]
    BY <2>1, <2>2
  <2>4. CbGoTo(d, "dedupe") /\ UNCHANGED <<payments, cbRow, cbTries, cbSeen>>
    BY <1>1 DEF Receive
  <2>5. \A e \in Deliveries : cbPc'[e] # "idle" => cb'[e].checkout \in Checkouts
    BY <2>1, <2>4
  <2> QED
    BY <2>3, <2>4, <2>5 DEF StoreTypeOK
<1>2. ASSUME NEW d \in Deliveries, Dedupe(d)
      PROVE  StoreTypeOK' /\ CallbackTypeOK'
  BY <1>2 DEF Dedupe, StoreTypeOK
<1>3. ASSUME NEW d \in Deliveries, Fetch(d)
      PROVE  StoreTypeOK' /\ CallbackTypeOK'
  BY <1>3 DEF Fetch, Abort, GetByCheckoutRequestId, StoreTypeOK
<1>4. ASSUME NEW d \in Deliveries, Apply(d)
      PROVE  StoreTypeOK' /\ CallbackTypeOK'
  <2>1. cb[d].receipt \in Checkouts \cup {Null}
    BY DEF Callback
  <2>2. cb[d].outcome # "success" => cb[d].outcome \in RowCode
    BY DEF Callback, Outcome, RowCode
  <2>3. StoreTypeOK'
    <3>1. CASE cbRow[d] \in Requests
      BY <1>4, <2>1, <2>2, <3>1, StoreWrites DEF Apply, WriteOutcome, StoreTypeOK
    <3>2. CASE cbRow[d] \notin Requests
      BY <1>4, <3>2 DEF Apply, WriteOutcome, MarkCompleted, MarkFailed, StoreTypeOK
    <3> QED
      BY <3>1, <3>2
  <2>4. /\ cbPc[d] = "apply" /\ UNCHANGED <<cb, cbRow, cbSeen>>
        /\ (CbGoTo(d, "applied") /\ UNCHANGED cbTries) \/ Abort(d)
    BY <1>4 DEF Apply
  <2>5. CallbackTypeOK'
    BY <2>4 DEF Abort
  <2> QED
    BY <2>3, <2>5
<1>5. ASSUME NEW d \in Deliveries, CrashDelivery(d)
      PROVE  StoreTypeOK' /\ CallbackTypeOK'
  BY <1>5 DEF CrashDelivery, StoreTypeOK
<1>6. ASSUME NEW c \in Checkouts, DedupeKeyExpires(c)
      PROVE  StoreTypeOK' /\ CallbackTypeOK'
  BY <1>6 DEF DedupeKeyExpires, StoreTypeOK
<1> QED
  BY <1>1, <1>2, <1>3, <1>4, <1>5, <1>6 DEF CallbackNext, ProcessCallback

\* So does a step of a reconciliation run
LEMMA TypeJob ==
  ASSUME TypeOK, JobNext
  PROVE  StoreTypeOK' /\ JobTypeOK'
<1> USE DEF TypeOK, JobTypeOK
<1>1. ASSUME NEW p \in Requests, GrowOld(p)
      PROVE  StoreTypeOK' /\ JobTypeOK'
  BY <1>1 DEF GrowOld, StoreTypeOK
<1>2. ASSUME NEW j \in Jobs, SelectStale(j)
      PROVE  StoreTypeOK' /\ JobTypeOK'
  <2>1. \A p \in StalePending : [payment |-> p, receipt |-> payments[p].receipt] \in Item
    BY DEF StalePending, Item, StoreTypeOK, Row
  <2> QED
    BY <1>2, <2>1 DEF SelectStale, StoreTypeOK
<1>3. ASSUME NEW j \in Jobs, ExpireOne(j)
      PROVE  StoreTypeOK' /\ JobTypeOK'
  <2>1. PICK item \in batch[j] :
          /\ batch' = [batch EXCEPT ![j] = @ \ {item}]
          /\ payments' = payments \/ MarkFailed(item.payment, "expired")
    BY <1>3 DEF ExpireOne
  <2>2. item.payment \in Requests
    BY DEF Item
  <2>3. StoreTypeOK'
    BY <2>1, <2>2, StoreWrites DEF RowCode, StoreTypeOK
  <2> QED
    BY <1>3, <2>1, <2>3 DEF ExpireOne
<1>4. ASSUME NEW j \in Jobs, SkipOne(j) \/ CrashJob(j)
      PROVE  StoreTypeOK' /\ JobTypeOK'
  BY <1>4 DEF SkipOne, CrashJob, StoreTypeOK
<1> QED
  BY <1>1, <1>2, <1>3, <1>4 DEF JobNext

\* Types are kept by every step of the system
LEMMA TypeStep == TypeOK /\ [Next]_vars => TypeOK'
<1> SUFFICES ASSUME TypeOK, [Next]_vars PROVE TypeOK'
  OBVIOUS
<1> USE DEF TypeOK
<1>1. CASE Initiation
  <2>1. StoreTypeOK' /\ GatewayTypeOK' /\ InitiationTypeOK'
    BY <1>1, TypeCall, TypeExpiry DEF Initiation, InitiationNext
  <2> QED
    BY <1>1, <2>1 DEF Initiation, cbVars, jobVars, CallbackTypeOK, JobTypeOK
<1>2. CASE Customer
  <2>1. GatewayTypeOK'
    BY <1>2 DEF Customer, CustomerAnswers, GatewayTypeOK, Prompt
  <2> QED
    BY <1>2, <2>1
    DEF Customer, callVars, cbVars, jobVars, StoreTypeOK, InitiationTypeOK, CallbackTypeOK, JobTypeOK
<1>3. CASE Callbacks
  BY <1>3, TypeCallback
  DEF Callbacks, callVars, jobVars, GatewayTypeOK, InitiationTypeOK, JobTypeOK
<1>4. CASE Reconciliation
  BY <1>4, TypeJob
  DEF Reconciliation, callVars, cbVars, GatewayTypeOK, InitiationTypeOK, CallbackTypeOK
<1>5. CASE UNCHANGED vars
  BY <1>5 DEF vars, StoreTypeOK, GatewayTypeOK, InitiationTypeOK, CallbackTypeOK, JobTypeOK
<1> QED
  BY <1>1, <1>2, <1>3, <1>4, <1>5 DEF Next

\* Every variable keeps its type, and no call makes more attempts than it may.
THEOREM TypeCorrect == Spec => []TypeOK
  BY TypeInit, TypeStep, PTL DEF Spec
=============================================================================
