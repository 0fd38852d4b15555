--------------------------- MODULE PaymentTheorems ---------------------------
(***************************************************************************)
(* What follows from the inductive invariant, for any number of calls,     *)
(* keys, checkouts, deliveries and runs of the job, and any faults.        *)
(***************************************************************************)
EXTENDS PaymentProofs, FiniteSetTheorems

(***************************************************************************)
(* At most one call of a key ever pushes to Daraja: an owned checkout has  *)
(* a committed row behind it, and a key has one row.                       *)
(***************************************************************************)
THEOREM InitiateOnceHolds == Spec => []InitiateOnce
<1>1. IInv => InitiateOnce
  BY StoreAssumption
  DEF IInv, TypeOK, GatewayTypeOK, StoreInv, OneRowPerKey, AnchorBeforePush, InitiateOnce
<1> QED
  BY <1>1, Inductive, PTL

\* No prompt without a committed row, whatever dies after it.
THEOREM AnchorBeforePushHolds == Spec => []AnchorBeforePush
<1>1. IInv => AnchorBeforePush
  BY DEF IInv, StoreInv
<1> QED
  BY <1>1, Inductive, PTL

\* The table keeps two calls of a key apart where the lock does not.
THEOREM PushersHaveRowsHolds == Spec => []PushersHaveRows
<1>1. IInv => PushersHaveRows
  BY DEF IInv, StoreInv, OneRowPerKey, CallInv, CallHasRow, Pushing, At, PushersHaveRows
<1> QED
  BY <1>1, Inductive, PTL

\* Successful answers of one key name one payment and one checkout, whatever
\* becomes of the cache and the lock.
THEOREM ReplayConsistentHolds == Spec => []ReplayConsistent
<1>1. ASSUME IInv PROVE ReplayConsistent
  <2>1. \A r \in Requests : resp[r].payment \in Requests \cup {Null}
    BY <1>1 DEF IInv, TypeOK, InitiationTypeOK, Answer
  <2>2. AnswerIsOwn /\ OneRowPerKey
    BY <1>1 DEF IInv, AnswerInv, StoreInv
  <2> QED
    BY <2>1, <2>2 DEF AnswerIsOwn, OneRowPerKey, ReplayConsistent
<1> QED
  BY <1>1, Inductive, PTL

\* An id that a client was given, or will be given from the cache, is found by
\* the status poll.
THEOREM HandedOutIsFoundHolds == Spec => []HandedOutIsFound
<1>1. ASSUME IInv PROVE HandedOutIsFound
  <2>1. CachedIsOwn /\ AnswerIsOwn
    BY <1>1 DEF IInv, AnswerInv
  <2> QED
    BY <2>1 DEF CachedIsOwn, AnswerIsOwn, HandedOutIsFound, GetPaymentStatus, NotFound, Exists
<1> QED
  BY <1>1, Inductive, PTL

\* A callback matched through its checkout is about the payment of the customer
\* who was prompted.
THEOREM CheckoutMatchesOwnerHolds == Spec => []CheckoutMatchesOwner
<1>1. IInv => CheckoutMatchesOwner
  BY DEF IInv, StoreInv
<1> QED
  BY <1>1, Inductive, PTL

\* A payment is completed only if its customer has paid.
THEOREM CompletedIsPaidHolds == Spec => []CompletedIsPaid
<1>1. IInv => CompletedIsPaid
  BY DEF IInv, StoreInv
<1> QED
  BY <1>1, Inductive, PTL

\* A receipt is of the charge of the row's own checkout, and no pending row has
\* one.
THEOREM ReceiptIsOwnHolds == Spec => []ReceiptIsOwn
<1>1. IInv => ReceiptIsOwn
  BY DEF IInv, StoreInv
<1> QED
  BY <1>1, Inductive, PTL

\* Rows stay, never become pending again, and keep their checkout.
THEOREM RowsOnlyAdvanceHolds == Spec => RowsOnlyAdvance
<1> DEFINE A == \A p \in Requests :
       /\ Exists(p) => Exists(p)'
       /\ Exists(p) /\ payments[p].status # "pending" => payments'[p].status # "pending"
       /\ payments[p].checkout # Null => payments'[p].checkout = payments[p].checkout
<1>1. ASSUME IInv, [Next]_vars PROVE A
  <2>1. StoreStep /\ StoreTypeOK /\ Advances
    BY <1>1, StepIsStoreStep, StoreAdvances DEF IInv, TypeOK
  <2>2. \A p \in Requests :
          Exists(p) /\ payments[p].status # "pending" => payments'[p].status # "pending"
    BY <2>1, StoreEffects
    DEF StoreStep, NewRow, NewFailure, NewIds, NewSuccess, NewPrompt, NewAnswer,
        KeyIsFree, GetByIdempotencyKey, SameElsewhere
  <2> QED
    BY <2>1, <2>2 DEF Advances, Exists
<1> QED
  BY <1>1, Inductive, PTL DEF RowsOnlyAdvance, Spec

(***************************************************************************)
(* The reconciliation job is the only way out of COMPLETED.  A call whose  *)
(* push was refused has a row without a checkout, which is not completed;  *)
(* and a second callback of a paid checkout reports success again.         *)
(***************************************************************************)
THEOREM CompletedLeavesOnlyByExpiryHolds == Spec => CompletedLeavesOnlyByExpiry
<1> DEFINE Leaves(p) == payments[p].status = "completed" /\ payments'[p].status # "completed"
           Expires(p) == /\ payments'[p].status = "failed" /\ payments'[p].code = "expired"
                         /\ \E j \in Jobs : [payment |-> p, receipt |-> Null] \in batch[j]
<1>1. ASSUME IInv, [Next]_vars, NEW p \in Requests, Leaves(p) PROVE Expires(p)
  <2>1. /\ TypeOK /\ StoreTypeOK /\ CompletedIsPaid /\ Exists(p)
        /\ payments[p].checkout # Null /\ prompt[payments[p].checkout] = "success"
    BY <1>1 DEF IInv, TypeOK, StoreInv, CompletedIsPaid, Exists
  <2>2. ASSUME NEW r \in Requests, CacheLookup(r) \/ CallStep(r) \/ CrashCall(r) PROVE FALSE
    <3>1. p = r /\ payments' # payments
      BY <1>1, <2>1, <2>2, CallIsStoreStep
    <3>2. CASE CreateRow(r)
      BY <2>1, <3>1, <3>2 DEF CreateRow, KeyIsFree, GetByIdempotencyKey
    <3>3. CASE MarkRejected(r)
      BY <1>1, <2>1, <3>1, <3>3 DEF MarkRejected, At, IInv, CallInv, CallHasRow, Pushing
    <3>4. CASE PersistIds(r)
      BY <1>1, <2>1, <3>1, <3>4, StoreEffects DEF PersistIds
    <3> QED
      BY <2>2, <3>1, <3>2, <3>3, <3>4
      DEF CallStep, Push, CacheLookup, AcquireLock, DbCheck, PushAccepted, PushTimedOut,
          PushUnreadable, PushRefused, TokenUnavailable, CacheResult, ReleaseLock, CrashCall
  <2>3. ASSUME NEW d \in Deliveries, Apply(d) PROVE FALSE
    <3>1. WriteOutcome(d) /\ cbPc[d] = "apply"
      BY <1>1, <2>3 DEF Apply
    <3>2. /\ cbRow[d] \in Requests
          /\ payments[cbRow[d]].checkout = cb[d].checkout
          /\ prompt[cb[d].checkout] = cb[d].outcome
      BY <1>1, <3>1 DEF IInv, CarriedInv, CallbackIsTrue, FetchedRowMatches
    <3>3. CASE cb[d].outcome = "success"
      BY <1>1, <2>1, <3>1, <3>2, <3>3, StoreEffects DEF WriteOutcome, SameElsewhere
    <3>4. CASE cb[d].outcome # "success"
      <4>1. p # cbRow[d]
        BY <2>1, <3>2, <3>4
      <4> QED
        BY <1>1, <2>1, <3>1, <3>2, <3>4, <4>1, StoreEffects DEF WriteOutcome, SameElsewhere
    <3> QED
      BY <3>3, <3>4
  <2>4. ASSUME NEW j \in Jobs, NEW item \in batch[j], MarkFailed(item.payment, "expired")
        PROVE  Expires(p)
    <3>1. item \in Item /\ item.payment \in Requests /\ item.receipt = Null
      BY <1>1, <2>1 DEF TypeOK, JobTypeOK, Item, IInv, CarriedInv, BatchIsOnFile
    <3>2. p = item.payment
      BY <1>1, <2>1, <2>4, <3>1, StoreEffects DEF SameElsewhere
    <3>3. item = [payment |-> p, receipt |-> Null]
      BY <3>1, <3>2 DEF Item
    <3>4. payments'[p].status = "failed" /\ payments'[p].code = "expired"
      BY <2>1, <2>4, <3>2 DEF MarkFailed, StoreTypeOK, Row
    <3> QED
      BY <3>3, <3>4
  <2>5. \/ \E r \in Requests : CacheLookup(r) \/ CallStep(r) \/ CrashCall(r)
        \/ \E d \in Deliveries : Apply(d)
        \/ \E j \in Jobs : \E item \in batch[j] : MarkFailed(item.payment, "expired")
        \/ UNCHANGED payments
    BY <1>1
    DEF Next, Initiation, InitiationNext, LockExpires, CacheExpires, Customer, Callbacks,
        CallbackNext, ProcessCallback, Receive, Dedupe, Fetch, CrashDelivery,
        DedupeKeyExpires, Reconciliation, JobNext, GrowOld, SelectStale, ExpireOne,
        SkipOne, CrashJob, vars
  <2> QED
    BY <1>1, <2>2, <2>3, <2>4, <2>5
<1>2. IInv /\ [Next]_vars => \A p \in Requests : Leaves(p) => Expires(p)
  BY <1>1
<1> QED
  BY <1>2, Inductive, PTL DEF CompletedLeavesOnlyByExpiry, Spec

(***************************************************************************)
(* The table and the prompts implement the ledger.                         *)
(***************************************************************************)

\* An empty table is an empty ledger
LEMMA LedgerInitHolds == Init => Ledger!LedgerInit
  BY StoreAssumption
  DEF Init, StoreInit, GatewayInit, NoRow, Ledger!LedgerInit, Entries, Charged

\* One statement or one prompt is at most one step of the ledger
LEMMA StoreStepIsLedgerStep ==
  ASSUME StoreTypeOK, GatewayTypeOK, StoreInv, StoreStep
  PROVE  Ledger!LedgerNext \/ UNCHANGED <<Entries, Charged>>
<1> USE DEF Ledger!LedgerNext, Entries, SameElsewhere, Exists
<1>1. ASSUME NEW p \in Requests, NewRow(p) PROVE Ledger!Open(p)
  <2>1. \A q \in Requests : KeyOf[q] = KeyOf[p] => payments[q].status = "absent"
    BY <1>1 DEF NewRow, KeyIsFree, GetByIdempotencyKey
  <2>2. Charged' = Charged
    BY <1>1 DEF NewRow, Charged
  <2> QED
    BY <1>1, <2>1, <2>2, StoreEffects DEF NewRow, Ledger!Open
<1>2. ASSUME NEW p \in Requests, NewFailure(p) PROVE Ledger!Report(p)
  <2>1. Charged' = Charged
    BY <1>2 DEF NewFailure, Charged
  <2> QED
    BY <1>2, <2>1, StoreEffects DEF NewFailure, Ledger!Report
<1>3. ASSUME NEW p \in Requests, NEW c \in Checkouts, NewIds(p, c)
      PROVE  UNCHANGED <<Entries, Charged>>
  BY <1>3, StoreEffects DEF NewIds, Charged
<1>4. ASSUME NEW p \in Requests, NEW c \in Checkouts, NewSuccess(p, c) PROVE Ledger!Report(p)
  <2>1. Charged' = Charged
    BY <1>4 DEF NewSuccess, Charged
  <2>2. p \in Charged
    BY <1>4, StoreAssumption DEF NewSuccess, Charged, StoreInv, CheckoutMatchesOwner
  <2>3. Exists(p) /\ SameElsewhere(p) /\ payments'[p].status = "completed"
    BY <1>4, StoreEffects DEF NewSuccess
  <2>4. Entries' = [Entries EXCEPT ![p] = "completed"]
    BY <2>3
  <2> QED
    BY <2>1, <2>2, <2>3, <2>4 DEF Ledger!Report
<1>5. ASSUME NEW p \in Requests, NEW c \in Checkouts, NewPrompt(p, c)
      PROVE  UNCHANGED <<Entries, Charged>>
  <2>1. /\ UNCHANGED payments /\ prompt[c] # "success" /\ prompt'[c] # "success"
        /\ \A x \in Checkouts \ {c} : owner'[x] = owner[x] /\ prompt'[x] = prompt[x]
    BY <1>5 DEF NewPrompt, Accept, GatewayTypeOK
  <2>2. \A q \in Requests :
          (\E x \in Checkouts : owner'[x] = q /\ prompt'[x] = "success")
            <=> \E x \in Checkouts : owner[x] = q /\ prompt[x] = "success"
    BY <2>1
  <2> QED
    BY <2>1, <2>2 DEF Charged
<1>6. ASSUME NEW c \in Checkouts, NewAnswer(c)
      PROVE  \E p \in Requests : Ledger!Charge(p) \/ UNCHANGED <<Entries, Charged>>
  <2>1. PICK o \in Outcome : CustomerAnswers(c, o) /\ UNCHANGED payments
    BY <1>6 DEF NewAnswer
  <2>2. owner[c] \in Requests /\ Exists(owner[c])
    BY <2>1 DEF CustomerAnswers, StoreInv, OwnedIffUsed, AnchorBeforePush, GatewayTypeOK
  <2>3. CASE o = "success"
    <3>1. Charged' = Charged \cup {owner[c]}
      BY <2>1, <2>2, <2>3 DEF CustomerAnswers, Charged, GatewayTypeOK
    <3> QED
      BY <2>1, <2>2, <3>1 DEF Ledger!Charge
  <2>4. CASE o # "success"
    <3>1. Charged' = Charged
      BY <2>1, <2>4 DEF CustomerAnswers, Charged, GatewayTypeOK
    <3> QED
      BY <2>1, <2>2, <3>1
  <2> QED
    BY <2>3, <2>4
<1>7. CASE UNCHANGED <<payments, owner, prompt>>
  BY <1>7 DEF Charged
<1> QED
  BY <1>1, <1>2, <1>3, <1>4, <1>5, <1>6, <1>7 DEF StoreStep

\* Whatever fails, the service keeps the promises of PaymentLedger.
THEOREM Refinement == Spec => ImplementsLedger
<1>1. IInv /\ [Next]_vars => [Ledger!LedgerNext]_<<Entries, Charged>>
  BY StepIsStoreStep, StoreStepIsLedgerStep DEF IInv, TypeOK
<1> QED
  BY <1>1, LedgerInitHolds, Inductive, PTL
  DEF Spec, ImplementsLedger, Ledger!LedgerSpec, Ledger!ledgerVars

(***************************************************************************)
(* The lock and the dedup key, while they can be relied on.                *)
(***************************************************************************)

\* What a call does to the lock of its key
LEMMA LockStep ==
  ASSUME TypeOK, LockInv, "redis" \notin Faults, NEW r \in Requests,
         CacheLookup(r) \/ CallStep(r) \/ CrashCall(r)
  PROVE  LockInv'
<1> USE StoreAssumption DEF TypeOK, InitiationTypeOK, LockInv, MutualExclusion, At, GoTo, Raise, Fault
<1>1. CASE AcquireLock(r)
  <2>1. /\ \A q \in Requests \ {r} : pc'[q] = pc[q]
        /\ \/ /\ KeyOf[r] \notin locked /\ locked' = locked \cup {KeyOf[r]}
           \/ pc'[r] = "done" /\ locked' = locked
    BY <1>1 DEF AcquireLock
  <2> QED
    BY <2>1 DEF Critical
<1>2. CASE ReleaseLock(r)
  <2>1. /\ \A q \in Requests \ {r} : pc'[q] = pc[q]
        /\ pc[r] \in Critical /\ pc'[r] = "done" /\ locked' = locked \ {KeyOf[r]}
    BY <1>2 DEF ReleaseLock, Critical
  <2> QED
    BY <2>1 DEF Critical
<1>3. CASE CacheLookup(r) \/ CrashCall(r)
  <2>1. /\ \A q \in Requests \ {r} : pc'[q] = pc[q]
        /\ pc'[r] \in {"lock", "done", "crashed"} /\ locked' = locked
    BY <1>3 DEF CacheLookup, CrashCall
  <2> QED
    BY <2>1 DEF Critical
<1>4. CASE \/ DbCheck(r) \/ CreateRow(r) \/ Push(r) \/ MarkRejected(r) \/ PersistIds(r)
           \/ CacheResult(r)
  <2>1. /\ \A q \in Requests \ {r} : pc'[q] = pc[q]
        /\ pc[r] \in Critical /\ locked' = locked
    BY <1>4
    DEF DbCheck, CreateRow, Push, PushAccepted, PushTimedOut, PushUnreadable, PushRefused,
        TokenUnavailable, MarkRejected, PersistIds, CacheResult, Critical
  <2> QED
    BY <2>1
<1> QED
  BY <1>1, <1>2, <1>3, <1>4 DEF CallStep

\* As long as Redis answers and no TTL ends early, the calls of a key exclude
\* one another between the lock and its deletion, whatever else fails.
THEOREM LockExcludes ==
  ASSUME "redis" \notin Faults, "lockTTL" \notin Faults
  PROVE  Spec => []MutualExclusion
<1>1. Init => LockInv
  BY DEF Init, InitiationInit, LockInv, MutualExclusion, Critical
<1>2. ASSUME TypeOK, LockInv, [Next]_vars PROVE LockInv'
  <2>1. ASSUME NEW k \in Keys, LockExpires(k) \/ CacheExpires(k) PROVE LockInv'
    BY <1>2, <2>1 DEF LockExpires, CacheExpires, Fault, LockInv, MutualExclusion
  <2>2. CASE Initiation
    BY <1>2, <2>1, <2>2, LockStep DEF Initiation, InitiationNext
  <2>3. CASE UNCHANGED <<pc, locked>>
    BY <1>2, <2>3 DEF LockInv, MutualExclusion
  <2> QED
    BY <1>2, <2>2, <2>3 DEF Next, Customer, Callbacks, Reconciliation, callVars, vars
<1>3. LockInv => MutualExclusion
  BY DEF LockInv
<1> QED
  BY <1>1, <1>2, <1>3, TypeCorrect, PTL DEF Spec

\* A step of a delivery keeps the dedup keys and the deliveries that rely on them
\* in agreement
LEMMA DedupStep ==
  ASSUME TypeOK, DedupInv, CallbackNext, "redis" \notin Faults, "cacheTTL" \notin Faults
  PROVE  DedupInv'
<1> USE DEF TypeOK, CallbackTypeOK, DedupInv, CbGoTo, Fault
<1>1. ASSUME NEW d \in Deliveries, Dedupe(d) PROVE DedupInv'
  <2>1. /\ UNCHANGED cb /\ cbSeen \subseteq cbSeen'
        /\ \A e \in Deliveries \ {d} : cbPc'[e] = cbPc[e]
        /\ \/ cbPc'[d] = "duplicate"
           \/ cb[d].checkout \notin cbSeen /\ cb[d].checkout \in cbSeen'
    BY <1>1 DEF Dedupe
  <2> QED
    BY <2>1 DEF Past
<1>2. ASSUME NEW d \in Deliveries, Receive(d) PROVE DedupInv'
  <2>1. /\ UNCHANGED cbSeen /\ cbPc'[d] \notin Past
        /\ \A e \in Deliveries \ {d} : cbPc'[e] = cbPc[e] /\ cb'[e] = cb[e]
    BY <1>2 DEF Receive, Past
  <2> QED
    BY <2>1
<1>3. ASSUME NEW d \in Deliveries, Fetch(d) \/ Apply(d) \/ CrashDelivery(d) PROVE DedupInv'
  <2>1. /\ UNCHANGED <<cb, cbSeen>>
        /\ \A e \in Deliveries \ {d} : cbPc'[e] = cbPc[e]
        /\ cbPc'[d] \in Past => cbPc[d] \in Past
    BY <1>3 DEF Fetch, Apply, Abort, CrashDelivery, Past
  <2> QED
    BY <2>1
<1> QED
  BY <1>1, <1>2, <1>3 DEF CallbackNext, ProcessCallback, DedupeKeyExpires

\* As long as its dedup key can be written and does not expire, a callback is
\* applied at most once, however many deliveries of it there are, whichever of
\* them fail or die, and in whatever order their steps happen.
THEOREM DedupHolds ==
  ASSUME "redis" \notin Faults, "cacheTTL" \notin Faults
  PROVE  Spec => []AppliedAtMostOnce
<1>1. Init => DedupInv
  BY DEF Init, CallbackInit, DedupInv, Past
<1>2. ASSUME TypeOK, DedupInv, [Next]_vars PROVE DedupInv'
  <2>1. CASE Callbacks
    BY <1>2, <2>1, DedupStep DEF Callbacks
  <2>2. CASE UNCHANGED <<cbPc, cb, cbSeen>>
    BY <1>2, <2>2 DEF DedupInv
  <2> QED
    BY <1>2, <2>1, <2>2 DEF Next, Initiation, Customer, Reconciliation, cbVars, vars
<1>3. DedupInv => AppliedAtMostOnce
  BY DEF DedupInv, Past, AppliedAtMostOnce
<1> QED
  BY <1>1, <1>2, <1>3, TypeCorrect, PTL DEF Spec

(***************************************************************************)
(* Duplicates, whatever fails.                                             *)
(***************************************************************************)

\* A dedup key was set by a delivery of its checkout, which is past that step
\* or is a message that will come back to it
SeenHasDelivery ==
  \A c \in cbSeen : \E e \in Deliveries :
    cb[e].checkout = c /\ cbPc[e] # "idle" /\ (e \in Durable \/ cbPc[e] # "dedupe")

DuplicateInv == SeenHasDelivery /\ DuplicateHasOriginal

\* Deliveries never go back to idle, and keep the callback they carry
LEMMA DuplicateStep ==
  ASSUME TypeOK, DuplicateInv, CallbackNext
  PROVE  DuplicateInv'
<1> USE DEF TypeOK, CallbackTypeOK, DuplicateInv, SeenHasDelivery, DuplicateHasOriginal, CbGoTo
<1>1. ASSUME NEW d \in Deliveries, Dedupe(d) PROVE DuplicateInv'
  <2>1. /\ UNCHANGED cb /\ cbPc[d] = "dedupe" /\ cbPc'[d] \in {"fetch", "duplicate"}
        /\ \A e \in Deliveries \ {d} : cbPc'[e] = cbPc[e]
        /\ cbSeen' \subseteq cbSeen \cup {cb[d].checkout}
        /\ cbPc'[d] = "duplicate" => cb[d].checkout \in cbSeen
        /\ cbSeen' # cbSeen => cbPc'[d] = "fetch"
    BY <1>1 DEF Dedupe
  <2>2. SeenHasDelivery'
    <3> SUFFICES ASSUME NEW c \in cbSeen'
                 PROVE  \E e \in Deliveries :
                          /\ cb'[e].checkout = c /\ cbPc'[e] # "idle"
                          /\ e \in Durable \/ cbPc'[e] # "dedupe"
      OBVIOUS
    <3>1. CASE c \in cbSeen
      BY <2>1, <3>1
    <3>2. CASE c \notin cbSeen
      BY <2>1, <3>2
    <3> QED
      BY <3>1, <3>2
  <2>3. DuplicateHasOriginal'
    <3> SUFFICES ASSUME NEW x \in Deliveries \ Durable, cbPc'[x] = "duplicate"
                 PROVE  \E e \in Deliveries \ {x} :
                          cb'[e].checkout = cb'[x].checkout /\ cbPc'[e] # "idle"
      OBVIOUS
    <3>1. CASE x = d
      <4>1. PICK e \in Deliveries :
              /\ cb[e].checkout = cb[d].checkout /\ cbPc[e] # "idle"
              /\ e \in Durable \/ cbPc[e] # "dedupe"
        BY <2>1, <3>1
      <4>2. e # d
        BY <2>1, <3>1, <4>1
      <4> QED
        BY <2>1, <3>1, <4>1, <4>2
    <3>2. CASE x # d
      BY <2>1, <3>2
    <3> QED
      BY <3>1, <3>2
  <2> QED
    BY <2>2, <2>3
<1>2. ASSUME NEW d \in Deliveries, Receive(d) PROVE DuplicateInv'
  <2>1. /\ UNCHANGED cbSeen /\ cbPc[d] = "idle" /\ cbPc'[d] = "dedupe"
        /\ \A e \in Deliveries \ {d} : cbPc'[e] = cbPc[e] /\ cb'[e] = cb[e]
    BY <1>2 DEF Receive
  <2> QED
    BY <2>1
<1>3. ASSUME NEW d \in Deliveries, Fetch(d) \/ Apply(d) \/ CrashDelivery(d) PROVE DuplicateInv'
  <2>1. /\ UNCHANGED <<cb, cbSeen>>
        /\ \A e \in Deliveries \ {d} : cbPc'[e] = cbPc[e]
        /\ cbPc'[d] \notin {"idle", "duplicate"}
        /\ d \in Durable \/ cbPc'[d] # "dedupe"
    BY <1>3 DEF Fetch, Apply, Abort, CrashDelivery
  <2> QED
    BY <2>1
<1>4. ASSUME NEW c \in Checkouts, DedupeKeyExpires(c) PROVE DuplicateInv'
  BY <1>4 DEF DedupeKeyExpires
<1> QED
  BY <1>1, <1>2, <1>3, <1>4 DEF CallbackNext, ProcessCallback

\* A delivery that comes through the route is dropped as a duplicate only if
\* another delivery of the same callback has arrived, for any number of deliveries
\* and whatever fails.  Of durable deliveries, which may find a key that they have
\* set themselves, nothing is said.
THEOREM DuplicateHasOriginalHolds == Spec => []DuplicateHasOriginal
<1>1. Init => DuplicateInv
  BY DEF Init, CallbackInit, DuplicateInv, SeenHasDelivery, DuplicateHasOriginal
<1>2. ASSUME TypeOK, DuplicateInv, [Next]_vars PROVE DuplicateInv'
  <2>1. CASE Callbacks
    BY <1>2, <2>1, DuplicateStep DEF Callbacks
  <2>2. CASE UNCHANGED <<cbPc, cb, cbSeen>>
    BY <1>2, <2>2 DEF DuplicateInv, SeenHasDelivery, DuplicateHasOriginal
  <2> QED
    BY <1>2, <2>1, <2>2 DEF Next, Initiation, Customer, Reconciliation, cbVars, vars
<1>3. DuplicateInv => DuplicateHasOriginal
  BY DEF DuplicateInv
<1> QED
  BY <1>1, <1>2, <1>3, TypeCorrect, PTL DEF Spec

(***************************************************************************)
(* What a failed payment says of its push.                                 *)
(***************************************************************************)

\* A step of a call changes no other call's row, place or attempts, and hands
\* out a checkout to nobody but itself
LEMMA RefusalByCall ==
  ASSUME TypeOK, IInv, RefusalInv, NEW r \in Requests,
         CacheLookup(r) \/ CallStep(r) \/ CrashCall(r)
  PROVE  RefusalInv'
<1> USE DEF TypeOK, InitiationTypeOK, StoreTypeOK, GatewayTypeOK, RefusalInv, Unprompted,
            At, GoTo, Raise, Fault
<1> DEFINE Fine(q) ==
      /\ payments[q].code = "api_error" => pc[q] \in {"release", "done", "crashed"}
      /\ (/\ tries[q] = 0 /\ "badreply" \notin Faults
          /\ payments[q].code = "api_error" \/ pc[q] \in Before \cup {"push", "reject"})
           => Unprompted(q)
<1>1. /\ \A q \in Requests \ {r} :
           payments'[q] = payments[q] /\ pc'[q] = pc[q] /\ tries'[q] = tries[q]
      /\ \A c \in Checkouts : owner'[c] = owner[c] \/ owner'[c] = r
  <2>1. \A q \in Requests \ {r} : payments'[q] = payments[q]
    BY CallIsStoreStep
  <2>2. /\ \A q \in Requests \ {r} : pc'[q] = pc[q] /\ tries'[q] = tries[q]
        /\ \A c \in Checkouts : owner'[c] = owner[c] \/ owner'[c] = r
    BY DEF CallStep, Push, CacheLookup, AcquireLock, DbCheck, CreateRow, PushAccepted,
           PushTimedOut, PushUnreadable, PushRefused, TokenUnavailable, MarkRejected,
           PersistIds, CacheResult, ReleaseLock, CrashCall, Accept, gatewayVars
  <2> QED
    BY <2>1, <2>2
<1>2. Fine(r)'
  <2>1. CASE \/ CacheLookup(r) \/ AcquireLock(r) \/ DbCheck(r) \/ PushRefused(r)
             \/ TokenUnavailable(r) \/ CacheResult(r) \/ ReleaseLock(r) \/ CrashCall(r)
    BY <2>1
    DEF CacheLookup, AcquireLock, DbCheck, PushRefused, TokenUnavailable, CacheResult,
        ReleaseLock, CrashCall, Before
  <2>2. CASE CreateRow(r)
    <3>1. payments'[r].code # "api_error" \/ payments' = payments
      BY <2>2 DEF CreateRow, Create, NoRow
    <3> QED
      BY <2>2, <3>1 DEF CreateRow, Before
  <2>3. CASE PushAccepted(r)
    BY <2>3 DEF PushAccepted, Before
  <2>4. CASE PushTimedOut(r)
    BY <2>4 DEF PushTimedOut, Before
  <2>7. CASE PushUnreadable(r)
    BY <2>7 DEF PushUnreadable, Before
  <2>5. CASE MarkRejected(r)
    BY <2>5 DEF MarkRejected, MarkFailed, Before
  <2>6. CASE PersistIds(r)
    <3>1. payments'[r].code = payments[r].code
      BY <2>6 DEF PersistIds, UpdateDarajaIds, Row
    <3> QED
      BY <2>6, <3>1 DEF PersistIds, Before
  <2> QED
    BY <2>1, <2>2, <2>3, <2>4, <2>5, <2>6, <2>7 DEF CallStep, Push
<1>3. \A q \in Requests \ {r} : Fine(q)'
  BY <1>1
<1> QED
  BY <1>2, <1>3

\* A failure is on file as one "before initiation" only if nobody was prompted,
\* earlier attempts that timed out and replies that do not validate excepted.
THEOREM FailedBeforeInitiationHolds == Spec => []FailedBeforeInitiation
<1>1. ASSUME Init PROVE RefusalInv
  <2>1. \A r \in Requests : payments[r].code = "none"
    BY <1>1 DEF Init, StoreInit, NoRow
  <2>2. \A r \in Requests : Unprompted(r)
    BY <1>1, StoreAssumption DEF Init, GatewayInit, Unprompted
  <2> QED
    BY <2>1, <2>2 DEF RefusalInv
<1>2. ASSUME IInv, RefusalInv, [Next]_vars PROVE RefusalInv'
  <2> USE DEF RefusalInv, Unprompted
  <2>1. ASSUME NEW p \in Requests, NEW code \in RowCode \ {"api_error"},
               MarkFailed(p, code), UNCHANGED <<owner, pc, tries>>
        PROVE  RefusalInv'
    BY <1>2, <2>1 DEF MarkFailed, IInv, TypeOK, StoreTypeOK, Row
  <2>2. CASE Initiation
    <3>1. ASSUME NEW k \in Keys, LockExpires(k) \/ CacheExpires(k) PROVE RefusalInv'
      BY <1>2, <3>1 DEF LockExpires, CacheExpires
    <3> QED
      BY <1>2, <2>2, <3>1, RefusalByCall DEF Initiation, InitiationNext, IInv
  <2>3. CASE Customer
    BY <1>2, <2>3 DEF Customer, CustomerAnswers, callVars
  <2>4. CASE Callbacks
    <3>1. ASSUME NEW d \in Deliveries, Apply(d), WriteOutcome(d) PROVE RefusalInv'
      <4>1. cbRow[d] \in Requests /\ cb[d].outcome \in Outcome
        BY <1>2, <3>1 DEF Apply, IInv, CarriedInv, FetchedRowMatches, CallbackIsTrue
      <4>2. CASE cb[d].outcome = "success"
        BY <1>2, <2>4, <3>1, <4>1, <4>2
        DEF WriteOutcome, MarkCompleted, Callbacks, callVars, IInv, TypeOK, StoreTypeOK, Row
      <4>3. CASE cb[d].outcome # "success"
        <5>1. cb[d].outcome \in RowCode \ {"api_error"}
          BY <4>1, <4>3 DEF Outcome, RowCode
        <5> QED
          BY <2>1, <2>4, <3>1, <4>1, <4>3, <5>1 DEF WriteOutcome, Callbacks, callVars
      <4> QED
        BY <4>2, <4>3
    <3>2. CASE UNCHANGED payments
      BY <1>2, <2>4, <3>2 DEF Callbacks, callVars
    <3>3. UNCHANGED payments \/ \E d \in Deliveries : Apply(d) /\ WriteOutcome(d)
      BY <2>4 DEF Callbacks, CallbackNext, ProcessCallback, Receive, Dedupe, Fetch, Apply,
                  CrashDelivery, DedupeKeyExpires
    <3> QED
      BY <3>1, <3>2, <3>3
  <2>5. CASE Reconciliation
    <3>1. ASSUME NEW j \in Jobs, NEW item \in batch[j], MarkFailed(item.payment, "expired")
          PROVE  RefusalInv'
      <4>1. item.payment \in Requests
        BY <1>2 DEF IInv, TypeOK, JobTypeOK, Item
      <4> QED
        BY <2>1, <2>5, <3>1, <4>1 DEF Reconciliation, callVars, RowCode
    <3>2. CASE UNCHANGED payments
      BY <1>2, <2>5, <3>2 DEF Reconciliation, callVars
    <3>3. \/ UNCHANGED payments
          \/ \E j \in Jobs : \E item \in batch[j] : MarkFailed(item.payment, "expired")
      BY <2>5 DEF Reconciliation, JobNext, GrowOld, SelectStale, ExpireOne, SkipOne, CrashJob
    <3> QED
      BY <3>1, <3>2, <3>3
  <2>6. CASE UNCHANGED vars
    BY <1>2, <2>6 DEF vars
  <2> QED
    BY <1>2, <2>2, <2>3, <2>4, <2>5, <2>6 DEF Next
<1>3. RefusalInv => FailedBeforeInitiation
  BY DEF RefusalInv, Unprompted, FailedBeforeInitiation
<1> QED
  BY <1>1, <1>2, <1>3, Inductive, PTL DEF Spec

(***************************************************************************)
(* How many prompts a key can cost, and when it costs one only.            *)
(***************************************************************************)

\* A call changes no other call's place, attempts or prompts
LEMMA CallsOwnPrompts ==
  ASSUME IInv, NEW r \in Requests, CacheLookup(r) \/ CallStep(r) \/ CrashCall(r)
  PROVE  \A q \in Requests \ {r} :
           pc'[q] = pc[q] /\ tries'[q] = tries[q] /\ PromptsOf(q)' = PromptsOf(q)
<1>1. \A q \in Requests \ {r} : pc'[q] = pc[q] /\ tries'[q] = tries[q]
  BY DEF IInv, TypeOK, InitiationTypeOK, CallStep, Push, CacheLookup, AcquireLock, DbCheck,
         CreateRow, PushAccepted, PushTimedOut, PushUnreadable, PushRefused, TokenUnavailable,
         MarkRejected, PersistIds, CacheResult, ReleaseLock, CrashCall, At, GoTo, Raise
<1>2. UNCHANGED owner \/ \E c \in Checkouts : Accept(r, c)
  BY DEF CallStep, Push, CacheLookup, AcquireLock, DbCheck, CreateRow, PushAccepted,
         PushTimedOut, PushUnreadable, PushRefused, TokenUnavailable, MarkRejected, PersistIds,
         CacheResult, ReleaseLock, CrashCall, Raise, gatewayVars
<1>3. \A q \in Requests \ {r}, c \in Checkouts : owner'[c] = q <=> owner[c] = q
  <2>1. CASE UNCHANGED owner
    BY <2>1
  <2>2. ASSUME NEW c \in Checkouts, Accept(r, c)
        PROVE  \A q \in Requests \ {r}, x \in Checkouts : owner'[x] = q <=> owner[x] = q
    BY <2>2, StoreAssumption DEF Accept, IInv, TypeOK, GatewayTypeOK, StoreInv, OwnedIffUsed
  <2> QED
    BY <1>2, <2>1, <2>2
<1> QED
  BY <1>1, <1>3 DEF PromptsOf

\* Daraja's acceptance of a push adds one prompt to those of its call
LEMMA AcceptAddsOne ==
  ASSUME NEW r \in Requests, NEW c \in Checkouts, IInv, Accept(r, c),
         IsFiniteSet(PromptsOf(r))
  PROVE  /\ IsFiniteSet(PromptsOf(r)')
         /\ Cardinality(PromptsOf(r)') = Cardinality(PromptsOf(r)) + 1
<1>1. c \notin PromptsOf(r)
  BY StoreAssumption DEF PromptsOf, Accept, IInv, StoreInv, OwnedIffUsed
<1>2. PromptsOf(r)' = PromptsOf(r) \cup {c}
  BY <1>1 DEF PromptsOf, Accept, IInv, TypeOK, GatewayTypeOK
<1> QED
  BY <1>1, <1>2, FS_AddElement

LEMMA PromptsByCall ==
  ASSUME IInv, PromptInv, NEW r \in Requests, CacheLookup(r) \/ CallStep(r) \/ CrashCall(r)
  PROVE  PromptInv'
<1> DEFINE Few(q) ==
      /\ IsFiniteSet(PromptsOf(q))
      /\ Cardinality(PromptsOf(q)) <= tries[q] + 1
      /\ Cardinality(PromptsOf(q)) <= Attempts
      /\ pc[q] \in Before \cup {"push"} => Cardinality(PromptsOf(q)) <= tries[q]
<1>1. TypeOK /\ Few(r) /\ tries[r] \in Nat /\ Attempts \in Nat
  BY InitiationAssumption DEF IInv, TypeOK, InitiationTypeOK, PromptInv
<1>2. Cardinality(PromptsOf(r)) \in Nat
  BY <1>1, FS_CardinalityType
<1>3. Few(r)'
  <2>1. CASE PushAccepted(r)
    <3>1. PICK c \in Checkouts : Accept(r, c)
      BY <2>1 DEF PushAccepted
    <3>2. pc[r] = "push" /\ pc'[r] \in {"persist", "reject"} /\ tries' = tries
          /\ tries[r] < Attempts
      BY <1>1, <2>1 DEF PushAccepted, TypeOK, InitiationTypeOK, At, GoTo
    <3>3. /\ IsFiniteSet(PromptsOf(r)')
          /\ Cardinality(PromptsOf(r)') = Cardinality(PromptsOf(r)) + 1
      BY <1>1, <3>1, AcceptAddsOne
    <3> HIDE DEF PromptsOf
    <3> QED
      BY <1>1, <1>2, <3>2, <3>3 DEF Before
  <2>2. CASE PushTimedOut(r)
    <3>1. /\ pc[r] = "push" /\ tries'[r] = tries[r] + 1 /\ tries[r] < Attempts
          /\ UNCHANGED owner \/ \E c \in Checkouts : Accept(r, c)
      BY <1>1, <2>2 DEF PushTimedOut, TypeOK, InitiationTypeOK, At, gatewayVars
    <3>2. /\ IsFiniteSet(PromptsOf(r)')
          /\ \/ Cardinality(PromptsOf(r)') = Cardinality(PromptsOf(r))
             \/ Cardinality(PromptsOf(r)') = Cardinality(PromptsOf(r)) + 1
      <4>1. CASE UNCHANGED owner
        BY <1>1, <4>1 DEF PromptsOf
      <4>2. CASE \E c \in Checkouts : Accept(r, c)
        BY <1>1, <4>2, AcceptAddsOne
      <4> QED
        BY <3>1, <4>1, <4>2
    <3> QED
      BY <1>1, <1>2, <3>1, <3>2
  <2>4. CASE PushUnreadable(r)
    <3>1. /\ pc[r] = "push" /\ pc'[r] = "release" /\ tries' = tries /\ tries[r] < Attempts
          /\ UNCHANGED owner \/ \E c \in Checkouts : Accept(r, c)
      BY <1>1, <2>4 DEF PushUnreadable, TypeOK, InitiationTypeOK, At, GoTo, Raise, gatewayVars
    <3>2. /\ IsFiniteSet(PromptsOf(r)')
          /\ \/ Cardinality(PromptsOf(r)') = Cardinality(PromptsOf(r))
             \/ Cardinality(PromptsOf(r)') = Cardinality(PromptsOf(r)) + 1
      <4>1. CASE UNCHANGED owner
        BY <1>1, <4>1 DEF PromptsOf
      <4>2. CASE \E c \in Checkouts : Accept(r, c)
        BY <1>1, <4>2, AcceptAddsOne
      <4> QED
        BY <3>1, <4>1, <4>2
    <3> HIDE DEF PromptsOf
    <3> QED
      BY <1>1, <1>2, <3>1, <3>2 DEF Before
  <2>3. CASE \/ CacheLookup(r) \/ AcquireLock(r) \/ DbCheck(r) \/ CreateRow(r)
             \/ PushRefused(r) \/ TokenUnavailable(r) \/ MarkRejected(r) \/ PersistIds(r)
             \/ CacheResult(r) \/ ReleaseLock(r) \/ CrashCall(r)
    <3>1. /\ UNCHANGED <<owner, tries>>
          /\ pc'[r] \in Before \cup {"push"} => pc[r] \in Before \cup {"push"}
      BY <1>1, <2>3
      DEF TypeOK, InitiationTypeOK, CacheLookup, AcquireLock, DbCheck, CreateRow, PushRefused,
          TokenUnavailable, MarkRejected, PersistIds, CacheResult, ReleaseLock, CrashCall,
          At, GoTo, Raise, Before
    <3>2. PromptsOf(r)' = PromptsOf(r)
      BY <3>1 DEF PromptsOf
    <3> QED
      BY <1>1, <3>1, <3>2
  <2> QED
    BY <2>1, <2>2, <2>3, <2>4 DEF CallStep, Push
<1>4. \A q \in Requests \ {r} : Few(q)'
  BY <1>1, CallsOwnPrompts DEF PromptInv
<1> HIDE DEF Few
<1>5. \A q \in Requests : Few(q)'
  BY <1>3, <1>4
<1> QED
  BY <1>5 DEF PromptInv, Few

\* Only calls send prompts and count attempts
THEOREM PromptInvHolds == Spec => []PromptInv
<1>1. ASSUME Init PROVE PromptInv
  <2>1. \A r \in Requests : PromptsOf(r) = {} /\ tries[r] = 0
    BY <1>1, StoreAssumption DEF Init, GatewayInit, InitiationInit, PromptsOf
  <2>2. IsFiniteSet({}) /\ Cardinality({}) = 0
    BY FS_EmptySet
  <2>3. ASSUME NEW r \in Requests
        PROVE  /\ IsFiniteSet(PromptsOf(r)) /\ Cardinality(PromptsOf(r)) = 0
               /\ 0 <= tries[r] + 1 /\ 0 <= tries[r] /\ 0 <= Attempts
    <3>1. IsFiniteSet(PromptsOf(r)) /\ Cardinality(PromptsOf(r)) = 0
      BY <2>1, <2>2
    <3>2. 0 <= tries[r] + 1 /\ 0 <= tries[r] /\ 0 <= Attempts
      BY <2>1, InitiationAssumption
    <3> QED
      BY <3>1, <3>2
  <2> QED
    BY <2>3 DEF PromptInv
<1>2. ASSUME IInv, PromptInv, [Next]_vars PROVE PromptInv'
  <2>1. ASSUME NEW k \in Keys, LockExpires(k) \/ CacheExpires(k)
        PROVE  UNCHANGED <<owner, pc, tries>>
    BY <2>1 DEF LockExpires, CacheExpires
  <2>2. CASE UNCHANGED <<owner, pc, tries>>
    BY <1>2, <2>2 DEF PromptInv, PromptsOf
  <2>3. CASE Initiation
    BY <1>2, <2>1, <2>2, <2>3, PromptsByCall DEF Initiation, InitiationNext
  <2>4. CASE Customer \/ Callbacks \/ Reconciliation \/ UNCHANGED vars
    BY <2>2, <2>4 DEF Customer, CustomerAnswers, Callbacks, Reconciliation, callVars, vars
  <2> QED
    BY <1>2, <2>3, <2>4 DEF Next
<1> QED
  BY <1>1, <1>2, Inductive, PTL DEF Spec

\* Whatever fails, a key costs its customer at most one prompt per configured
\* attempt, and at most one that is not an attempt that timed out.
THEOREM EachPromptAnAttemptHolds == Spec => []EachPromptAnAttempt
<1>1. ASSUME IInv, PromptInv PROVE EachPromptAnAttempt
  <2> SUFFICES ASSUME NEW c \in Checkouts, owner[c] # Null
               PROVE  Cardinality(Prompts(KeyOf[owner[c]])) <=
                        IF tries[owner[c]] < Attempts THEN tries[owner[c]] + 1 ELSE Attempts
    BY DEF EachPromptAnAttempt
  <2>1. owner[c] \in Requests
    BY <1>1 DEF IInv, TypeOK, GatewayTypeOK
  <2>2. InitiateOnce
    BY <1>1, StoreAssumption
    DEF IInv, TypeOK, GatewayTypeOK, StoreInv, OneRowPerKey, AnchorBeforePush, InitiateOnce
  <2>3. Prompts(KeyOf[owner[c]]) = PromptsOf(owner[c])
    BY <2>1, <2>2, StoreAssumption DEF Prompts, PromptsOf, InitiateOnce
  <2>4. /\ Cardinality(PromptsOf(owner[c])) <= tries[owner[c]] + 1
        /\ Cardinality(PromptsOf(owner[c])) <= Attempts
    BY <1>1, <2>1 DEF PromptInv
  <2> QED
    BY <2>3, <2>4
<1> QED
  BY <1>1, Inductive, PromptInvHolds, PTL

\* A second charge of a key takes an attempt that timed out and was tried again:
\* where no push times out, or each is attempted once, a key is charged at most
\* once, whatever else fails.
THEOREM OnlyRetriesChargeTwice ==
  ASSUME "timeout" \notin Faults \/ Attempts = 1
  PROVE  Spec => []NoDoubleCharge
<1> DEFINE Untried == "timeout" \notin Faults => \A r \in Requests : tries[r] = 0
<1>1. Init => Untried
  BY DEF Init, InitiationInit
<1>2. ASSUME TypeOK, Untried, [Next]_vars PROVE Untried'
  <2>1. ASSUME "timeout" \notin Faults PROVE UNCHANGED tries
    BY <1>2, <2>1
    DEF Next, Initiation, InitiationNext, CallStep, Push, CacheLookup, AcquireLock, DbCheck,
        CreateRow, PushAccepted, PushTimedOut, PushUnreadable, PushRefused, TokenUnavailable,
        MarkRejected, PersistIds, CacheResult, ReleaseLock, CrashCall, LockExpires, CacheExpires, Customer,
        Callbacks, Reconciliation, callVars, vars, Raise, Fault
  <2> QED
    BY <1>2, <2>1
<1>3. ASSUME IInv, PromptInv, Untried PROVE NoDoubleCharge
  <2> SUFFICES ASSUME NEW c1 \in Checkouts, NEW c2 \in Checkouts, c1 # c2,
                      prompt[c1] = "success", prompt[c2] = "success",
                      KeyOf[owner[c1]] = KeyOf[owner[c2]]
               PROVE  FALSE
    BY DEF NoDoubleCharge
  <2>1. owner[c1] \in Requests /\ owner[c2] \in Requests
    BY <1>3 DEF IInv, TypeOK, GatewayTypeOK, StoreInv, OwnedIffUsed
  <2>2. owner[c2] = owner[c1]
    BY <1>3, <2>1, StoreAssumption DEF IInv, StoreInv, OneRowPerKey, AnchorBeforePush
  <2> DEFINE own == PromptsOf(owner[c1])
  <2>3. IsFiniteSet(own) /\ {c1, c2} \subseteq own
    BY <1>3, <2>1, <2>2 DEF PromptInv, PromptsOf
  <2>4. Cardinality(own) <= 1
    BY <1>3, <2>1 DEF PromptInv
  <2>5. Cardinality({c1, c2}) = 2
    <3>1. IsFiniteSet({c1}) /\ Cardinality({c1}) = 1
      BY FS_Singleton
    <3>2. {c1, c2} = {c1} \cup {c2} /\ c2 \notin {c1}
      OBVIOUS
    <3>3. Cardinality({c1} \cup {c2}) = Cardinality({c1}) + 1
      BY <3>1, <3>2, FS_AddElement
    <3> QED
      BY <3>1, <3>2, <3>3
  <2>6. Cardinality({c1, c2}) <= Cardinality(own) /\ Cardinality(own) \in Nat
    BY <2>3, FS_Subset, FS_CardinalityType
  <2> QED
    BY <2>4, <2>5, <2>6
<1> QED
  BY <1>1, <1>2, <1>3, TypeCorrect, Inductive, PromptInvHolds, PTL DEF Spec

(***************************************************************************)
(* What it takes to lose a callback, or to take back a completed payment.  *)
(***************************************************************************)

Worked == {"fetch", "apply", "applied", "unmatched"}
WorkedOn(c) == \E e \in Deliveries : cb[e].checkout = c /\ cbPc[e] \in Worked

\* Whoever sets a dedup key or finds it set leaves somebody at work on the callback
WorkedOnInv ==
  /\ \A c \in cbSeen : WorkedOn(c)
  /\ \A d \in Deliveries : cbPc[d] = "duplicate" => WorkedOn(cb[d].checkout)

\* Without failing statements and dying processes, a delivery that has set its key
\* goes on to its end
LEMMA WorkedOnStep ==
  ASSUME TypeOK, WorkedOnInv, CallbackNext, "db" \notin Faults, "crash" \notin Faults
  PROVE  WorkedOnInv'
<1> USE DEF TypeOK, CallbackTypeOK, WorkedOnInv, CbGoTo, Fault
<1>1. ASSUME NEW d \in Deliveries, Dedupe(d) PROVE WorkedOnInv'
  <2>1. /\ UNCHANGED cb /\ cbPc[d] = "dedupe"
        /\ \A e \in Deliveries \ {d} : cbPc'[e] = cbPc[e]
        /\ cbSeen' \subseteq cbSeen \cup {cb[d].checkout}
        /\ \/ cbPc'[d] = "fetch"
           \/ cbPc'[d] = "duplicate" /\ UNCHANGED cbSeen /\ cb[d].checkout \in cbSeen
    BY <1>1 DEF Dedupe
  <2>2. \A c : WorkedOn(c) => WorkedOn(c)'
    BY <2>1 DEF WorkedOn, Worked
  <2>3. CASE cbPc'[d] = "fetch"
    <3>1. WorkedOn(cb[d].checkout)'
      BY <2>1, <2>3 DEF WorkedOn, Worked
    <3> QED
      BY <2>1, <2>2, <2>3, <3>1
  <2>4. CASE cbPc'[d] = "duplicate" /\ UNCHANGED cbSeen /\ cb[d].checkout \in cbSeen
    BY <2>1, <2>2, <2>4
  <2> QED
    BY <2>1, <2>3, <2>4
<1>2. ASSUME NEW d \in Deliveries, Receive(d) PROVE WorkedOnInv'
  <2>1. /\ UNCHANGED cbSeen /\ cbPc[d] = "idle" /\ cbPc'[d] = "dedupe"
        /\ \A e \in Deliveries \ {d} : cbPc'[e] = cbPc[e] /\ cb'[e] = cb[e]
    BY <1>2 DEF Receive
  <2>2. \A c : WorkedOn(c) => WorkedOn(c)'
    BY <2>1 DEF WorkedOn, Worked
  <2> QED
    BY <2>1, <2>2
<1>3. ASSUME NEW d \in Deliveries, Fetch(d) \/ Apply(d) PROVE WorkedOnInv'
  <2>1. /\ UNCHANGED <<cb, cbSeen>>
        /\ \A e \in Deliveries \ {d} : cbPc'[e] = cbPc[e]
        /\ cbPc'[d] \in Worked /\ cbPc'[d] # "duplicate"
    BY <1>3 DEF Fetch, Apply, Worked
  <2>2. \A c : WorkedOn(c) => WorkedOn(c)'
    BY <2>1 DEF WorkedOn
  <2> QED
    BY <2>1, <2>2
<1>4. ASSUME NEW c \in Checkouts, DedupeKeyExpires(c) PROVE WorkedOnInv'
  BY <1>4 DEF DedupeKeyExpires, WorkedOn
<1> QED
  BY <1>1, <1>2, <1>3, <1>4 DEF CallbackNext, ProcessCallback, CrashDelivery

\* A callback is lost only to a statement that fails, a process that dies, or a
\* delivery that came before its checkout was on file: without these, a durable
\* delivery that is dropped leaves another that applies the callback, however
\* Redis fails.
THEOREM OnlyFailuresLoseCallbacks ==
  ASSUME "db" \notin Faults, "crash" \notin Faults
  PROVE  Spec => []((\A e \in Deliveries : cbPc[e] # "unmatched") => DurableIsApplied)
<1>1. Init => WorkedOnInv
  BY DEF Init, CallbackInit, WorkedOnInv
<1>2. ASSUME TypeOK, WorkedOnInv, [Next]_vars PROVE WorkedOnInv'
  <2>1. CASE Callbacks
    BY <1>2, <2>1, WorkedOnStep DEF Callbacks
  <2>2. CASE UNCHANGED <<cbPc, cb, cbSeen>>
    BY <1>2, <2>2 DEF WorkedOnInv, WorkedOn
  <2> QED
    BY <1>2, <2>1, <2>2 DEF Next, Initiation, Customer, Reconciliation, cbVars, vars
<1>3. ASSUME WorkedOnInv, \A e \in Deliveries : cbPc[e] # "unmatched" PROVE DurableIsApplied
  BY <1>3, CallbackAssumption DEF WorkedOnInv, WorkedOn, Worked, DurableIsApplied
<1>4. WorkedOnInv => ((\A e \in Deliveries : cbPc[e] # "unmatched") => DurableIsApplied)
  BY <1>3
<1> QED
  BY <1>1, <1>2, <1>4, TypeCorrect, PTL DEF Spec

\* Nothing but the reconciliation job takes back a completed payment: without the
\* job a payment stays completed, however late or often callbacks come.
THEOREM OnlyTheJobTakesBack ==
  ASSUME Jobs = {}
  PROVE  Spec => CompletedIsFinal
<1>1. ASSUME [\A p \in Requests :
                (payments[p].status = "completed" /\ payments'[p].status # "completed")
                  => /\ payments'[p].status = "failed" /\ payments'[p].code = "expired"
                     /\ \E j \in Jobs : [payment |-> p, receipt |-> Null] \in batch[j]]_vars
      PROVE  [\A p \in Requests :
                payments[p].status = "completed" => payments'[p].status = "completed"]_vars
  BY <1>1
<1> QED
  BY <1>1, CompletedLeavesOnlyByExpiryHolds, PTL
  DEF CompletedLeavesOnlyByExpiry, CompletedIsFinal
=============================================================================
