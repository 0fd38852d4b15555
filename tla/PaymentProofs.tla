---------------------------- MODULE PaymentProofs ----------------------------
(***************************************************************************)
(* IInv is an inductive invariant of PaymentSystem.  The proof goes by way *)
(* of StoreStep, the few ways in which the table and the prompts can       *)
(* change: the invariant of the store is kept by every StoreStep, every    *)
(* step of the system is a StoreStep, and what calls and deliveries carry  *)
(* survives the StoreSteps of the others because rows only advance.        *)
(***************************************************************************)
EXTENDS PaymentTypeProofs

SameElsewhere(p) == \A q \in Requests \ {p} : payments'[q] = payments[q]

\* What each statement of the repository does to the row it is about
LEMMA StoreEffects ==
  ASSUME StoreTypeOK, NEW p \in Requests
  PROVE  /\ Create(p) => /\ SameElsewhere(p)
                         /\ payments'[p].status = "pending"
                         /\ payments'[p].checkout = Null
                         /\ payments'[p].receipt = Null
         /\ \A c : UpdateDarajaIds(p, c) =>
              /\ SameElsewhere(p)
              /\ payments'[p].status = payments[p].status
              /\ payments'[p].checkout = c
              /\ payments'[p].receipt = payments[p].receipt
         /\ \A x : MarkCompleted(p, x) =>
              /\ SameElsewhere(p)
              /\ payments'[p].status = "completed"
              /\ payments'[p].checkout = payments[p].checkout
              /\ payments'[p].receipt = x
         /\ \A code : MarkFailed(p, code) =>
              /\ SameElsewhere(p)
              /\ payments'[p].status \in {"failed", "cancelled"}
              /\ payments'[p].checkout = payments[p].checkout
              /\ payments'[p].receipt = payments[p].receipt
<1>1. Create(p) => /\ SameElsewhere(p)
                   /\ payments'[p] = [NoRow EXCEPT !.status = "pending"]
  BY DEF Create, StoreTypeOK, SameElsewhere
<1> QED
  BY <1>1 DEF NoRow, UpdateDarajaIds, MarkCompleted, MarkFailed, StoreTypeOK, Row, SameElsewhere

(***************************************************************************)
(* A step as the table and the prompts see it.  Every step of the system   *)
(* is one of these, and what each needs to be harmless is in its guard.    *)
(***************************************************************************)

NewRow(p) == KeyIsFree(p) /\ Create(p) /\ UNCHANGED <<owner, prompt>>

NewIds(p, c) ==
  /\ Exists(p) /\ payments[p].checkout = Null /\ owner[c] = p
  /\ UpdateDarajaIds(p, c)
  /\ UNCHANGED <<owner, prompt>>

NewFailure(p) ==
  /\ Exists(p)
  /\ \E code \in RowCode : MarkFailed(p, code)
  /\ UNCHANGED <<owner, prompt>>

NewSuccess(p, c) ==
  /\ Exists(p) /\ payments[p].checkout = c /\ prompt[c] = "success"
  /\ MarkCompleted(p, Null) \/ MarkCompleted(p, c)
  /\ UNCHANGED <<owner, prompt>>

NewPrompt(p, c) == Exists(p) /\ Accept(p, c) /\ UNCHANGED payments

NewAnswer(c) == \E o \in Outcome : CustomerAnswers(c, o) /\ UNCHANGED payments

StoreStep ==
  \/ \E p \in Requests : NewRow(p) \/ NewFailure(p)
  \/ \E p \in Requests, c \in Checkouts : NewIds(p, c) \/ NewSuccess(p, c) \/ NewPrompt(p, c)
  \/ \E c \in Checkouts : NewAnswer(c)
  \/ UNCHANGED <<payments, owner, prompt>>

\* What nothing in flight loses by such a step
Advances ==
  /\ \A p \in Requests : Exists(p) => payments'[p].status # "absent"
  /\ \A p \in Requests : payments[p].checkout # Null =>
       payments'[p].checkout = payments[p].checkout
  /\ \A c \in Checkouts : owner[c] # Null => owner'[c] = owner[c]
  /\ \A c \in Checkouts : prompt[c] \in Outcome => prompt'[c] = prompt[c]

\* No write of the system takes back what the table or a prompt has said
LEMMA StoreAdvances ==
  ASSUME StoreTypeOK, GatewayTypeOK, StoreInv, StoreStep
  PROVE  Advances
<1> USE DEF StoreInv, SameElsewhere, Advances, Exists
<1>1. ASSUME NEW p \in Requests, NewRow(p) PROVE Advances
  <2>1. ~Exists(p) /\ payments[p].checkout = Null
    BY <1>1 DEF NewRow, KeyIsFree, GetByIdempotencyKey, AbsentIsEmpty, NoRow
  <2> QED
    BY <1>1, <2>1, StoreEffects DEF NewRow
<1>2. ASSUME NEW p \in Requests, NewFailure(p) PROVE Advances
  BY <1>2, StoreEffects DEF NewFailure
<1>3. ASSUME NEW p \in Requests, NEW c \in Checkouts, NewIds(p, c) PROVE Advances
  BY <1>3, StoreEffects DEF NewIds
<1>4. ASSUME NEW p \in Requests, NEW c \in Checkouts, NewSuccess(p, c) PROVE Advances
  BY <1>4, StoreEffects DEF NewSuccess
<1>5. ASSUME NEW p \in Requests, NEW c \in Checkouts, NewPrompt(p, c) PROVE Advances
  BY <1>5 DEF NewPrompt, Accept, OwnedIffUsed, GatewayTypeOK, Outcome
<1>6. ASSUME NEW c \in Checkouts, NewAnswer(c) PROVE Advances
  BY <1>6 DEF NewAnswer, CustomerAnswers, GatewayTypeOK, Outcome
<1> QED
  BY <1>1, <1>2, <1>3, <1>4, <1>5, <1>6 DEF StoreStep

\* The invariant of the table and the prompts survives every such write
LEMMA StoreInvKept ==
  ASSUME StoreTypeOK, GatewayTypeOK, StoreInv, StoreStep
  PROVE  StoreInv'
<1> USE StoreAssumption DEF StoreInv, SameElsewhere, Exists
<1>1. ASSUME NEW p \in Requests, NewRow(p) PROVE StoreInv'
  <2>1. /\ SameElsewhere(p) /\ UNCHANGED <<owner, prompt>>
        /\ payments'[p].status = "pending" /\ payments'[p].checkout = Null
        /\ payments'[p].receipt = Null
        /\ \A q \in Requests : KeyOf[q] = KeyOf[p] => ~Exists(q)
    BY <1>1, StoreEffects DEF NewRow, KeyIsFree, GetByIdempotencyKey
  <2>2. OneRowPerKey'
    BY <2>1 DEF OneRowPerKey
  <2>3. AbsentIsEmpty'
    BY <2>1 DEF AbsentIsEmpty
  <2>4. OwnedIffUsed' /\ AnchorBeforePush'
    BY <2>1 DEF OwnedIffUsed, AnchorBeforePush, GatewayTypeOK
  <2>5. CheckoutMatchesOwner'
    BY <2>1 DEF CheckoutMatchesOwner
  <2>6. CompletedIsPaid'
    BY <2>1 DEF CompletedIsPaid
  <2>7. ReceiptIsOwn'
    BY <2>1 DEF ReceiptIsOwn
  <2> QED
    BY <2>2, <2>3, <2>4, <2>5, <2>6, <2>7
<1>2. ASSUME NEW p \in Requests, NewFailure(p) PROVE StoreInv'
  <2>1. /\ Exists(p) /\ SameElsewhere(p) /\ UNCHANGED <<owner, prompt>>
        /\ payments'[p].status \in {"failed", "cancelled"}
        /\ payments'[p].checkout = payments[p].checkout
        /\ payments'[p].receipt = payments[p].receipt
    BY <1>2, StoreEffects DEF NewFailure
  <2>2. OneRowPerKey'
    BY <2>1 DEF OneRowPerKey
  <2>3. AbsentIsEmpty'
    BY <2>1 DEF AbsentIsEmpty
  <2>4. OwnedIffUsed' /\ AnchorBeforePush'
    BY <2>1 DEF OwnedIffUsed, AnchorBeforePush, GatewayTypeOK
  <2>5. CheckoutMatchesOwner'
    BY <2>1 DEF CheckoutMatchesOwner
  <2>6. CompletedIsPaid'
    BY <2>1 DEF CompletedIsPaid
  <2>7. ReceiptIsOwn'
    BY <2>1 DEF ReceiptIsOwn
  <2> QED
    BY <2>2, <2>3, <2>4, <2>5, <2>6, <2>7
<1>3. ASSUME NEW p \in Requests, NEW c \in Checkouts, NewIds(p, c) PROVE StoreInv'
  <2>1. /\ Exists(p) /\ SameElsewhere(p) /\ UNCHANGED <<owner, prompt>>
        /\ payments[p].checkout = Null /\ owner[c] = p
        /\ payments'[p].status = payments[p].status
        /\ payments'[p].checkout = c /\ payments'[p].receipt = payments[p].receipt
    BY <1>3, StoreEffects DEF NewIds
  <2>2. OneRowPerKey'
    BY <2>1 DEF OneRowPerKey
  <2>3. AbsentIsEmpty'
    BY <2>1 DEF AbsentIsEmpty
  <2>4. OwnedIffUsed' /\ AnchorBeforePush'
    BY <2>1 DEF OwnedIffUsed, AnchorBeforePush, GatewayTypeOK
  <2>5. CheckoutMatchesOwner'
    BY <2>1 DEF CheckoutMatchesOwner
  <2>6. CompletedIsPaid'
    BY <2>1 DEF CompletedIsPaid
  <2>7. ReceiptIsOwn'
    BY <2>1 DEF ReceiptIsOwn
  <2> QED
    BY <2>2, <2>3, <2>4, <2>5, <2>6, <2>7
<1>4. ASSUME NEW p \in Requests, NEW c \in Checkouts, NewSuccess(p, c) PROVE StoreInv'
  <2>1. /\ Exists(p) /\ SameElsewhere(p) /\ UNCHANGED <<owner, prompt>>
        /\ payments[p].checkout = c /\ payments'[p].checkout = c
        /\ payments'[p].status = "completed" /\ prompt[c] = "success"
        /\ payments'[p].receipt \in {Null, c}
    BY <1>4, StoreEffects DEF NewSuccess
  <2>2. OneRowPerKey'
    BY <2>1 DEF OneRowPerKey
  <2>3. AbsentIsEmpty'
    BY <2>1 DEF AbsentIsEmpty
  <2>4. OwnedIffUsed' /\ AnchorBeforePush'
    BY <2>1 DEF OwnedIffUsed, AnchorBeforePush, GatewayTypeOK
  <2>5. CheckoutMatchesOwner'
    BY <2>1 DEF CheckoutMatchesOwner
  <2>6. CompletedIsPaid'
    BY <2>1 DEF CompletedIsPaid
  <2>7. ReceiptIsOwn'
    BY <2>1 DEF ReceiptIsOwn
  <2> QED
    BY <2>2, <2>3, <2>4, <2>5, <2>6, <2>7
<1>5. ASSUME NEW p \in Requests, NEW c \in Checkouts, NewPrompt(p, c) PROVE StoreInv'
  BY <1>5
  DEF NewPrompt, Accept, GatewayTypeOK, OneRowPerKey, AbsentIsEmpty, OwnedIffUsed,
      AnchorBeforePush, CheckoutMatchesOwner, CompletedIsPaid, ReceiptIsOwn
<1>6. ASSUME NEW c \in Checkouts, NewAnswer(c) PROVE StoreInv'
  BY <1>6
  DEF NewAnswer, CustomerAnswers, GatewayTypeOK, Outcome, OneRowPerKey, AbsentIsEmpty,
      OwnedIffUsed, AnchorBeforePush, CheckoutMatchesOwner, CompletedIsPaid, ReceiptIsOwn
<1>7. CASE UNCHANGED <<payments, owner, prompt>>
  BY <1>7
  DEF OneRowPerKey, AbsentIsEmpty, OwnedIffUsed, AnchorBeforePush,
      CheckoutMatchesOwner, CompletedIsPaid, ReceiptIsOwn
<1> QED
  BY <1>1, <1>2, <1>3, <1>4, <1>5, <1>6, <1>7 DEF StoreStep

(***************************************************************************)
(* Every step of the system is a StoreStep.                                *)
(***************************************************************************)

\* A step of a call writes its own row only, in one of the ways of StoreStep
LEMMA CallIsStoreStep ==
  ASSUME TypeOK, IInv, NEW r \in Requests, CacheLookup(r) \/ CallStep(r) \/ CrashCall(r)
  PROVE  /\ StoreStep
         /\ \A q \in Requests \ {r} : payments'[q] = payments[q]
<1> USE DEF IInv, TypeOK, CallInv, CallHasRow, HandIsOwn, Pushing, At, StoreStep
<1>1. CASE CreateRow(r)
  BY <1>1, StoreEffects DEF CreateRow, NewRow, SameElsewhere
<1>2. CASE PushAccepted(r)
  BY <1>2 DEF PushAccepted, NewPrompt
<1>3. CASE PushTimedOut(r)
  BY <1>3 DEF PushTimedOut, NewPrompt, gatewayVars
<1>7. CASE PushUnreadable(r)
  BY <1>7 DEF PushUnreadable, NewPrompt, gatewayVars
<1>4. CASE MarkRejected(r)
  BY <1>4, StoreEffects DEF MarkRejected, NewFailure, RowCode, SameElsewhere
<1>5. CASE PersistIds(r)
  BY <1>5, StoreEffects DEF PersistIds, NewIds, SameElsewhere
<1>6. CASE \/ CacheLookup(r) \/ AcquireLock(r) \/ DbCheck(r) \/ PushRefused(r)
           \/ TokenUnavailable(r) \/ CacheResult(r) \/ ReleaseLock(r) \/ CrashCall(r)
  BY <1>6
  DEF CacheLookup, AcquireLock, DbCheck, PushRefused, TokenUnavailable, CacheResult,
      ReleaseLock, CrashCall
<1> QED
  BY <1>1, <1>2, <1>3, <1>4, <1>5, <1>6, <1>7 DEF CallStep, Push

\* A delivery writes the outcome of the checkout its row has, and no checkout
LEMMA CallbackIsStoreStep ==
  ASSUME TypeOK, IInv, CallbackNext, UNCHANGED <<owner, prompt>>
  PROVE  /\ StoreStep
         /\ \A p \in Requests : payments'[p].checkout = payments[p].checkout
<1>1. ASSUME NEW d \in Deliveries, Apply(d), payments' # payments
      PROVE  /\ StoreStep
             /\ \A p \in Requests : payments'[p].checkout = payments[p].checkout
  <2> DEFINE p == cbRow[d]
             c == cb[d].checkout
  <2>1. /\ p \in Requests /\ c \in Checkouts /\ payments[p].checkout = c
        /\ prompt[c] = cb[d].outcome /\ cb[d].outcome \in Outcome
        /\ cb[d].receipt \in {Null, c}
    BY <1>1 DEF Apply, IInv, TypeOK, CallbackTypeOK, CarriedInv, CallbackIsTrue, FetchedRowMatches
  <2>2. WriteOutcome(d)
    BY <1>1 DEF Apply
  <2>3. Exists(p)
    BY <2>1, StoreAssumption DEF IInv, StoreInv, AbsentIsEmpty, NoRow
  <2> HIDE DEF p, c
  <2>4. CASE cb[d].outcome = "success"
    <3>1. MarkCompleted(p, Null) \/ MarkCompleted(p, c)
      BY <2>1, <2>2, <2>4 DEF WriteOutcome, p
    <3> QED
      BY <1>1, <2>1, <2>3, <2>4, <3>1, StoreEffects
      DEF StoreStep, NewSuccess, IInv, TypeOK, SameElsewhere
  <2>5. CASE cb[d].outcome # "success"
    <3>1. /\ cb[d].outcome \in RowCode
          /\ MarkFailed(p, cb[d].outcome)
      BY <2>1, <2>2, <2>5 DEF WriteOutcome, p, RowCode, Outcome
    <3> QED
      BY <1>1, <2>1, <2>3, <3>1, StoreEffects
      DEF StoreStep, NewFailure, IInv, TypeOK, SameElsewhere
  <2> QED
    BY <2>4, <2>5
<1>2. CASE UNCHANGED payments
  BY <1>2 DEF StoreStep
<1>3. UNCHANGED payments \/ \E d \in Deliveries : Apply(d)
  BY DEF CallbackNext, ProcessCallback, Receive, Dedupe, Fetch, CrashDelivery, DedupeKeyExpires
<1> QED
  BY <1>1, <1>2, <1>3

\* A run of the job only marks rows that are there, and writes no checkout
LEMMA JobIsStoreStep ==
  ASSUME TypeOK, IInv, JobNext, UNCHANGED <<owner, prompt>>
  PROVE  /\ StoreStep
         /\ \A p \in Requests : payments'[p].checkout = payments[p].checkout
<1>1. CASE UNCHANGED payments
  BY <1>1 DEF StoreStep
<1>2. ASSUME NEW j \in Jobs, NEW item \in batch[j], MarkFailed(item.payment, "expired")
      PROVE  /\ StoreStep
             /\ \A p \in Requests : payments'[p].checkout = payments[p].checkout
  <2>1. item.payment \in Requests /\ Exists(item.payment)
    BY DEF IInv, TypeOK, JobTypeOK, Item, CarriedInv, BatchIsOnFile
  <2> QED
    BY <1>2, <2>1, StoreEffects
    DEF StoreStep, NewFailure, RowCode, IInv, TypeOK, SameElsewhere
<1>3. \/ UNCHANGED payments
      \/ \E j \in Jobs : \E item \in batch[j] : MarkFailed(item.payment, "expired")
  BY DEF JobNext, GrowOld, SelectStale, ExpireOne, SkipOne, CrashJob
<1> QED
  BY <1>1, <1>2, <1>3

(***************************************************************************)
(* What calls, deliveries and runs rely on.                                *)
(***************************************************************************)

\* A step of one call leaves the row, the place and the hand of the others
LEMMA CallInvByCall ==
  ASSUME TypeOK, IInv, NEW r \in Requests, CacheLookup(r) \/ CallStep(r) \/ CrashCall(r)
  PROVE  CallInv'
<1>1. /\ \A q \in Requests \ {r} :
           /\ payments'[q] = payments[q] /\ pc'[q] = pc[q] /\ hand'[q] = hand[q]
      /\ Advances
  <2>1. \A q \in Requests \ {r} : payments'[q] = payments[q]
    BY CallIsStoreStep
  <2>2. Advances
    BY CallIsStoreStep, StoreAdvances DEF IInv, TypeOK
  <2>3. \A q \in Requests \ {r} : pc'[q] = pc[q] /\ hand'[q] = hand[q]
    BY DEF CallStep, Push, CacheLookup, AcquireLock, DbCheck, CreateRow, PushAccepted,
           PushTimedOut, PushUnreadable, PushRefused, TokenUnavailable, MarkRejected,
           PersistIds, CacheResult, ReleaseLock, CrashCall, GoTo, Raise, TypeOK, InitiationTypeOK
  <2> QED
    BY <2>1, <2>2, <2>3
<1>2. \A q \in Requests \ {r} :
        /\ pc'[q] \in Pushing => payments'[q].status # "absent" /\ payments'[q].checkout = Null
        /\ pc'[q] = "cache" => /\ payments'[q].status # "absent"
                               /\ payments'[q].checkout = hand'[q]
        /\ pc'[q] \in {"persist", "cache"} =>
             hand'[q] \in Checkouts /\ owner'[hand'[q]] = q
  BY <1>1, StoreAssumption DEF IInv, CallInv, CallHasRow, HandIsOwn, At, Exists, Advances
<1>3. /\ pc'[r] \in Pushing => payments'[r].status # "absent" /\ payments'[r].checkout = Null
      /\ pc'[r] = "cache" => /\ payments'[r].status # "absent"
                             /\ payments'[r].checkout = hand'[r]
      /\ pc'[r] \in {"persist", "cache"} =>
           hand'[r] \in Checkouts /\ owner'[hand'[r]] = r
  <2> USE DEF At, GoTo, Raise, Pushing, TypeOK, InitiationTypeOK
  <2>1. CASE CreateRow(r)
    BY <2>1, StoreEffects DEF CreateRow
  <2>2. CASE PushAccepted(r)
    BY <2>2 DEF PushAccepted, Accept, GatewayTypeOK, IInv, CallInv, CallHasRow, Exists
  <2>3. CASE PushTimedOut(r)
    BY <2>3 DEF PushTimedOut, IInv, CallInv, CallHasRow, Exists
  <2>4. CASE PushRefused(r)
    BY <2>4 DEF PushRefused, IInv, CallInv, CallHasRow, Exists
  <2>5. CASE PersistIds(r)
    BY <2>5, StoreEffects, StoreAssumption
    DEF PersistIds, IInv, CallInv, CallHasRow, HandIsOwn, Exists
  <2>6. CASE \/ CacheLookup(r) \/ AcquireLock(r) \/ DbCheck(r) \/ PushUnreadable(r)
             \/ TokenUnavailable(r) \/ MarkRejected(r) \/ CacheResult(r) \/ ReleaseLock(r) \/ CrashCall(r)
    <3>1. pc'[r] \notin Pushing \cup {"cache"}
      BY <2>6
      DEF CacheLookup, AcquireLock, DbCheck, PushUnreadable, TokenUnavailable, MarkRejected,
          CacheResult, ReleaseLock, CrashCall
    <3> QED
      BY <3>1
  <2> QED
    BY <2>1, <2>2, <2>3, <2>4, <2>5, <2>6 DEF CallStep, Push
<1> QED
  BY <1>2, <1>3 DEF CallInv, CallHasRow, HandIsOwn, At, Exists

\* Nobody else writes the checkout of a call's row
LEMMA CallInvByOthers ==
  ASSUME IInv, Advances, UNCHANGED <<pc, hand>>,
         \A p \in Requests : payments'[p].checkout = payments[p].checkout
  PROVE  CallInv'
  BY StoreAssumption DEF IInv, CallInv, CallHasRow, HandIsOwn, At, Exists, Advances

\* What deliveries and runs carry stays true while others write
LEMMA CarriedByOthers ==
  ASSUME TypeOK, IInv, Advances, UNCHANGED <<cbPc, cb, cbRow, batch>>
  PROVE  CarriedInv'
<1> USE StoreAssumption DEF IInv, CarriedInv, Advances, TypeOK
<1>1. CallbackIsTrue'
  BY DEF CallbackIsTrue, CallbackTypeOK
<1>2. FetchedRowMatches'
  BY DEF FetchedRowMatches, CallbackTypeOK
<1>3. BatchIsOnFile'
  BY DEF BatchIsOnFile, JobTypeOK, Item, Exists
<1> QED
  BY <1>1, <1>2, <1>3

\* A delivery reads its callback from a prompt and its row from the table
LEMMA CarriedByCallback ==
  ASSUME TypeOK, IInv, CallbackNext, Advances, UNCHANGED <<owner, prompt, batch>>
  PROVE  CarriedInv'
<1> USE StoreAssumption
    DEF IInv, CarriedInv, Advances, TypeOK, CallbackTypeOK, CbGoTo, CallbackIsTrue,
        FetchedRowMatches, CbBusy
<1>0. BatchIsOnFile'
  BY DEF BatchIsOnFile, JobTypeOK, Item, Exists
<1>1. ASSUME NEW d \in Deliveries, Receive(d) PROVE CarriedInv'
  <2>1. /\ \A e \in Deliveries \ {d} : cbPc'[e] = cbPc[e] /\ cb'[e] = cb[e]
        /\ cbPc'[d] = "dedupe" /\ UNCHANGED <<payments, cbRow>>
        /\ prompt[cb'[d].checkout] = cb'[d].outcome
        /\ cb'[d].outcome \in Outcome
        /\ cb'[d].receipt \in {Null, cb'[d].checkout}
    BY <1>1 DEF Receive
  <2> QED
    BY <2>1, <1>0
<1>2. ASSUME NEW d \in Deliveries, Dedupe(d) PROVE CarriedInv'
  BY <1>2, <1>0 DEF Dedupe
<1>3. ASSUME NEW d \in Deliveries, Fetch(d) PROVE CarriedInv'
  BY <1>3, <1>0 DEF Fetch, GetByCheckoutRequestId, Abort
<1>4. ASSUME NEW d \in Deliveries, Apply(d) PROVE CarriedInv'
  <2>1. /\ UNCHANGED <<cb, cbRow>>
        /\ \A e \in Deliveries \ {d} : cbPc'[e] = cbPc[e]
        /\ cbPc[d] = "apply" /\ cbPc'[d] \in {"applied", "dedupe", "failed"}
    BY <1>4 DEF Apply, Abort
  <2> QED
    BY <2>1, <1>0
<1>5. ASSUME NEW d \in Deliveries, CrashDelivery(d) PROVE CarriedInv'
  BY <1>5, <1>0 DEF CrashDelivery
<1>6. ASSUME NEW c \in Checkouts, DedupeKeyExpires(c) PROVE CarriedInv'
  BY <1>6, <1>0 DEF DedupeKeyExpires
<1> QED
  BY <1>1, <1>2, <1>3, <1>4, <1>5, <1>6 DEF CallbackNext, ProcessCallback

\* A PENDING row has no receipt, so no run ever reads one
LEMMA CarriedByJob ==
  ASSUME TypeOK, IInv, JobNext, Advances, UNCHANGED <<owner, prompt, cbPc, cb, cbRow>>
  PROVE  CarriedInv'
<1> USE StoreAssumption DEF IInv, CarriedInv, Advances, TypeOK
<1>1. CallbackIsTrue' /\ FetchedRowMatches'
  BY DEF CallbackIsTrue, FetchedRowMatches, CallbackTypeOK
<1>2. ASSUME NEW j \in Jobs, SelectStale(j) PROVE BatchIsOnFile'
  <2>1. \A p \in StalePending : p \in Requests /\ Exists(p) /\ payments[p].receipt = Null
    BY DEF StalePending, JobTypeOK, Exists, StoreInv, ReceiptIsOwn
  <2>2. \A item \in batch'[j] : Exists(item.payment) /\ item.receipt = Null
    BY <1>2, <2>1 DEF SelectStale, JobTypeOK
  <2> QED
    BY <1>2, <2>2 DEF SelectStale, BatchIsOnFile, JobTypeOK, Exists
<1>3. ASSUME \A j \in Jobs : batch'[j] \subseteq batch[j] PROVE BatchIsOnFile'
  BY <1>3 DEF BatchIsOnFile, JobTypeOK, Item, Exists
<1>4. \/ \A j \in Jobs : batch'[j] \subseteq batch[j]
      \/ \E j \in Jobs : SelectStale(j)
  BY DEF JobNext, GrowOld, ExpireOne, SkipOne, CrashJob, JobTypeOK
<1> QED
  BY <1>1, <1>2, <1>3, <1>4

(***************************************************************************)
(* What clients are told.                                                  *)
(***************************************************************************)

\* Advances is all that responses given or cached need from a step
LEMMA AnswersByOthers ==
  ASSUME TypeOK, IInv, Advances, UNCHANGED <<resp, idemCache>>
  PROVE  AnswerInv'
<1> USE StoreAssumption DEF IInv, AnswerInv, Advances, TypeOK
<1>1. CachedIsOwn'
  BY DEF CachedIsOwn, Exists
<1>2. AnswerIsOwn'
  BY DEF AnswerIsOwn, InitiationTypeOK, Answer, Exists
<1> QED
  BY <1>1, <1>2

\* A call answers from, and caches, what its own row says
LEMMA AnswersByCall ==
  ASSUME TypeOK, IInv, Advances, NEW r \in Requests,
         CacheLookup(r) \/ CallStep(r) \/ CrashCall(r)
  PROVE  AnswerInv'
<1> USE StoreAssumption
    DEF IInv, AnswerInv, TypeOK, InitiationTypeOK, Reply, Raise, GoTo, At, Failure, NoAnswer
<1>1. ASSUME UNCHANGED idemCache,
             resp' = resp \/ \E a \in Answer : resp' = [resp EXCEPT ![r] = a] /\ a.payment = Null
      PROVE  AnswerInv'
  BY <1>1 DEF CachedIsOwn, AnswerIsOwn, Answer, Exists, Advances
<1>2. CASE CacheLookup(r)
  <2> DEFINE e == idemCache[KeyOf[r]]
  <2>1. CASE UNCHANGED resp
    BY <1>1, <1>2, <2>1 DEF CacheLookup
  <2>2. CASE e # NoEntry /\ Reply(r, [kind |-> "cached", payment |-> e.payment,
                                      checkout |-> e.checkout])
    <3>1. /\ e.payment \in Requests /\ KeyOf[e.payment] = KeyOf[r] /\ Exists(e.payment)
          /\ e.checkout # Null /\ payments[e.payment].checkout = e.checkout
      BY <2>2 DEF CachedIsOwn
    <3>2. /\ resp'[r].payment = e.payment /\ resp'[r].checkout = e.checkout
          /\ \A q \in Requests \ {r} : resp'[q] = resp[q]
          /\ UNCHANGED <<payments, idemCache>>
      BY <1>2, <2>2 DEF CacheLookup
    <3> HIDE DEF e
    <3> QED
      BY <3>1, <3>2 DEF CachedIsOwn, AnswerIsOwn, Exists
  <2> QED
    BY <1>2, <2>1, <2>2 DEF CacheLookup
<1>3. CASE DbCheck(r)
  <2>1. CASE resp' = resp \/ Reply(r, Failure("error"))
    BY <1>1, <1>3, <2>1, Answers DEF DbCheck
  <2>2. ASSUME NEW p \in GetByIdempotencyKey(KeyOf[r]),
               Reply(r, [kind |-> "settled", payment |-> p, checkout |-> payments[p].checkout])
        PROVE  AnswerInv'
    <3>1. /\ p \in Requests /\ KeyOf[p] = KeyOf[r] /\ Exists(p)
          /\ resp'[r].payment = p /\ resp'[r].checkout = payments[p].checkout
          /\ \A q \in Requests \ {r} : resp'[q] = resp[q]
          /\ UNCHANGED <<payments, idemCache>>
      BY <1>3, <2>2 DEF DbCheck, GetByIdempotencyKey
    <3> QED
      BY <3>1 DEF CachedIsOwn, AnswerIsOwn, Exists
  <2> QED
    BY <1>3, <2>1, <2>2 DEF DbCheck
<1>4. CASE CacheResult(r)
  <2>1. /\ Exists(r) /\ payments[r].checkout = hand[r] /\ hand[r] # Null
        /\ UNCHANGED payments /\ KeyOf[r] \in Keys
    BY <1>4 DEF CacheResult, CallInv, CallHasRow, HandIsOwn
  <2>2. /\ resp'[r].payment = r /\ resp'[r].checkout = hand[r]
        /\ \A q \in Requests \ {r} : resp'[q] = resp[q]
    BY <1>4 DEF CacheResult
  <2>3. \A k \in Keys : \/ idemCache'[k] = idemCache[k]
                        \/ k = KeyOf[r] /\ idemCache'[k] = [payment |-> r, checkout |-> hand[r]]
    BY <1>4 DEF CacheResult
  <2>4. CachedIsOwn'
    BY <2>1, <2>3 DEF CachedIsOwn, Exists
  <2>5. AnswerIsOwn'
    BY <2>1, <2>2 DEF AnswerIsOwn, Exists
  <2> QED
    BY <2>4, <2>5
<1>5. CASE \/ AcquireLock(r) \/ CreateRow(r) \/ Push(r) \/ MarkRejected(r) \/ PersistIds(r)
           \/ ReleaseLock(r) \/ CrashCall(r)
  <2>1. /\ UNCHANGED idemCache
        /\ \/ resp' = resp \/ Reply(r, Failure("error")) \/ Reply(r, Failure("conflict"))
           \/ Reply(r, NoAnswer)
    BY <1>5
    DEF AcquireLock, CreateRow, Push, PushAccepted, PushTimedOut, PushUnreadable, PushRefused,
        TokenUnavailable, MarkRejected, PersistIds, ReleaseLock, CrashCall
  <2> QED
    BY <1>1, <2>1, Answers
<1> QED
  BY <1>2, <1>3, <1>4, <1>5 DEF CallStep

\* An entry that expires takes nothing else with it
LEMMA AnswersByExpiry ==
  ASSUME TypeOK, IInv, NEW k \in Keys, LockExpires(k) \/ CacheExpires(k)
  PROVE  AnswerInv'
<1>1. /\ UNCHANGED <<payments, resp>>
      /\ \A i \in Keys : idemCache'[i] \in {idemCache[i], NoEntry}
  BY DEF LockExpires, CacheExpires, TypeOK, InitiationTypeOK
<1> QED
  BY <1>1 DEF IInv, AnswerInv, CachedIsOwn, AnswerIsOwn, Exists

(***************************************************************************)
(* The inductive invariant.                                                *)
(***************************************************************************)

\* The inductive invariant holds before anything has happened
LEMMA IInvInit == Init => IInv
<1> SUFFICES ASSUME Init PROVE IInv
  OBVIOUS
<1> USE StoreAssumption DEF Init, StoreInit, GatewayInit, InitiationInit, CallbackInit, JobInit
<1>1. StoreInv
  BY DEF StoreInv, OneRowPerKey, AbsentIsEmpty, OwnedIffUsed, AnchorBeforePush,
         CheckoutMatchesOwner, CompletedIsPaid, ReceiptIsOwn, Exists, NoRow
<1>2. CallInv
  BY DEF CallInv, CallHasRow, HandIsOwn, At, Pushing
<1>3. CarriedInv
  BY DEF CarriedInv, CallbackIsTrue, FetchedRowMatches, BatchIsOnFile
<1>4. AnswerInv
  BY DEF AnswerInv, CachedIsOwn, AnswerIsOwn, NoAnswer
<1> QED
  BY <1>1, <1>2, <1>3, <1>4, TypeInit DEF IInv

\* Whoever steps, the table and the prompts make a StoreStep
LEMMA StepIsStoreStep == IInv /\ [Next]_vars => StoreStep
<1> SUFFICES ASSUME IInv, [Next]_vars PROVE StoreStep
  OBVIOUS
<1>0. TypeOK
  BY DEF IInv
<1>1. CASE Initiation
  BY <1>0, <1>1, CallIsStoreStep
  DEF Initiation, InitiationNext, LockExpires, CacheExpires, StoreStep
<1>2. CASE Customer
  BY <1>2 DEF Customer, StoreStep, NewAnswer
<1>3. CASE Callbacks
  BY <1>0, <1>3, CallbackIsStoreStep DEF Callbacks
<1>4. CASE Reconciliation
  BY <1>0, <1>4, JobIsStoreStep DEF Reconciliation
<1>5. CASE UNCHANGED vars
  BY <1>5 DEF vars, StoreStep
<1> QED
  BY <1>1, <1>2, <1>3, <1>4, <1>5 DEF Next

\* Every step of the system keeps the inductive invariant
LEMMA IInvStep == IInv /\ [Next]_vars => IInv'
<1> SUFFICES ASSUME IInv, [Next]_vars PROVE IInv'
  OBVIOUS
<1>1. TypeOK /\ StoreStep /\ TypeOK'
  BY StepIsStoreStep, TypeStep DEF IInv
<1>2. StoreInv' /\ Advances
  BY <1>1, StoreInvKept, StoreAdvances DEF IInv, TypeOK
<1>3. CASE Initiation
  <2>1. CarriedInv'
    BY <1>1, <1>2, <1>3, CarriedByOthers DEF Initiation, cbVars, jobVars
  <2>2. ASSUME NEW r \in Requests, CacheLookup(r) \/ CallStep(r) \/ CrashCall(r)
        PROVE  CallInv' /\ AnswerInv'
    BY <1>1, <1>2, <2>2, CallInvByCall, AnswersByCall
  <2>3. ASSUME NEW k \in Keys, LockExpires(k) \/ CacheExpires(k)
        PROVE  CallInv' /\ AnswerInv'
    BY <1>1, <1>2, <2>3, CallInvByOthers, AnswersByExpiry DEF LockExpires, CacheExpires
  <2> QED
    BY <1>1, <1>2, <1>3, <2>1, <2>2, <2>3 DEF Initiation, InitiationNext, IInv
<1>4. CASE Customer
  <2>1. UNCHANGED <<payments, pc, hand, resp, idemCache, cbPc, cb, cbRow, batch>>
    BY <1>4 DEF Customer, callVars, cbVars, jobVars
  <2> QED
    BY <1>1, <1>2, <2>1, CallInvByOthers, CarriedByOthers, AnswersByOthers DEF IInv
<1>5. CASE Callbacks
  <2>1. UNCHANGED <<owner, prompt, pc, hand, resp, idemCache, batch>> /\ CallbackNext
    BY <1>5 DEF Callbacks, callVars, jobVars
  <2> QED
    BY <1>1, <1>2, <2>1, CallbackIsStoreStep, CallInvByOthers, CarriedByCallback, AnswersByOthers
    DEF IInv
<1>6. CASE Reconciliation
  <2>1. UNCHANGED <<owner, prompt, pc, hand, resp, idemCache, cbPc, cb, cbRow>> /\ JobNext
    BY <1>6 DEF Reconciliation, callVars, cbVars
  <2> QED
    BY <1>1, <1>2, <2>1, JobIsStoreStep, CallInvByOthers, CarriedByJob, AnswersByOthers DEF IInv
<1>7. CASE UNCHANGED vars
  <2>1. UNCHANGED <<payments, pc, hand, resp, idemCache, cbPc, cb, cbRow, batch>>
    BY <1>7 DEF vars
  <2> QED
    BY <1>1, <1>2, <2>1, CallInvByOthers, CarriedByOthers, AnswersByOthers DEF IInv
<1> QED
  BY <1>3, <1>4, <1>5, <1>6, <1>7 DEF Next

\* The inductive invariant always holds: calls, deliveries, customers and runs of
\* the job, in any number and with any faults, keep it together.
THEOREM Inductive == Spec => []IInv
  BY IInvInit, IInvStep, PTL DEF Spec
=============================================================================
