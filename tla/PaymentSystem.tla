---------------------------- MODULE PaymentSystem ----------------------------
(***************************************************************************)
(* The service as a whole: calls, callback deliveries and reconciliation   *)
(* runs, in one API process or many and in Celery workers, interleaved at  *)
(* their awaits, over one payments table, one Redis and Daraja.            *)
(***************************************************************************)
EXTENDS StkCallback, StalePayments, FiniteSets

vars == <<payments, owner, prompt, pc, tries, hand, resp, idemCache, locked,
          cbPc, cb, cbRow, cbTries, cbSeen, old, batch>>

Init ==
  /\ StoreInit /\ GatewayInit /\ InitiationInit /\ CallbackInit /\ JobInit

Initiation == InitiationNext /\ UNCHANGED <<cbVars, jobVars>>

Customer ==
  /\ \E c \in Checkouts, outcome \in Outcome : CustomerAnswers(c, outcome)
  /\ UNCHANGED <<payments, callVars, idemCache, locked, cbVars, jobVars>>

Callbacks ==
  /\ CallbackNext
  /\ UNCHANGED <<owner, prompt, callVars, idemCache, locked, jobVars>>

Reconciliation ==
  /\ JobNext
  /\ UNCHANGED <<owner, prompt, callVars, idemCache, locked, cbVars>>

Next == Initiation \/ Customer \/ Callbacks \/ Reconciliation

Spec == Init /\ [][Next]_vars

(***************************************************************************)
(* Fairness.  The event loop and the workers resume whatever is ready, so  *)
(* a call that has started and a delivery that has arrived take their next *)
(* step; Redis ends the TTL of a key; Beat starts the job again and again, *)
(* and time makes rows old.  A worker may die on a message or on a batch   *)
(* again and again, but not for ever: hence strong fairness.  Nothing      *)
(* makes a client call, a customer answer, or Daraja deliver a callback.   *)
(***************************************************************************)
Fairness ==
  /\ \A r \in Requests : WF_vars(CallStep(r) /\ UNCHANGED <<cbVars, jobVars>>)
  /\ \A k \in Keys : WF_vars(LockExpires(k) /\ UNCHANGED <<cbVars, jobVars>>)
  /\ \A d \in Deliveries :
       /\ WF_vars(Dedupe(d)
                  /\ UNCHANGED <<owner, prompt, callVars, idemCache, locked, jobVars>>)
       /\ SF_vars(Fetch(d)
                  /\ UNCHANGED <<owner, prompt, callVars, idemCache, locked, jobVars>>)
       /\ SF_vars(Apply(d)
                  /\ UNCHANGED <<owner, prompt, callVars, idemCache, locked, jobVars>>)
  /\ \A p \in Requests :
       WF_vars(GrowOld(p)
               /\ UNCHANGED <<owner, prompt, callVars, idemCache, locked, cbVars>>)
  /\ \A j \in Jobs :
       /\ WF_vars(SelectStale(j)
                  /\ UNCHANGED <<owner, prompt, callVars, idemCache, locked, cbVars>>)
       /\ SF_vars(ExpireOne(j)
                  /\ UNCHANGED <<owner, prompt, callVars, idemCache, locked, cbVars>>)

FairSpec == Spec /\ Fairness

TypeOK ==
  StoreTypeOK /\ GatewayTypeOK /\ InitiationTypeOK /\ CallbackTypeOK /\ JobTypeOK

-----------------------------------------------------------------------------
(***************************************************************************)
(* Idempotency of initiation.                                              *)
(***************************************************************************)

\* However the calls of one key interleave, and whatever becomes of the lock
\* and of Redis, at most one of them ever reaches Daraja: pushes of the same
\* key are attempts of one and the same call.
InitiateOnce ==
  \A c1, c2 \in Checkouts :
    (owner[c1] # Null /\ owner[c2] # Null /\ KeyOf[owner[c1]] = KeyOf[owner[c2]])
      => owner[c1] = owner[c2]

\* No prompt reaches a phone before the PENDING row of the call is committed,
\* and that row is there whatever dies afterwards.
AnchorBeforePush == \A c \in Checkouts : owner[c] # Null => Exists(owner[c])

\* Only a call that is past its commit can be talking to Daraja, and no other
\* call of its key is: the table keeps two calls apart when the lock does not.
PushersHaveRows ==
  \A r \in Requests :
    At(r, "push") =>
      /\ Exists(r)
      /\ \A q \in Requests \ {r} :
           KeyOf[q] = KeyOf[r] => pc[q] \notin {"push", "reject", "persist", "cache"}

\* The prompts that calls of key k have put on a phone
Prompts(k) == {c \in Checkouts : owner[c] # Null /\ KeyOf[owner[c]] = k}

\* What is left of "no double charge": however many calls of a key there are and
\* whatever fails, every prompt but one took an attempt of the push that timed
\* out, and there are no more of them than the configured attempts.
EachPromptAnAttempt ==
  \A c \in Checkouts :
    owner[c] # Null =>
      Cardinality(Prompts(KeyOf[owner[c]])) <= IF tries[owner[c]] < Attempts
                                                 THEN tries[owner[c]] + 1 ELSE Attempts

\* Two calls of one key that succeed name the same payment and, unless one was
\* answered from a row that never learnt its checkout, the same checkout.
ReplayConsistent ==
  \A r1, r2 \in Requests :
    LET a == resp[r1]  b == resp[r2] IN
    (KeyOf[r1] = KeyOf[r2] /\ a.payment # Null /\ b.payment # Null)
      => /\ a.payment = b.payment
         /\ a.checkout # Null /\ b.checkout # Null => a.checkout = b.checkout

\* The per-key lock does its work as long as Redis answers and the TTL
\* outlasts the calls, crashes included: one call at a time between the lock
\* and its deletion.
MutualExclusion ==
  \A r1, r2 \in Requests :
    (r1 # r2 /\ KeyOf[r1] = KeyOf[r2])
      => ~(pc[r1] \in Critical /\ pc[r2] \in Critical)

\* get_payment_status: what a client that polls payment p is told, and NotFound
\* if the route answers 404
NotFound == [status |-> "absent", receipt |-> Null, code |-> "none"]
GetPaymentStatus(p) ==
  IF Exists(p)
    THEN [status |-> payments[p].status, receipt |-> payments[p].receipt,
          code |-> payments[p].code]
    ELSE NotFound

\* A payment_id that a client has been given, or is about to be given from the
\* cache, is found when the client polls it, whatever failed meanwhile.
HandedOutIsFound ==
  /\ \A r \in Requests :
       resp[r].payment # Null => GetPaymentStatus(resp[r].payment) # NotFound
  /\ \A k \in Keys :
       idemCache[k] # NoEntry => GetPaymentStatus(idemCache[k].payment) # NotFound

(***************************************************************************)
(* Outcomes.                                                               *)
(***************************************************************************)

\* A payment that is on file as "failed before initiation" (services/stk.py:177)
\* has prompted nobody, unless an earlier attempt of its push had timed out, or
\* Daraja had accepted a push with a reply that does not validate.
FailedBeforeInitiation ==
  \A p \in Requests :
    (payments[p].code = "api_error" /\ tries[p] = 0 /\ ~Fault("badreply"))
      => \A c \in Checkouts : owner[c] # p

\* The checkout of a row was handed out for a push of that very call, so a
\* callback matched through it settles the payment of the customer prompted.
CheckoutMatchesOwner ==
  \A p \in Requests :
    payments[p].checkout # Null => owner[payments[p].checkout] = p

\* A payment is reported completed only if its customer has paid.
CompletedIsPaid ==
  \A p \in Requests :
    payments[p].status = "completed"
      => /\ payments[p].checkout # Null
         /\ prompt[payments[p].checkout] = "success"

\* The receipt of a payment certifies the charge of that payment's checkout,
\* and none is on file for a payment that never was completed: a PENDING row
\* has none, so the status query of the reconciliation job never runs.
ReceiptIsOwn ==
  \A p \in Requests :
    payments[p].receipt # Null
      => payments[p].receipt = payments[p].checkout /\ payments[p].status # "pending"

\* A callback is applied once however often Daraja sends it, provided its
\* dedup key could be written and lives on.
AppliedAtMostOnce ==
  \A d1, d2 \in Deliveries :
    (d1 # d2 /\ cbPc[d1] = "applied" /\ cbPc[d2] = "applied")
      => cb[d1].checkout # cb[d2].checkout

\* A delivery that comes through the route is ignored as a duplicate only when
\* another delivery of the same callback has arrived, whatever fails.  A durable
\* delivery may find the key it has set itself: see DurableIsApplied.
DuplicateHasOriginal ==
  \A d \in Deliveries \ Durable :
    cbPc[d] = "duplicate" =>
      \E e \in Deliveries \ {d} :
        cb[e].checkout = cb[d].checkout /\ cbPc[e] # "idle"

\* A row never disappears, never becomes pending again, and keeps the checkout
\* it was given.
RowsOnlyAdvance ==
  [][\A p \in Requests :
       /\ Exists(p) => Exists(p)'
       /\ Exists(p) /\ payments[p].status # "pending" => payments'[p].status # "pending"
       /\ payments[p].checkout # Null => payments'[p].checkout = payments[p].checkout]_vars

\* The only way a payment leaves COMPLETED is a reconciliation run that read
\* the row while it was pending and has not dealt with it yet.
CompletedLeavesOnlyByExpiry ==
  [][\A p \in Requests :
       (payments[p].status = "completed" /\ payments'[p].status # "completed")
         => /\ payments'[p].status = "failed" /\ payments'[p].code = "expired"
            /\ \E j \in Jobs : [payment |-> p, receipt |-> Null] \in batch[j]]_vars

(***************************************************************************)
(* The table and the prompts are a ledger that keeps the promises of       *)
(* PaymentLedger, whatever fails.                                          *)
(***************************************************************************)

Entries == [p \in Requests |-> payments[p].status]
Charged == {p \in Requests :
              \E c \in Checkouts : owner[c] = p /\ prompt[c] = "success"}

Ledger == INSTANCE PaymentLedger WITH entry <- Entries, charged <- Charged

\* Every step of calls, customers, callbacks and runs of the job is a step of
\* the ledger or leaves it as it is.
ImplementsLedger == Ledger!LedgerSpec

(***************************************************************************)
(* Progress.                                                               *)
(***************************************************************************)

\* A call that has started ends, with an answer or with its process.
CallsEnd ==
  \A r \in Requests : (pc[r] # "idle") ~> (pc[r] \in {"done", "crashed"})

\* A lock is not held for ever, even when its holder dies.
LocksEnd == \A k \in Keys : (k \in locked) ~> (k \notin locked)

\* A payment does not stay pending for ever, whatever becomes of its call, of
\* its callback, and of some runs of the job.
PendingEnds ==
  \A p \in Requests :
    (payments[p].status = "pending") ~> (payments[p].status # "pending")

\* A delivery that has arrived is eventually dealt with, one way or another.
DeliveriesEnd ==
  \A d \in Deliveries : (cbPc[d] \in CbBusy) ~> (cbPc[d] \in CbEnded)

(***************************************************************************)
(* What the documentation says and the code does not do (see README).      *)
(***************************************************************************)

\* services/stk.py:5, "no double charge": one key is charged at most once.
NoDoubleCharge ==
  \A c1, c2 \in Checkouts :
    (c1 # c2 /\ prompt[c1] = "success" /\ prompt[c2] = "success")
      => KeyOf[owner[c1]] # KeyOf[owner[c2]]

\* models/payment.py:46, "COMPLETED - callback received with ResultCode == 0":
\* a completed payment stays completed (nothing reverses one).
CompletedIsFinal ==
  [][\A p \in Requests :
       payments[p].status = "completed" => payments'[p].status = "completed"]_vars

\* stk_tasks.py:38, "Process an STK push callback payload durably": a durable
\* delivery of a callback whose payment is on file is applied, by it or by
\* another, before it ends well.
DurableIsApplied ==
  \A d \in Durable :
    (cbPc[d] = "duplicate" /\ GetByCheckoutRequestId(cb[d].checkout) # {})
      => \E e \in Deliveries :
           cb[e].checkout = cb[d].checkout /\ cbPc[e] \in {"fetch", "apply", "applied"}
=============================================================================
