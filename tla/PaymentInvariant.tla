-------------------------- MODULE PaymentInvariant --------------------------
(***************************************************************************)
(* The inductive invariant of PaymentSystem.  Each conjunct is here        *)
(* because the proof that a step preserves another one needs it.           *)
(***************************************************************************)
EXTENDS PaymentSystem

(***************************************************************************)
(* The table and the prompts.                                              *)
(***************************************************************************)

\* The unique constraint on idempotency_key holds
OneRowPerKey ==
  \A p, q \in Requests :
    (Exists(p) /\ Exists(q) /\ KeyOf[p] = KeyOf[q]) => p = q

\* There is nothing in the columns of a row that is not there
AbsentIsEmpty == \A p \in Requests : ~Exists(p) => payments[p] = NoRow

\* A checkout has an owner as soon as, and only if, it has been handed out
OwnedIffUsed == \A c \in Checkouts : owner[c] # Null <=> prompt[c] # "unused"

StoreInv ==
  /\ OneRowPerKey
  /\ AbsentIsEmpty
  /\ OwnedIffUsed
  /\ AnchorBeforePush
  /\ CheckoutMatchesOwner
  /\ CompletedIsPaid
  /\ ReceiptIsOwn

(***************************************************************************)
(* The calls, between their commit and the end of their work.              *)
(***************************************************************************)

Pushing == {"push", "reject", "persist"}

\* The row of a call that is past its commit is there, without a checkout until
\* the call writes it
CallHasRow ==
  \A r \in Requests :
    /\ pc[r] \in Pushing => Exists(r) /\ payments[r].checkout = Null
    /\ At(r, "cache") => Exists(r) /\ payments[r].checkout = hand[r]

\* The checkout in a call's hand is one that Daraja gave to that call
HandIsOwn ==
  \A r \in Requests :
    pc[r] \in {"persist", "cache"} => hand[r] \in Checkouts /\ owner[hand[r]] = r

CallInv == CallHasRow /\ HandIsOwn

(***************************************************************************)
(* What deliveries and runs of the job carry with them.                    *)
(***************************************************************************)

\* A callback says what became of its prompt
CallbackIsTrue ==
  \A d \in Deliveries :
    cbPc[d] # "idle" =>
      /\ prompt[cb[d].checkout] = cb[d].outcome
      /\ cb[d].outcome \in Outcome
      /\ cb[d].receipt \in {Null, cb[d].checkout}

\* The row a delivery is about to write still has the callback's checkout
FetchedRowMatches ==
  \A d \in Deliveries :
    cbPc[d] = "apply" =>
      cbRow[d] \in Requests /\ payments[cbRow[d]].checkout = cb[d].checkout

\* A run of the job holds rows that are there, and saw no receipt in them
BatchIsOnFile ==
  \A j \in Jobs : \A item \in batch[j] : Exists(item.payment) /\ item.receipt = Null

CarriedInv == CallbackIsTrue /\ FetchedRowMatches /\ BatchIsOnFile

(***************************************************************************)
(* What clients are told.                                                  *)
(***************************************************************************)

\* A cached response names the row of its key and that row's checkout
CachedIsOwn ==
  \A k \in Keys : idemCache[k] # NoEntry =>
    /\ idemCache[k].payment \in Requests
    /\ KeyOf[idemCache[k].payment] = k
    /\ Exists(idemCache[k].payment)
    /\ idemCache[k].checkout # Null
    /\ payments[idemCache[k].payment].checkout = idemCache[k].checkout

\* So does an answer, unless it was given from a row without a checkout
AnswerIsOwn ==
  \A r \in Requests : resp[r].payment # Null =>
    /\ KeyOf[resp[r].payment] = KeyOf[r]
    /\ Exists(resp[r].payment)
    /\ resp[r].checkout # Null =>
         payments[resp[r].payment].checkout = resp[r].checkout

AnswerInv == CachedIsOwn /\ AnswerIsOwn

\* TypeOK and the invariants above are kept by every step: this is what the
\* theorems about outcomes, replays and the ledger rest on.
IInv == TypeOK /\ StoreInv /\ CallInv /\ CarriedInv /\ AnswerInv

(***************************************************************************)
(* Inductive only while Redis answers and TTLs outlast those who rely on   *)
(* them.                                                                   *)
(***************************************************************************)

\* A call between the lock and its deletion has the lock, alone
LockInv ==
  /\ \A r \in Requests : pc[r] \in Critical => KeyOf[r] \in locked
  /\ MutualExclusion

\* A delivery past its dedup key has it, alone among the deliveries of its
\* checkout
Past == {"fetch", "apply", "applied"}
DedupInv ==
  /\ \A d \in Deliveries : cbPc[d] \in Past => cb[d].checkout \in cbSeen
  /\ \A d, e \in Deliveries :
       (d # e /\ cbPc[d] \in Past /\ cbPc[e] \in Past) => cb[d].checkout # cb[e].checkout

(***************************************************************************)
(* What a failed payment says of its push.                                 *)
(***************************************************************************)

Unprompted(r) == \A c \in Checkouts : owner[c] # r

\* A call whose attempts have not timed out has prompted nobody until Daraja
\* accepts its push, and its row is marked failed only instead of that
RefusalInv ==
  \A r \in Requests :
    /\ payments[r].code = "api_error" => pc[r] \in {"release", "done", "crashed"}
    /\ (/\ tries[r] = 0 /\ ~Fault("badreply")
        /\ payments[r].code = "api_error" \/ pc[r] \in Before \cup {"push", "reject"})
         => Unprompted(r)

(***************************************************************************)
(* How many prompts a call can have sent.                                  *)
(***************************************************************************)

PromptsOf(r) == {c \in Checkouts : owner[c] = r}

\* Every prompt of a call but one took an attempt that timed out; before its last
\* attempt, every one of them did
PromptInv ==
  \A r \in Requests :
    /\ IsFiniteSet(PromptsOf(r))
    /\ Cardinality(PromptsOf(r)) <= tries[r] + 1
    /\ Cardinality(PromptsOf(r)) <= Attempts
    /\ pc[r] \in Before \cup {"push"} => Cardinality(PromptsOf(r)) <= tries[r]
=============================================================================
