---------------------------- MODULE PaymentStore ----------------------------
(***************************************************************************)
(* The payments table and the repository that is its only reader and       *)
(* writer.  A payment id is a UUID drawn by one call of initiate_stk_push, *)
(* so the calls (Requests) themselves serve as payment ids: the row of     *)
(* call r, if it exists, is payments[r].                                   *)
(*                                                                         *)
(* Every operator below is one SQL statement together with its commit.     *)
(* A statement that fails leaves the table as it was: each caller has its  *)
(* own disjunct for that.                                                  *)
(***************************************************************************)
CONSTANTS
  Requests,    \* calls of initiate_stk_push, and the payment ids they draw
  Keys,        \* idempotency keys chosen by the clients
  KeyOf,       \* the key each call carries
  Checkouts,   \* CheckoutRequestIDs Daraja hands out
  Null         \* SQL NULL, Python None

ASSUME StoreAssumption ==
  /\ KeyOf \in [Requests -> Keys]
  /\ Null \notin Requests \cup Checkouts

VARIABLE payments

Status == {"pending", "completed", "failed", "cancelled", "reversed"}

(***************************************************************************)
(* result_code: "api_error" is the 1 written when the Daraja call fails,   *)
(* "cancelled" is 1032, "declined" any other code of a callback, and       *)
(* "expired" the -99 of the reconciliation job.  failure_reason is written *)
(* with it, always, and is left out.  receipt is the checkout whose charge *)
(* the M-Pesa receipt certifies.                                           *)
(***************************************************************************)
RowCode == {"none", "api_error", "cancelled", "declined", "expired"}

Row == [status   : Status \cup {"absent"},
        checkout : Checkouts \cup {Null},
        receipt  : Checkouts \cup {Null},
        code     : RowCode]

NoRow == [status |-> "absent", checkout |-> Null,
          receipt |-> Null, code |-> "none"]

Exists(p) == payments[p].status # "absent"

\* SELECT ... WHERE idempotency_key = k
GetByIdempotencyKey(k) == {p \in Requests : Exists(p) /\ KeyOf[p] = k}

\* SELECT ... WHERE checkout_request_id = c
GetByCheckoutRequestId(c) == {p \in Requests : payments[p].checkout = c}

\* (mistake: idempotency_key is not unique)
KeyColumnNotUnique(p) == TRUE

\* UNIQUE (idempotency_key): an INSERT of p is accepted
KeyIsFree(p) == GetByIdempotencyKey(KeyOf[p]) = {}

\* UNIQUE (checkout_request_id): an UPDATE to c is accepted
CheckoutIsFree(c) == GetByCheckoutRequestId(c) = {}

Create(p) == payments' = [payments EXCEPT ![p] = [NoRow EXCEPT !.status = "pending"]]

\* (mistake: the UPDATE has lost its WHERE id, and fills every row without one)
UpdateEveryRow(p, c) ==
  payments' = [q \in Requests |->
                 IF Exists(q) /\ payments[q].checkout = Null
                   THEN [payments[q] EXCEPT !.checkout = c] ELSE payments[q]]

UpdateDarajaIds(p, c) == payments' = [payments EXCEPT ![p].checkout = c]

MarkCompleted(p, receipt) ==
  payments' = [payments EXCEPT ![p].status = "completed", ![p].receipt = receipt]

\* (mistake: a stale payment is put back to pending, to be looked at again)
MarkFailedOrRequeue(p, code) ==
  payments' = [payments EXCEPT
                 ![p].status = CASE code = "cancelled" -> "cancelled"
                                 [] code = "expired" -> "pending"
                                 [] OTHER -> "failed",
                 ![p].code   = code]

MarkFailed(p, code) ==
  payments' = [payments EXCEPT
                 ![p].status = IF code = "cancelled" THEN "cancelled" ELSE "failed",
                 ![p].code   = code]

StoreInit == payments = [p \in Requests |-> NoRow]
StoreTypeOK == payments \in [Requests -> Row]
=============================================================================
