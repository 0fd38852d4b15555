----------------------------- MODULE StkCallback -----------------------------
(***************************************************************************)
(* Deliveries of Daraja's callbacks, and STKService.process_callback.      *)
(* A delivery is one POST to /callback/stk: the route answers 200 and      *)
(* processes the callback in a BackgroundTask, whose failure is logged and *)
(* forgotten.  A durable delivery is one message of the Celery task        *)
(* process_stk_callback, which is retried when it fails and redelivered    *)
(* when its worker dies (acks_late, reject_on_worker_lost).                *)
(*                                                                         *)
(* Daraja may send the callback of one checkout several times, late, or    *)
(* never: each delivery picks any answered checkout, at any time.  A       *)
(* message redelivered after it was processed is one more delivery.        *)
(***************************************************************************)
EXTENDS StkInitiation

CONSTANTS
  Deliveries,       \* the deliveries that can happen
  Durable,          \* those that go through Celery
  CallbackRetries   \* _MAX_RETRIES

ASSUME CallbackAssumption ==
  /\ Durable \subseteq Deliveries
  /\ CallbackRetries \in Nat

VARIABLES
  cbPc,     \* cbPc[d]: the await delivery d is at, or how it ended
  cb,       \* cb[d]: the callback it carries
  cbRow,    \* cbRow[d]: the payment it has fetched, or Null
  cbTries,  \* cbTries[d]: self.request.retries
  cbSeen    \* the checkouts c for which stk:callback:<c> is set

cbVars == <<cbPc, cb, cbRow, cbTries, cbSeen>>

CbEnded == {"applied", "duplicate", "unmatched", "failed", "lost"}
CbBusy  == {"dedupe", "fetch", "apply"}

Callback == [checkout : Checkouts \cup {Null},
             outcome  : Outcome \cup {"none"},
             receipt  : Checkouts \cup {Null}]
NoCallback == [checkout |-> Null, outcome |-> "none", receipt |-> Null]

CallbackInit ==
  /\ cbPc    = [d \in Deliveries |-> "idle"]
  /\ cb      = [d \in Deliveries |-> NoCallback]
  /\ cbRow   = [d \in Deliveries |-> Null]
  /\ cbTries = [d \in Deliveries |-> 0]
  /\ cbSeen  = {}

CallbackTypeOK ==
  /\ cbPc    \in [Deliveries -> {"idle"} \cup CbBusy \cup CbEnded]
  /\ cb      \in [Deliveries -> Callback]
  /\ cbRow   \in [Deliveries -> Requests \cup {Null}]
  /\ cbTries \in [Deliveries -> 0 .. CallbackRetries]
  /\ cbSeen  \in SUBSET Checkouts
  /\ \A d \in Deliveries : cbPc[d] # "idle" => cb[d].checkout \in Checkouts

CbGoTo(d, place) == cbPc' = [cbPc EXCEPT ![d] = place]

\* A success whose metadata has no receipt is completed without one
Receive(d) ==
  /\ cbPc[d] = "idle"
  /\ \E c \in Checkouts :
       /\ prompt[c] \in Outcome
       /\ \E receipt \in IF prompt[c] = "success" THEN {c, Null} ELSE {Null} :
            cb' = [cb EXCEPT ![d] = [checkout |-> c,
                                     outcome  |-> prompt[c],
                                     receipt  |-> receipt]]
  /\ CbGoTo(d, "dedupe")
  /\ UNCHANGED <<payments, cbRow, cbTries, cbSeen>>

\* (mistake: the key is looked up and never set)
DedupeReadOnly(d) ==
  /\ cbPc[d] = "dedupe"
  /\ CbGoTo(d, IF cb[d].checkout \in cbSeen THEN "duplicate" ELSE "fetch")
  /\ UNCHANGED <<payments, cb, cbRow, cbTries, cbSeen>>

\* (mistake: the key does not name the checkout)
DedupeOneKey(d) ==
  /\ cbPc[d] = "dedupe"
  /\ cbSeen' = cbSeen \cup {cb[d].checkout}
  /\ CbGoTo(d, IF cbSeen # {} THEN "duplicate" ELSE "fetch")
  /\ UNCHANGED <<payments, cb, cbRow, cbTries>>

\* (mistake: a delivery that finds the key waits for it to go)
DedupeWaits(d) ==
  /\ cbPc[d] = "dedupe"
  /\ cb[d].checkout \notin cbSeen
  /\ cbSeen' = cbSeen \cup {cb[d].checkout}
  /\ CbGoTo(d, "fetch")
  /\ UNCHANGED <<payments, cb, cbRow, cbTries>>

\* SET NX, before anything is done; a failing SET counts as the first time
Dedupe(d) ==
  LET c == cb[d].checkout IN
  /\ cbPc[d] = "dedupe"
  /\ \/ /\ c \notin cbSeen
        /\ cbSeen' = cbSeen \cup {c}
        /\ CbGoTo(d, "fetch")
     \/ /\ c \in cbSeen
        /\ CbGoTo(d, "duplicate")
        /\ UNCHANGED cbSeen
     \/ /\ Fault("redis")
        /\ cbSeen' \in {cbSeen, cbSeen \cup {c}}
        /\ CbGoTo(d, "fetch")
  /\ UNCHANGED <<payments, cb, cbRow, cbTries>>

\* An exception: logged by the route, retried by the task from its start
Abort(d) ==
  IF d \in Durable /\ cbTries[d] < CallbackRetries
    THEN /\ cbTries' = [cbTries EXCEPT ![d] = @ + 1]
         /\ CbGoTo(d, "dedupe")
    ELSE /\ CbGoTo(d, "failed")
         /\ UNCHANGED cbTries

\* (mistake: the callback is matched with any payment that waits for one)
FetchAnyPending(d) ==
  /\ cbPc[d] = "fetch"
  /\ \E p \in Requests :
       /\ payments[p].status = "pending"
       /\ cbRow' = [cbRow EXCEPT ![d] = p]
       /\ CbGoTo(d, "apply")
  /\ UNCHANGED <<payments, cb, cbTries, cbSeen>>

Fetch(d) ==
  LET rows == GetByCheckoutRequestId(cb[d].checkout) IN
  /\ cbPc[d] = "fetch"
  /\ \/ \E p \in rows :
          /\ cbRow' = [cbRow EXCEPT ![d] = p]
          /\ CbGoTo(d, "apply")
          /\ UNCHANGED cbTries
     \/ /\ rows = {}
        /\ CbGoTo(d, "unmatched")
        /\ UNCHANGED <<cbRow, cbTries>>
     \/ /\ Fault("db")
        /\ Abort(d)
        /\ UNCHANGED cbRow
  /\ UNCHANGED <<payments, cb, cbSeen>>

\* (mistake: whatever was not cancelled was paid)
WriteUnlessCancelled(d) ==
  IF cb[d].outcome # "cancelled"
    THEN MarkCompleted(cbRow[d], cb[d].receipt)
    ELSE MarkFailed(cbRow[d], cb[d].outcome)

\* UPDATE by primary key, whatever has become of the row since it was read
WriteOutcome(d) ==
  IF cb[d].outcome = "success"
    THEN MarkCompleted(cbRow[d], cb[d].receipt)
    ELSE MarkFailed(cbRow[d], cb[d].outcome)

Apply(d) ==
  /\ cbPc[d] = "apply"
  /\ \/ /\ WriteOutcome(d)
        /\ CbGoTo(d, "applied")
        /\ UNCHANGED cbTries
     \/ /\ Fault("db")
        /\ WriteOutcome(d) \/ UNCHANGED payments
        /\ Abort(d)
  /\ UNCHANGED <<cb, cbRow, cbSeen>>

\* The process dies: the message of a durable delivery goes back to the queue
CrashDelivery(d) ==
  /\ Fault("crash")
  /\ cbPc[d] \in CbBusy
  /\ CbGoTo(d, IF d \in Durable THEN "dedupe" ELSE "lost")
  /\ UNCHANGED <<payments, cb, cbRow, cbTries, cbSeen>>

DedupeKeyExpires(c) ==
  /\ Fault("cacheTTL")
  /\ c \in cbSeen
  /\ cbSeen' = cbSeen \ {c}
  /\ UNCHANGED <<payments, cbPc, cb, cbRow, cbTries>>

ProcessCallback(d) == Dedupe(d) \/ Fetch(d) \/ Apply(d)

CallbackNext ==
  \/ \E d \in Deliveries : Receive(d) \/ ProcessCallback(d) \/ CrashDelivery(d)
  \/ \E c \in Checkouts : DedupeKeyExpires(c)
=============================================================================
