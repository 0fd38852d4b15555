---------------------------- MODULE PaymentLedger ----------------------------
(***************************************************************************)
(* What the service promises about money, with no Redis, no process and no *)
(* message in sight: a ledger with at most one entry per idempotency key.  *)
(* An entry is opened before its customer can be charged, is reported      *)
(* completed only if the customer was charged, and is never erased or      *)
(* reopened.  A completed entry may still be reported failed: this is the  *)
(* weakest promise, the one the code keeps.                                *)
(***************************************************************************)
CONSTANTS Requests, Keys, KeyOf

VARIABLES
  entry,     \* entry[p]: what the ledger says of payment p
  charged    \* the payments whose customer has been charged

ledgerVars == <<entry, charged>>

LedgerInit ==
  /\ entry   = [p \in Requests |-> "absent"]
  /\ charged = {}

Open(p) ==
  /\ \A q \in Requests : KeyOf[q] = KeyOf[p] => entry[q] = "absent"
  /\ entry' = [entry EXCEPT ![p] = "pending"]
  /\ UNCHANGED charged

Charge(p) ==
  /\ entry[p] # "absent"
  /\ charged' = charged \cup {p}
  /\ UNCHANGED entry

Report(p) ==
  /\ entry[p] # "absent"
  /\ \E s \in {"completed", "failed", "cancelled"} :
       /\ s = "completed" => p \in charged
       /\ entry' = [entry EXCEPT ![p] = s]
  /\ UNCHANGED charged

LedgerNext == \E p \in Requests : Open(p) \/ Charge(p) \/ Report(p)

LedgerSpec == LedgerInit /\ [][LedgerNext]_ledgerVars
=============================================================================
