---------------------------- MODULE PushContract ----------------------------
(***************************************************************************)
(* What initiate_stk_push relies on when it posts, with no token, circuit  *)
(* or process in sight: the push of StkInitiation without its payment.  A  *)
(* post makes attempts until one is replied to, readably or not, one is    *)
(* refused, no token can be had, or none is left.  The caller tells these  *)
(* ends apart: after a refusal (a DarajaError) it marks its row failed; an *)
(* exception of any other kind leaves the row pending, for the             *)
(* reconciliation job, since Daraja may have accepted an attempt.  So a    *)
(* refusal must be the end of the post, what Daraja may have accepted must *)
(* not end as one, and "exhausted" must not come of anything but attempts  *)
(* in doubt.                                                               *)
(***************************************************************************)
EXTENDS Naturals

CONSTANTS Posts, Attempts

VARIABLES
  stage,    \* stage[p]: how far post p is
  doubts    \* doubts[p]: attempts of p that Daraja may have accepted unheard

contractVars == <<stage, doubts>>

ContractInit ==
  /\ stage  = [p \in Posts |-> "idle"]
  /\ doubts = [p \in Posts |-> 0]

\* A circuit that is open refuses a post before its first attempt
Begin(p) ==
  /\ stage[p] = "idle"
  /\ \E next \in {"trying", "refused"} : stage' = [stage EXCEPT ![p] = next]
  /\ UNCHANGED doubts

Doubt(p) ==
  /\ stage[p] = "trying"
  /\ doubts' = [doubts EXCEPT ![p] = @ + 1]
  /\ stage'  = [stage EXCEPT ![p] = IF doubts'[p] < Attempts THEN "trying" ELSE "exhausted"]

\* "unread": a 200 that cannot be decoded; "unavailable": no token to send with
Settle(p) ==
  /\ stage[p] = "trying"
  /\ \E end \in {"replied", "unread", "refused", "unavailable"} : stage' = [stage EXCEPT ![p] = end]
  /\ UNCHANGED doubts

\* A process dies with the posts it has in hand
Die ==
  /\ \E dying \in SUBSET {p \in Posts : stage[p] = "trying"} :
       stage' = [p \in Posts |-> IF p \in dying THEN "dead" ELSE stage[p]]
  /\ UNCHANGED doubts

ContractNext == Die \/ \E p \in Posts : Begin(p) \/ Doubt(p) \/ Settle(p)

ContractSpec == ContractInit /\ [][ContractNext]_contractVars
=============================================================================
