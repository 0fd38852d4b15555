---------------------------- MODULE DarajaGateway ----------------------------
(***************************************************************************)
(* Safaricom's side, which is not in the repository, as the code uses it:  *)
(* an STK push that Daraja accepts gets a fresh CheckoutRequestID and puts *)
(* a PIN prompt on the customer's phone; the customer pays, declines (or   *)
(* lets the prompt time out) or cancels, once; the outcome of a checkout   *)
(* is what every callback about it reports.                                *)
(***************************************************************************)
EXTENDS PaymentStore

VARIABLES
  owner,   \* owner[c]: the call whose push was given checkout c, or Null
  prompt   \* prompt[c]: what became of the PIN prompt of checkout c

gatewayVars == <<owner, prompt>>

Outcome == {"success", "declined", "cancelled"}
Prompt  == {"unused", "prompted"} \cup Outcome

Accept(r, c) ==
  /\ prompt[c] = "unused"
  /\ owner'  = [owner  EXCEPT ![c] = r]
  /\ prompt' = [prompt EXCEPT ![c] = "prompted"]

CustomerAnswers(c, outcome) ==
  /\ prompt[c] = "prompted"
  /\ prompt' = [prompt EXCEPT ![c] = outcome]
  /\ UNCHANGED owner

GatewayInit ==
  /\ owner  = [c \in Checkouts |-> Null]
  /\ prompt = [c \in Checkouts |-> "unused"]

GatewayTypeOK ==
  /\ owner  \in [Checkouts -> Requests \cup {Null}]
  /\ prompt \in [Checkouts -> Prompt]
=============================================================================
