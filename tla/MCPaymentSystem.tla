--------------------------- MODULE MCPaymentSystem ---------------------------
(***************************************************************************)
(* Values of the constants for TLC.  Calls are r1, r2, r3; keys k1, k2.    *)
(***************************************************************************)
EXTENDS PaymentInvariant, TLC

CONSTANTS r1, r2, r3, k1, k2

\* Every call carries the same key: a client that retries
OneKey == [r \in Requests |-> k1]

\* Every call has its own key
OwnKey == [r \in Requests |-> IF r = r1 THEN k1 ELSE k2]

\* Checkouts are interchangeable, and so are deliveries of one kind and runs of
\* the job
OutcomeSymmetry ==
  Permutations(Checkouts) \cup Permutations(Deliveries \ Durable)
    \cup Permutations(Durable) \cup Permutations(Jobs)

\* With OneKey, so are the calls
OneKeySymmetry == Permutations(Requests) \cup OutcomeSymmetry

\* With OwnKey, the calls may be exchanged together with their keys
SwapCalls ==
  [x \in {r1, r2, k1, k2} |->
     CASE x = r1 -> r2 [] x = r2 -> r1 [] x = k1 -> k2 [] x = k2 -> k1]
TwoCallSymmetry == {SwapCalls} \cup OutcomeSymmetry
=============================================================================
