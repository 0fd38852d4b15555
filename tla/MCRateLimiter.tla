---------------------------- MODULE MCRateLimiter ----------------------------
(***************************************************************************)
(* Values of the constants for TLC: two processes w1, w2, small limits.    *)
(***************************************************************************)
EXTENDS RateLimiter

CONSTANTS w1, w2

Limit(capacity, rate) == [capacity |-> capacity, rate |-> rate]

\* The path that initiates a payment.  Its prefix in the code lacks the leading
\* slash, so that the default limit applies to it.
StkPath   == <<"/", "api", "/", "v1", "/", "payments", "/", "stk">>
StkPrefix == <<"api", "/", "v1", "/", "payments", "/", "stk">>

\* The prefixes of the code, with small limits in their places, in thirds of a
\* token: by default a burst of two tokens and two thirds of one in a tick
SmallRouteLimits ==
  <<"api", "/", "v1", "/", "callbacks", "/">> :> Limit(6, 5)
    @@ StkPrefix :> Limit(3, 1)
    @@ <<"/", "health">> :> Limit(6, 3)
    @@ <<"/", "ready">> :> Limit(6, 3)
SmallDefault == Limit(6, 2)
Symmetry == Permutations(Processes)
=============================================================================
