--------------------------- MODULE MCDarajaClient ---------------------------
(***************************************************************************)
(* Values of the constants for TLC: posts p1, p2, p3 in processes a and w. *)
(***************************************************************************)
EXTENDS DarajaClient

CONSTANTS p1, p2, p3, a, w

\* The first two posts share a process; the third has one of its own
TwoAndOne == [p \in Posts |-> IF p = p3 THEN w ELSE a]
=============================================================================
