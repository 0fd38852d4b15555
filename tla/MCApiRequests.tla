---------------------------- MODULE MCApiRequests ----------------------------
(***************************************************************************)
(* Values of the constants for TLC: two requests, and every text of up to  *)
(* six characters for a mobile number with one digit after its 7 or 1.     *)
(***************************************************************************)
EXTENDS ApiRequests

SomeCharacters == Character \ {"1", "9"}
ShortTexts == UNION {[1 .. n -> SomeCharacters] : n \in 0 .. 6}
=============================================================================
