----------------------------- MODULE MCAuditLog -----------------------------
(***************************************************************************)
(* Transactions are interchangeable for TLC.                               *)
(***************************************************************************)
EXTENDS AuditLog

Symmetry == Permutations(Transactions)
=============================================================================
