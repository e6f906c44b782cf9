------------------------------ MODULE MCAuditLog ------------------------------
(* Instances of AuditLog for TLC. *)
EXTENDS AuditLog, TLC

\* The calls are interchangeable in every safety property.
CallSymmetry == Permutations(Calls)
=============================================================================
