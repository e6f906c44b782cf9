----------------------------- MODULE MCBroadcast -----------------------------
(* Instances of Broadcast for TLC. *)
EXTENDS Broadcast, TLC

\* The ids are interchangeable in every safety property.
JobSymmetry == Permutations(Jobs)
=============================================================================
