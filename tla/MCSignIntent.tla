----------------------------- MODULE MCSignIntent -----------------------------
(* Instances of SignIntent for TLC. *)
EXTENDS SignIntent, TLC

Good == [max_value |-> ReviewThreshold, chain_id |-> 1, names_wallet |-> TRUE,
         operation |-> "TransferNative", has_purpose |-> FALSE,
         payload |-> [kind |-> "Transaction", defect |-> "none", value |-> ReviewThreshold]]

\* One intent for each way through the policy and the signers, with the values
\* on both sides of each bound, and one that moves more than it declares.
AllIntents ==
  {Good,
   [Good EXCEPT !.max_value = ReviewThreshold + 1],
   [Good EXCEPT !.max_value = U128Max],
   [Good EXCEPT !.max_value = U128Max + 1],
   [Good EXCEPT !.chain_id = 0],
   [Good EXCEPT !.names_wallet = FALSE],
   [Good EXCEPT !.operation = "ContractCall"],
   [Good EXCEPT !.operation = "ContractCall", !.max_value = ReviewThreshold + 1],
   [Good EXCEPT !.operation = "ContractCall", !.has_purpose = TRUE],
   [Good EXCEPT !.payload.defect = "policy"],
   [Good EXCEPT !.payload.defect = "signer"],
   [Good EXCEPT !.payload.value = U128Max],
   [Good EXCEPT !.payload = [kind |-> "RawMessage", defect |-> "none"]]}

\* One intent for each kind of ending.
FewIntents ==
  {Good,
   [Good EXCEPT !.operation = "ContractCall"],
   [Good EXCEPT !.payload.defect = "signer"]}

AllSigners == [mode : {"local_dev", "remote_mtls"}, keyed : BOOLEAN]
                \cup {[mode |-> "mock", keyed |-> FALSE]}

RequestSymmetry == Permutations(Requests)
=============================================================================
