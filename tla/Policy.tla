-------------------------------- MODULE Policy --------------------------------
(***************************************************************************)
(* PolicyEngine::evaluate (src/src/service.rs) and what LocalDevSigner     *)
(* accepts, over an abstract sign intent: of every field only what one of  *)
(* the two looks at.                                                       *)
(***************************************************************************)
EXTENDS Naturals

CONSTANTS
  ReviewThreshold,  \* 10^16 wei in the code
  U128Max           \* the largest max_value_wei that parses, 2^128 - 1

ASSUME PolicyAssumption ==
  /\ ReviewThreshold \in Nat
  /\ U128Max \in Nat
  /\ ReviewThreshold < U128Max

OperationKind ==
  {"TransferNative", "TransferErc20", "ContractCall", "TypedData", "RawMessage"}

\* What is wrong with a payload: "policy", if evaluate rejects it (typed data
\* that does not parse or names no chainId, a transaction whose `to` is no
\* address); "signer", if only LocalDevSigner does (typed data without a digest,
\* another field of the transaction, or from_address, that does not parse).
Defect == {"none", "policy", "signer"}

\* A transaction carries the value it transfers (value_wei); nobody but the
\* signer reads it.
Payload ==
  {[kind |-> "RawMessage", defect |-> "none"]}
    \cup [kind : {"TypedData"}, defect : Defect]
    \cup [kind : {"Transaction"}, defect : Defect, value : Nat]

\* max_value stands for max_value_wei, the largest value the client says it
\* wants to move, and above U128Max for any string that is not a u128; the two
\* names and the purpose are blank or not.
Intent ==
  [max_value : Nat, chain_id : Nat, names_wallet : BOOLEAN,
   operation : OperationKind, has_purpose : BOOLEAN, payload : Payload]

\* The early returns of evaluate.
IsMalformed(i) ==
  \/ i.max_value > U128Max
  \/ i.chain_id = 0
  \/ ~i.names_wallet
  \/ i.payload.defect = "policy"

\* Fault: the threshold is off by one.
NeedsReview_Fault(i) == i.max_value > ReviewThreshold + 1

NeedsReview(i) == i.max_value > ReviewThreshold

IsUnexplainedCall(i) == i.operation = "ContractCall" /\ ~i.has_purpose

\* A large value is sent to review before the purpose of a call is looked at.
Evaluate(i) ==
  IF IsMalformed(i) THEN "BadRequest"
  ELSE IF NeedsReview(i) THEN "RequiresReview"
  ELSE IF IsUnexplainedCall(i) THEN "Denied"
  ELSE "Approved"
=============================================================================
