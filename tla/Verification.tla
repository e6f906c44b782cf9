----------------------------- MODULE Verification -----------------------------
(***************************************************************************)
(* POST /v1/evm/verify-message and verify-typed-data: verify_message and   *)
(* verify_typed_data in src/src/service.rs.                                *)
(*                                                                         *)
(* A digest is the scheme and the content it was made from.  Recovery (the *)
(* ethers library) gives the address that signed if the digest is the one  *)
(* that was signed; otherwise it fails or gives an address nobody holds.   *)
(***************************************************************************)
CONSTANT Stranger   \* an address nobody holds the key of

Digest(scheme, content) == <<scheme, content>>

Recoveries(signature, digest) ==
  IF signature.over = digest THEN {signature.by} ELSE {Stranger, "error"}

\* An error and its status code (AppError in src/src/error.rs).
Refusal(error) == [status |-> error]

\* The answer to a request: its parts parse, and the signer is recovered.
Answers(req, digest, encoding) ==
  IF req.malformed THEN {Refusal("BadRequest")}
  ELSE {IF address = "error" THEN Refusal("BadRequest")
        ELSE [status |-> "Handled", valid |-> address = req.expected_address,
              encoding |-> encoding] :
          address \in Recoveries(req.signature, digest)}

\* hash_message prefixes the text as EIP-191 asks, whatever encoding the
\* request names; the answer names it again.
VerifyMessage(req) == Answers(req, Digest("eip191", req.content), req.encoding)

\* Fault: the typed data is hashed as a text.
VerifyTypedData_HashesText(req) ==
  Answers(req, Digest("eip191", req.content), "eip712")

VerifyTypedData(req) == Answers(req, Digest("eip712", req.content), "eip712")
=============================================================================
