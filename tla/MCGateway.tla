------------------------------- MODULE MCGateway -------------------------------
(* Instances of Gateway for TLC. *)
EXTENDS Gateway

Old == [key |-> "k", secret |-> "s1"]
New == [key |-> "j", secret |-> "s2"]
BothClients == {Old, New}

Hmac == [build |-> "release", auth_mode |-> "hmac", key |-> "k", secret |-> "s1", max_skew |-> 1,
         signer_mode |-> "mock", signer_files |-> "missing", database |-> Unset]

\* Credentials that are rotated, lost or not checked; a skew that is not a
\* number, none and negative; each part that can fail to be built.
SomeEnvs ==
  {Hmac,
   [Hmac EXCEPT !.build = "dev"],
   [Hmac EXCEPT !.key = "j", !.secret = "s2", !.max_skew = Unset],
   [Hmac EXCEPT !.max_skew = 0, !.signer_mode = "local-dev"],
   [Hmac EXCEPT !.max_skew = -1, !.database = "reachable"],
   [Hmac EXCEPT !.secret = Unset],
   [Hmac EXCEPT !.key = Unset],
   [Hmac EXCEPT !.auth_mode = "hmca"],
   [Hmac EXCEPT !.database = "unreachable"],
   [Hmac EXCEPT !.signer_mode = "remote"],
   [Hmac EXCEPT !.signer_mode = "remote", !.signer_files = "readable"]}

Proof(scheme, content) ==
  [malformed |-> FALSE, expected_address |-> "a", content |-> content,
   signature |-> [by |-> "a", over |-> Digest(scheme, content)],
   encoding |-> "eip191"]

Large == Proof("eip191", "long")

SomeBodies ==
  {Proof("eip191", "x"), Proof("eip712", "x"),
   [Proof("eip191", "x") EXCEPT !.expected_address = "b"],
   [Proof("eip191", "x") EXCEPT !.malformed = TRUE],
   Large}

LargeBodies == {Large}

\* In step, ahead, behind, and half the range away; more comes with the clock.
SomeDrifts == {0, 1, -1, 2, -Half}
=============================================================================
