------------------------------- MODULE HmacAuth -------------------------------
(***************************************************************************)
(* The check of a signed request: HmacAuthVerifier::verify in              *)
(* src/src/auth.rs, with the arithmetic of i64 on the two clocks.          *)
(*                                                                         *)
(* HMAC-SHA256 is taken to be a constructor without collisions, so a       *)
(* signature is the secret and the text it was made from.                  *)
(***************************************************************************)
EXTENDS Integers

CONSTANTS
  Half,     \* 2^63: an i64 goes from -Half to Half - 1
  Missing   \* a header that is absent or not text, a timestamp not an i64

ASSUME HmacAuthAssumption == Half \in Nat \ {0}

I64 == (-Half)..(Half - 1)

\* The value an i64 holds after one operation on two of them, in a build
\* without overflow checks (release).
Wrap(x) ==
  IF x >= Half THEN x - 2 * Half
  ELSE IF x < -Half THEN x + 2 * Half
  ELSE x

Magnitude(x) == IF x < 0 THEN -x ELSE x

\* (now - timestamp).abs(): the difference and the absolute value may both
\* leave the range.
Age(now, timestamp) == Wrap(Magnitude(Wrap(now - timestamp)))

\* A build with overflow checks panics in the middle of that expression.
Overflows(now, timestamp) ==
  \/ now - timestamp \notin I64
  \/ Magnitude(now - timestamp) \notin I64

\* Fault: a clock that is ahead of ours is taken for a stale request.
IsStale_PastOnly(now, timestamp, max_skew) ==
  now - timestamp > max_skew \/ timestamp > now

IsStale(now, timestamp, max_skew) == Age(now, timestamp) > max_skew

\* Fault: the body is left out of the text.
Canonical_NoBody(timestamp, route, body) == <<timestamp, route>>

\* The signed text has the timestamp as it was parsed, the method and the path
\* (a route here) and the body; the query string is not in it.
Canonical(timestamp, route, body) == <<timestamp, route, body>>

Mac(secret, text) == [secret |-> secret, text |-> text]

\* The headers that verify reads before it looks at the clock.
HeadersOk(auth, req) ==
  /\ req.key = auth.key
  /\ req.timestamp # Missing
  /\ req.signature # Missing

Verify(auth, now, req) ==
  IF ~HeadersOk(auth, req) THEN "Unauthorized"
  ELSE IF auth.checks_overflow /\ Overflows(now, req.timestamp) THEN "Panic"
  ELSE IF IsStale(now, req.timestamp, auth.max_skew) THEN "Unauthorized"
  ELSE IF req.signature
            # Mac(auth.secret, Canonical(req.timestamp, req.route, req.body))
  THEN "Unauthorized"
  ELSE "Ok"
=============================================================================
