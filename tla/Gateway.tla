-------------------------------- MODULE Gateway --------------------------------
(***************************************************************************)
(* The front of ai-wallet: start-up from an environment, the router, the   *)
(* HMAC middleware (src/src/auth.rs) and the handlers that only verify     *)
(* signatures.                                                             *)
(*                                                                         *)
(* Clients sign requests with their own clock.  A request arrives once,    *)
(* again (a retry) or late, whole or with a part changed on the way, at a  *)
(* process that may have been started anew with another environment since. *)
(* The middleware reads the whole body before it looks at the clock.       *)
(*                                                                         *)
(* Requests share nothing in this part of the program, so one at a time is *)
(* looked at.                                                              *)
(***************************************************************************)
EXTENDS HmacAuth, Startup, Verification, FiniteSets

CONSTANTS
  Envs,         \* the environments the gateway is started with
  Clients,      \* credentials clients hold: a key and a secret
  Bodies,       \* the bodies they send
  TooLarge,     \* the bodies over 1 MiB
  Drifts,       \* how far a client's clock is from the gateway's
  MaxClock,     \* bound on the clock
  MaxSent,      \* bound on the requests clients make
  MaxRestarts,  \* bound on the number of restarts explored
  None

Protected == {"verify-message", "verify-typed-data"}
Routes == Protected \cup {"info"}

\* What clients may sign.
Signatures ==
  [secret : {c.secret : c \in Clients}, text : I64 \X Routes \X Bodies]

Keys == {c.key : c \in Clients}

\* What arrives: the headers, the route and the body, in whatever state.
ArrivedRequest ==
  [key : Keys \cup {Missing}, timestamp : I64 \cup {Missing}, route : Routes,
   body : Bodies, signature : Signatures \cup {Missing}]

ASSUME GatewayAssumption ==
  /\ \A e \in Envs : /\ e.build \in {"release", "dev"}
                     /\ MaxSkew(e) \in I64
                     /\ MaxClock + MaxSkew(e) < Half
  /\ \A b \in Bodies : b.expected_address \notin {Stranger, "error"}
  /\ \A b \in Bodies : b.encoding \in {"eip191", "eip712"}
  /\ Drifts \subseteq I64
  /\ MaxClock \in Nat
  /\ MaxClock < Half
  /\ MaxSent \in Nat
  /\ MaxRestarts \in Nat
  /\ Missing \notin I64 \cup Signatures
  /\ None \notin ArrivedRequest

VARIABLES
  env,        \* the build and the environment it was last started with
  process,    \* "serving" or "failed"
  clock,      \* the gateway's
  sent,       \* the requests clients have made and signed
  request,    \* the request that is being looked at
  answer,     \* its answer; before there is one, where it stands
  judged_at,  \* the clock when it was decided
  restarts

vars == <<env, process, clock, sent, request, answer, judged_at, restarts>>

StartedWith(e) == /\ env' = e
                  /\ process' = IF Builds(e) THEN "serving" ELSE "failed"

Init ==
  /\ env \in Envs
  /\ process = IF Builds(env) THEN "serving" ELSE "failed"
  /\ clock = 0
  /\ sent = {}
  /\ request = None
  /\ answer = Refusal("none")
  /\ judged_at = 0
  /\ restarts = 0

Tick ==
  /\ clock < MaxClock
  /\ clock' = clock + 1
  /\ UNCHANGED <<env, process, sent, request, answer, judged_at, restarts>>

\* A client makes a request and signs it as the gateway will check it.
ClientSigns(client, drift, route, body) ==
  /\ Cardinality(sent) < MaxSent
  /\ LET timestamp == Wrap(clock + drift)
         text == Canonical(timestamp, route, body)
     IN  sent' = sent \cup
           {[key |-> client.key, timestamp |-> timestamp, route |-> route,
             body |-> body, signature |-> Mac(client.secret, text)]}
  /\ UNCHANGED <<env, process, clock, request, answer, judged_at, restarts>>

\* What may arrive of it: all of it, or with one part lost or changed.
Arrivals(req) ==
  {req}
    \cup {[req EXCEPT !.key = k] : k \in Keys \cup {Missing}}
    \cup {[req EXCEPT !.timestamp = t] :
            t \in {Wrap(req.timestamp + d) : d \in Drifts} \cup {Missing}}
    \cup {[req EXCEPT !.route = r] : r \in Routes}
    \cup {[req EXCEPT !.body = b] : b \in Bodies}
    \cup {[req EXCEPT !.signature = Missing]}

Arrive(req) ==
  /\ process = "serving"
  /\ answer.status # "reading"
  /\ request' = req
  /\ answer' = Refusal("reading")
  /\ UNCHANGED <<env, process, clock, sent, judged_at, restarts>>

\* The handlers behind the router.
Handlers(req) ==
  CASE req.route = "info" -> {Info(env)}
    [] req.route = "verify-message" -> VerifyMessage(req.body)
    [] req.route = "verify-typed-data" -> VerifyTypedData(req.body)

\* auth_middleware around the protected routes: to_bytes, verify, next.run.
Outcomes(req) ==
  IF req.route \notin Protected \/ AuthMode(env) = "disabled" THEN Handlers(req)
  ELSE IF req.body \in TooLarge THEN {Refusal("BadRequest")}
  ELSE IF Verify(ApiAuth(env), clock, req) = "Ok" THEN Handlers(req)
  ELSE {Refusal(Verify(ApiAuth(env), clock, req))}

Decide ==
  /\ answer.status = "reading"
  /\ answer' \in Outcomes(request)
  /\ judged_at' = clock
  /\ UNCHANGED <<env, process, clock, sent, request, restarts>>

\* The process ends and is started with an environment that may have changed:
\* new credentials, another mode, a database that does not answer.
Restart ==
  /\ restarts < MaxRestarts
  /\ restarts' = restarts + 1
  /\ \E e \in Envs : StartedWith(e)
  /\ request' = None
  /\ answer' = Refusal("none")
  /\ judged_at' = 0
  /\ UNCHANGED <<clock, sent>>

Next ==
  \/ Tick
  \/ \E client \in Clients, drift \in Drifts, route \in Routes, body \in Bodies :
       ClientSigns(client, drift, route, body)
  \/ \E req \in sent : \E arrival \in Arrivals(req) : Arrive(arrival)
  \/ Decide
  \/ Restart

Spec == Init /\ [][Next]_vars

-----------------------------------------------------------------------------
(* Properties                                                              *)

Handled == answer.status = "Handled"

\* Every variable holds a value of its kind; a gateway that was asked for hmac
\* serves with a key and a secret.
TypeOK ==
  /\ env \in Envs
  /\ process \in {"serving", "failed"}
  /\ process = "serving" /\ env.auth_mode = "hmac" =>
       env.key # Unset /\ env.secret # Unset
  /\ clock \in 0..MaxClock
  /\ Cardinality(sent) <= MaxSent
  /\ request = None <=> answer.status = "none"
  /\ answer \in {Info(env)}
       \cup [status : {"none", "reading", "Unauthorized", "Panic", "BadRequest"}]
       \cup [status : {"Handled"}, valid : BOOLEAN, encoding : {"eip191", "eip712"}]
  /\ judged_at \in 0..clock
  /\ restarts \in 0..MaxRestarts

\* An operator who asks for hmac gets a gateway that lets a protected handler
\* run only for a request that a client with the secret of this environment has
\* made: this route and this body, at a time that is within the skew of the
\* gateway's clock.  The one other timestamp that passes is 2^63 seconds back,
\* where i64::abs wraps in a release build.
HandledIsAuthentic ==
  env.auth_mode = "hmac" /\ Handled =>
    /\ \E req \in sent :
         /\ req.signature.secret = env.secret
         /\ <<req.timestamp, req.route, req.body>>
              = <<request.timestamp, request.route, request.body>>
    /\ \/ Magnitude(judged_at - request.timestamp) <= MaxSkew(env)
       \/ env.build = "release" /\ request.timestamp = judged_at - Half

\* A request that arrives as it was signed, in time by the gateway's clock, with
\* the credentials of this environment and a body it reads, is never refused by
\* the middleware.
HonestIsServed ==
  /\ answer.status \in {"Unauthorized", "Panic"}
  /\ request \in sent
  /\ request.key = env.key
  /\ request.signature.secret = env.secret
  => Magnitude(judged_at - request.timestamp) > MaxSkew(env)

\* A proof is called valid only if the expected address has signed this content
\* under the scheme of this route: a signature over a text is no signature over
\* typed data that reads the same, nor the other way round.
ProofsAreToldApart ==
  Handled /\ answer.valid =>
    /\ request.body.signature.by = request.body.expected_address
    /\ request.body.signature.over =
         Digest(IF request.route = "verify-message" THEN "eip191" ELSE "eip712",
                request.body.content)
=============================================================================
