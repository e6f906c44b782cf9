---------------------------- MODULE Gateway_proofs ----------------------------
(***************************************************************************)
(* Theorems about the front of the gateway: the window of the freshness    *)
(* check for any width of the integers, and what a protected handler was   *)
(* given to see, for any environments, clients, bodies and clocks.         *)
(***************************************************************************)
EXTENDS Gateway, FiniteSetTheorems, TLAPS

\* The window of the freshness check (auth.rs: (now - timestamp).abs() >
\* max_skew_seconds) in a build that wraps: the timestamps within the skew, and
\* the one 2^63 seconds back, whose distance wraps to a negative number.
THEOREM FreshnessWindow ==
  ASSUME NEW now \in Nat, NEW timestamp \in I64, NEW max_skew \in I64,
         now < Half, now + max_skew < Half
  PROVE  ~IsStale(now, timestamp, max_skew) <=>
           \/ Magnitude(now - timestamp) <= max_skew
           \/ timestamp = now - Half
<1> USE HmacAuthAssumption DEF I64
<1>1. CASE now - timestamp < Half
  <2>1. Magnitude(now - timestamp) \in 0..(Half - 1)
    BY <1>1 DEF Magnitude
  <2>2. Wrap(now - timestamp) = now - timestamp
    BY <1>1 DEF Wrap
  <2>3. Age(now, timestamp) = Magnitude(now - timestamp)
    BY <2>1, <2>2 DEF Age, Wrap
  <2> QED
    BY <1>1, <2>1, <2>3 DEF IsStale
<1>2. CASE now - timestamp = Half
  <2>1. Wrap(now - timestamp) = -Half
    BY <1>2 DEF Wrap
  <2>2. Age(now, timestamp) = -Half
    BY <2>1 DEF Age, Magnitude, Wrap
  <2> QED
    BY <1>2, <2>2 DEF IsStale
<1>3. CASE now - timestamp > Half
  <2>1. Wrap(now - timestamp) = now - timestamp - 2 * Half
    BY <1>3 DEF Wrap
  <2>2. Age(now, timestamp) = 2 * Half - (now - timestamp)
    BY <1>3, <2>1 DEF Age, Magnitude, Wrap
  <2>3. Magnitude(now - timestamp) \in Int /\ Magnitude(now - timestamp) > max_skew
    BY <1>3 DEF Magnitude
  <2> QED
    BY <1>3, <2>2, <2>3 DEF IsStale
<1> QED
  BY <1>1, <1>2, <1>3

\* A build with overflow checks panics exactly for the timestamps that are 2^63
\* seconds back or more: those a wrapping build takes for fresh, or for newer
\* than they are.
THEOREM OverflowsFarInThePast ==
  ASSUME NEW now \in Nat, NEW timestamp \in I64, now < Half
  PROVE  Overflows(now, timestamp) <=> timestamp <= now - Half
BY HmacAuthAssumption DEF Overflows, Magnitude, I64

-----------------------------------------------------------------------------
(* What is on its way                                                      *)

MadeRequest ==
  [key : Keys, timestamp : I64, route : Routes, body : Bodies,
   signature : Signatures]

\* Clients sign what they send.
SentIsSigned ==
  /\ sent \subseteq MadeRequest
  /\ \A req \in sent : req.signature.text = <<req.timestamp, req.route, req.body>>

\* A signature that arrives is one that a client has made.
ArrivedWasSigned ==
  answer.status # "none" =>
    /\ request \in ArrivedRequest
    /\ \/ request.signature = Missing
       \/ \E req \in sent : req.signature = request.signature

Clocks == clock \in 0..MaxClock /\ judged_at \in 0..clock

IInv == env \in Envs /\ Clocks /\ SentIsSigned /\ ArrivedWasSigned

\* An i64 holds what one operation on two of them leaves.
LEMMA WrapIsI64 ==
  ASSUME NEW a \in I64, NEW b \in I64
  PROVE  Wrap(a + b) \in I64
BY HmacAuthAssumption DEF Wrap, I64

\* Whatever happens to a request on its way, its signature stays or is lost.
LEMMA ArrivalKeeps ==
  ASSUME NEW req \in MadeRequest, NEW arrival \in Arrivals(req)
  PROVE  /\ arrival \in ArrivedRequest
         /\ arrival.signature \in {req.signature, Missing}
<1>1. CASE arrival = req
  BY <1>1 DEF MadeRequest, ArrivedRequest
<1>2. ASSUME NEW k \in Keys \cup {Missing}, arrival = [req EXCEPT !.key = k]
      PROVE  /\ arrival \in ArrivedRequest
             /\ arrival.signature \in {req.signature, Missing}
  BY <1>2 DEF MadeRequest, ArrivedRequest
<1>3. ASSUME NEW t \in I64 \cup {Missing}, arrival = [req EXCEPT !.timestamp = t]
      PROVE  /\ arrival \in ArrivedRequest
             /\ arrival.signature \in {req.signature, Missing}
  BY <1>3 DEF MadeRequest, ArrivedRequest
<1>4. ASSUME NEW r \in Routes, arrival = [req EXCEPT !.route = r]
      PROVE  /\ arrival \in ArrivedRequest
             /\ arrival.signature \in {req.signature, Missing}
  BY <1>4 DEF MadeRequest, ArrivedRequest
<1>5. ASSUME NEW b \in Bodies, arrival = [req EXCEPT !.body = b]
      PROVE  /\ arrival \in ArrivedRequest
             /\ arrival.signature \in {req.signature, Missing}
  BY <1>5 DEF MadeRequest, ArrivedRequest
<1>6. CASE arrival = [req EXCEPT !.signature = Missing]
  BY <1>6 DEF MadeRequest, ArrivedRequest
<1>7. {Wrap(req.timestamp + d) : d \in Drifts} \subseteq I64
  <2>1. req.timestamp \in I64 /\ Drifts \subseteq I64
    BY GatewayAssumption DEF MadeRequest
  <2> QED
    BY <2>1, WrapIsI64
<1> QED
  BY <1>1, <1>2, <1>3, <1>4, <1>5, <1>6, <1>7 DEF Arrivals, Keys

\* The invariant holds at the start and every step keeps it.
LEMMA InvariantHolds == Spec => []IInv
<1>1. Init => IInv
  BY GatewayAssumption, HmacAuthAssumption
     DEF Init, IInv, Clocks, SentIsSigned, ArrivedWasSigned, Refusal
<1>2. IInv /\ [Next]_vars => IInv'
  <2> SUFFICES ASSUME IInv, [Next]_vars
               PROVE  IInv'
    OBVIOUS
  <2>1. CASE Tick
    BY <2>1, GatewayAssumption
       DEF Tick, IInv, Clocks, SentIsSigned, ArrivedWasSigned
  <2>2. ASSUME NEW c \in Clients, NEW d \in Drifts, NEW r \in Routes, NEW b \in Bodies,
               ClientSigns(c, d, r, b)
        PROVE  IInv'
    <3> DEFINE t == Wrap(clock + d)
               made == [key |-> c.key, timestamp |-> t, route |-> r, body |-> b,
                        signature |-> Mac(c.secret, Canonical(t, r, b))]
    <3>1. t \in I64
      <4>1. clock \in I64 /\ d \in I64
        BY GatewayAssumption, HmacAuthAssumption DEF IInv, Clocks, I64
      <4> QED
        BY <4>1, WrapIsI64
    <3>2. sent' = sent \cup {made}
      BY <2>2 DEF ClientSigns
    <3>3. made \in MadeRequest /\ made.signature.text = <<made.timestamp, made.route, made.body>>
      <4> HIDE DEF t
      <4> QED
        BY <3>1 DEF MadeRequest, Keys, Signatures, Mac, Canonical
    <3>4. SentIsSigned'
      BY <3>2, <3>3 DEF IInv, SentIsSigned
    <3>5. /\ ArrivedWasSigned' /\ env' \in Envs /\ Clocks'
      <4> HIDE DEF made
      <4> QED
        BY <2>2, <3>2 DEF ClientSigns, IInv, ArrivedWasSigned, Clocks
    <3> QED
      BY <3>4, <3>5 DEF IInv
  <2>3. ASSUME NEW req \in sent, NEW arrival \in Arrivals(req), Arrive(arrival)
        PROVE  IInv'
    <3>1. /\ arrival \in ArrivedRequest
          /\ arrival.signature \in {req.signature, Missing}
      BY <2>3, ArrivalKeeps DEF IInv, SentIsSigned
    <3> QED
      BY <2>3, <3>1 DEF Arrive, IInv, Clocks, SentIsSigned, ArrivedWasSigned
  <2>4. CASE Decide
    BY <2>4, GatewayAssumption
       DEF Decide, IInv, Clocks, SentIsSigned, ArrivedWasSigned
  <2>5. CASE Restart
    BY <2>5, GatewayAssumption
       DEF Restart, StartedWith, IInv, Clocks, SentIsSigned, ArrivedWasSigned, Refusal
  <2>6. CASE UNCHANGED vars
    BY <2>6 DEF vars, IInv, Clocks, SentIsSigned, ArrivedWasSigned
  <2> QED
    BY <2>1, <2>2, <2>3, <2>4, <2>5, <2>6 DEF Next
<1> QED
  BY <1>1, <1>2, PTL DEF Spec

-----------------------------------------------------------------------------
(* What is decided                                                         *)

\* The middleware runs the handler of a protected route only if it verified the
\* request, or was told not to.
LEMMA HandledMeansVerified ==
  ASSUME IInv, Decide, Handled'
  PROVE  /\ request.route \in Protected
         /\ answer' \in Handlers(request)
         /\ \/ AuthMode(env) = "disabled"
            \/ Verify(ApiAuth(env), clock, request) = "Ok"
<1>1. answer' \in Outcomes(request) /\ answer'.status = "Handled"
  BY DEF Decide, Handled
<1>2. Info(env).status # "Handled"
  BY DEF Info
<1>3. Verify(ApiAuth(env), clock, request)
        \in {"Ok", "Unauthorized", "Panic"}
  BY DEF Verify
<1>4. Refusal("BadRequest").status # "Handled"
      /\ Refusal(Verify(ApiAuth(env), clock, request)).status # "Handled"
  BY <1>3 DEF Refusal
<1>5. answer' \in Handlers(request)
      /\ (\/ request.route \notin Protected
          \/ AuthMode(env) = "disabled"
          \/ Verify(ApiAuth(env), clock, request) = "Ok")
  BY <1>1, <1>4 DEF Outcomes
<1>6. request.route \in Protected
  <2>1. answer' # Info(env)
    BY <1>1, <1>2
  <2>2. request.route \in Routes
    BY DEF IInv, ArrivedWasSigned, ArrivedRequest, Decide
  <2> QED
    BY <1>5, <2>1, <2>2 DEF Handlers, Routes
<1> QED
  BY <1>5, <1>6

\* Verify says Ok to a request that a client has signed with the secret it was
\* given, at a time in the window of the clock.
LEMMA VerifiedIsAuthentic ==
  ASSUME IInv, Decide, Verify(ApiAuth(env), clock, request) = "Ok"
  PROVE  /\ \E req \in sent :
              /\ req.signature.secret = env.secret
              /\ <<req.timestamp, req.route, req.body>>
                   = <<request.timestamp, request.route, request.body>>
         /\ \/ Magnitude(clock - request.timestamp) <= MaxSkew(env)
            \/ env.build = "release" /\ request.timestamp = clock - Half
<1> DEFINE auth == ApiAuth(env)
<1>1. /\ HeadersOk(auth, request)
      /\ ~(auth.checks_overflow /\ Overflows(clock, request.timestamp))
      /\ ~IsStale(clock, request.timestamp, auth.max_skew)
      /\ request.signature
           = Mac(auth.secret, Canonical(request.timestamp, request.route, request.body))
  BY DEF Verify
<1>2. /\ request \in ArrivedRequest
      /\ request.timestamp \in I64
      /\ request.signature # Missing
  BY <1>1 DEF HeadersOk, IInv, ArrivedWasSigned, ArrivedRequest, Decide
<1>3. PICK req \in sent : req.signature = request.signature
  BY <1>2 DEF IInv, ArrivedWasSigned, Decide
<1>4. /\ req.signature.secret = env.secret
      /\ req.signature.text = <<request.timestamp, request.route, request.body>>
  BY <1>1, <1>3 DEF Mac, Canonical, ApiAuth
<1>5. <<req.timestamp, req.route, req.body>>
        = <<request.timestamp, request.route, request.body>>
  BY <1>4 DEF IInv, SentIsSigned
<1>6. /\ clock \in Nat /\ clock < Half
      /\ MaxSkew(env) \in I64 /\ clock + MaxSkew(env) < Half
      /\ env.build \in {"release", "dev"}
  BY GatewayAssumption, HmacAuthAssumption DEF IInv, Clocks, I64
<1>7. \/ Magnitude(clock - request.timestamp) <= MaxSkew(env)
      \/ request.timestamp = clock - Half
  BY <1>1, <1>2, <1>6, FreshnessWindow DEF ApiAuth
<1>8. env.build = "dev" => request.timestamp # clock - Half
  <2>1. env.build = "dev" => ~Overflows(clock, request.timestamp)
    BY <1>1 DEF ApiAuth
  <2>2. request.timestamp = clock - Half => Overflows(clock, request.timestamp)
    BY <1>2, <1>6, HmacAuthAssumption, OverflowsFarInThePast DEF I64
  <2> QED
    BY <2>1, <2>2
<1> QED
  BY <1>4, <1>5, <1>6, <1>7, <1>8

-----------------------------------------------------------------------------
(* The theorems                                                            *)

\* Under hmac a protected handler sees only what a client with the secret has
\* signed, in the window of the gateway's clock, whatever was changed, repeated
\* or late on the way and whatever the process was started with.
THEOREM OnlyAuthenticIsHandled == Spec => []HandledIsAuthentic
<1>1. Init => HandledIsAuthentic
  BY DEF Init, HandledIsAuthentic, Handled, Refusal
<1>2. IInv /\ HandledIsAuthentic /\ [Next]_vars => HandledIsAuthentic'
  <2> SUFFICES ASSUME IInv, HandledIsAuthentic, [Next]_vars
               PROVE  HandledIsAuthentic'
    OBVIOUS
  <2>1. CASE Tick
    BY <2>1 DEF Tick, HandledIsAuthentic, Handled
  <2>2. ASSUME NEW c \in Clients, NEW d \in Drifts, NEW r \in Routes, NEW b \in Bodies,
               ClientSigns(c, d, r, b)
        PROVE  HandledIsAuthentic'
    <3>1. sent \subseteq sent' /\ UNCHANGED <<env, request, answer, judged_at>>
      BY <2>2 DEF ClientSigns
    <3> QED
      BY <3>1 DEF HandledIsAuthentic, Handled
  <2>3. ASSUME NEW arrival, Arrive(arrival)
        PROVE  HandledIsAuthentic'
    BY <2>3 DEF Arrive, HandledIsAuthentic, Handled, Refusal
  <2>4. CASE Decide
    <3> SUFFICES ASSUME env.auth_mode = "hmac", Handled'
                 PROVE  HandledIsAuthentic'
      BY <2>4 DEF Decide, HandledIsAuthentic
    <3>1. Verify(ApiAuth(env), clock, request) = "Ok"
      BY <2>4, HandledMeansVerified DEF AuthMode
    <3>2. /\ UNCHANGED <<env, sent, request>>
          /\ judged_at' = clock
      BY <2>4 DEF Decide
    <3> QED
      BY <2>4, <3>1, <3>2, VerifiedIsAuthentic DEF HandledIsAuthentic, MaxSkew
  <2>5. CASE Restart
    BY <2>5 DEF Restart, HandledIsAuthentic, Handled, Refusal
  <2>6. CASE UNCHANGED vars
    BY <2>6 DEF vars, HandledIsAuthentic, Handled
  <2> QED
    BY <2>1, <2>2, <2>3, <2>4, <2>5, <2>6 DEF Next
<1> QED
  BY <1>1, <1>2, InvariantHolds, PTL DEF Spec

\* The answers of the handlers are not those of the middleware.
LEMMA HandlerAnswers ==
  ASSUME NEW req, req.route \in Routes, NEW a \in Handlers(req)
  PROVE  a.status \in {"Info", "BadRequest", "Handled"}
<1>1. ASSUME NEW digest, NEW encoding, a \in Answers(req.body, digest, encoding)
      PROVE  a.status \in {"BadRequest", "Handled"}
  BY <1>1 DEF Answers, Refusal
<1>2. CASE req.route = "info"
  BY <1>2 DEF Handlers, Info
<1>3. CASE req.route = "verify-message"
  BY <1>1, <1>3 DEF Handlers, VerifyMessage
<1>4. CASE req.route = "verify-typed-data"
  BY <1>1, <1>4 DEF Handlers, VerifyTypedData
<1> QED
  BY <1>2, <1>3, <1>4 DEF Routes, Protected

\* As the running gateway would have it signed.
WellSigned(req) ==
  /\ req.key = env.key
  /\ req.timestamp \in I64
  /\ req.signature # Missing
  /\ req.signature
       = Mac(env.secret, Canonical(req.timestamp, req.route, req.body))

RefusedIsLate ==
  answer.status \in {"Unauthorized", "Panic"} /\ WellSigned(request) =>
    Magnitude(judged_at - request.timestamp) > MaxSkew(env)

\* A well signed request is refused only for its timestamp.
LEMMA RefusedForTime ==
  ASSUME IInv, Decide, answer'.status \in {"Unauthorized", "Panic"},
         WellSigned(request)
  PROVE  Magnitude(clock - request.timestamp) > MaxSkew(env)
<1> DEFINE verdict == Verify(ApiAuth(env), clock, request)
<1>1. request.route \in Routes
  BY DEF IInv, ArrivedWasSigned, ArrivedRequest, Decide
<1>2. answer' \in Outcomes(request) /\ answer' \notin Handlers(request)
  BY <1>1, HandlerAnswers DEF Decide
<1>3. answer' = Refusal(verdict) /\ verdict # "Ok"
  BY <1>2 DEF Outcomes, Refusal
<1>4. /\ clock \in Nat /\ clock < Half
      /\ MaxSkew(env) \in I64 /\ clock + MaxSkew(env) < Half
      /\ request.timestamp \in I64
  BY GatewayAssumption, HmacAuthAssumption DEF IInv, Clocks, I64, WellSigned
<1>5. HeadersOk(ApiAuth(env), request)
  BY GatewayAssumption DEF HeadersOk, WellSigned, ApiAuth
<1>6. \/ Overflows(clock, request.timestamp)
      \/ IsStale(clock, request.timestamp, MaxSkew(env))
  BY <1>3, <1>5 DEF Verify, WellSigned, ApiAuth
<1>7. CASE Overflows(clock, request.timestamp)
  <2>1. request.timestamp <= clock - Half
    BY <1>4, <1>7, OverflowsFarInThePast
  <2> QED
    BY <1>4, <2>1, HmacAuthAssumption DEF Magnitude, I64
<1>8. CASE IsStale(clock, request.timestamp, MaxSkew(env))
  <2>1. ~(Magnitude(clock - request.timestamp) <= MaxSkew(env))
    BY <1>4, <1>8, FreshnessWindow
  <2>2. Magnitude(clock - request.timestamp) \in Int /\ MaxSkew(env) \in Int
    BY <1>4, HmacAuthAssumption DEF Magnitude, I64
  <2> QED
    BY <2>1, <2>2
<1> QED
  BY <1>6, <1>7, <1>8

\* A request that arrives as a client with the running credentials signed it,
\* in the window of the gateway's clock, is never refused by the middleware.
THEOREM HonestNeverRefused == Spec => []HonestIsServed
<1>1. Init => RefusedIsLate
  BY DEF Init, RefusedIsLate, Refusal
<1>2. IInv /\ RefusedIsLate /\ [Next]_vars => RefusedIsLate'
  <2> SUFFICES ASSUME IInv, RefusedIsLate, [Next]_vars
               PROVE  RefusedIsLate'
    OBVIOUS
  <2>1. CASE UNCHANGED <<env, request, answer, judged_at>>
    BY <2>1 DEF RefusedIsLate, WellSigned
  <2>2. ASSUME NEW arrival, Arrive(arrival)
        PROVE  RefusedIsLate'
    BY <2>2 DEF Arrive, RefusedIsLate, Refusal
  <2>3. CASE Decide
    <3>1. UNCHANGED <<env, request>> /\ judged_at' = clock
      BY <2>3 DEF Decide
    <3>2. WellSigned(request)' <=> WellSigned(request)
      BY <3>1 DEF WellSigned
    <3> QED
      BY <2>3, <3>1, <3>2, RefusedForTime DEF RefusedIsLate, MaxSkew
  <2>4. CASE Restart
    BY <2>4 DEF Restart, RefusedIsLate, Refusal
  <2> QED
    BY <2>1, <2>2, <2>3, <2>4 DEF Next, Tick, ClientSigns, vars
<1>3. IInv /\ RefusedIsLate => HonestIsServed
  <2> SUFFICES ASSUME IInv, RefusedIsLate,
                      answer.status \in {"Unauthorized", "Panic"},
                      request \in sent, request.key = env.key,
                      request.signature.secret = env.secret
               PROVE  Magnitude(judged_at - request.timestamp) > MaxSkew(env)
    BY DEF HonestIsServed
  <2>1. /\ request \in MadeRequest
        /\ request.signature.text
             = <<request.timestamp, request.route, request.body>>
    BY DEF IInv, SentIsSigned
  <2>2. request.timestamp \in I64 /\ request.signature \in Signatures
    BY <2>1 DEF MadeRequest
  <2>3. request.signature
          = [secret |-> request.signature.secret, text |-> request.signature.text]
    BY <2>2 DEF Signatures
  <2>4. WellSigned(request)
    BY <2>1, <2>2, <2>3, GatewayAssumption DEF WellSigned, Mac, Canonical
  <2> QED
    BY <2>4 DEF RefusedIsLate
<1> QED
  BY <1>1, <1>2, <1>3, InvariantHolds, PTL DEF Spec

\* A signature counts as valid only for the content and the scheme it was made
\* for, and only as the expected address's.
THEOREM ProofsToldApart == Spec => []ProofsAreToldApart
<1>1. Init => ProofsAreToldApart
  BY DEF Init, ProofsAreToldApart, Handled, Refusal
<1>2. IInv /\ ProofsAreToldApart /\ [Next]_vars => ProofsAreToldApart'
  <2> SUFFICES ASSUME IInv, ProofsAreToldApart, [Next]_vars
               PROVE  ProofsAreToldApart'
    OBVIOUS
  <2>1. CASE UNCHANGED <<request, answer>>
    BY <2>1 DEF ProofsAreToldApart, Handled
  <2>2. ASSUME NEW arrival, Arrive(arrival)
        PROVE  ProofsAreToldApart'
    BY <2>2 DEF Arrive, ProofsAreToldApart, Handled, Refusal
  <2>3. CASE Decide
    <3> SUFFICES ASSUME Handled', answer'.valid
                 PROVE  ProofsAreToldApart'
      BY DEF ProofsAreToldApart
    <3>1. request.route \in Protected /\ answer' \in Handlers(request)
      BY <2>3, HandledMeansVerified
    <3>2. request.body \in Bodies /\ request' = request
      BY <2>3 DEF IInv, ArrivedWasSigned, ArrivedRequest, Decide
    <3>3. ASSUME NEW digest, NEW encoding,
                 answer' \in Answers(request.body, digest, encoding)
          PROVE  /\ request.body.signature.by = request.body.expected_address
                 /\ request.body.signature.over = digest
      <4>1. answer' # Refusal("BadRequest")
        BY DEF Handled, Refusal
      <4>2. PICK address \in Recoveries(request.body.signature, digest) :
              /\ address # "error"
              /\ answer' = [status |-> "Handled",
                            valid |-> address = request.body.expected_address,
                            encoding |-> encoding]
        BY <3>3, <4>1 DEF Answers
      <4>3. address = request.body.expected_address
        BY <4>2
      <4>4. request.body.expected_address \notin {Stranger, "error"}
        BY <3>2, GatewayAssumption
      <4> QED
        BY <4>2, <4>3, <4>4 DEF Recoveries
    <3>4. CASE request.route = "verify-message"
      <4>1. answer' \in VerifyMessage(request.body)
        BY <3>1, <3>4 DEF Handlers
      <4> QED
        BY <3>2, <3>3, <3>4, <4>1 DEF VerifyMessage, ProofsAreToldApart
    <3>5. CASE request.route = "verify-typed-data"
      <4>1. answer' \in VerifyTypedData(request.body)
        BY <3>1, <3>5 DEF Handlers
      <4> QED
        BY <3>2, <3>3, <3>5, <4>1 DEF VerifyTypedData, ProofsAreToldApart
    <3> QED
      BY <3>1, <3>4, <3>5 DEF Protected
  <2>4. CASE Restart
    BY <2>4 DEF Restart, ProofsAreToldApart, Handled, Refusal
  <2> QED
    BY <2>1, <2>2, <2>3, <2>4 DEF Next, Tick, ClientSigns, vars
<1> QED
  BY <1>1, <1>2, InvariantHolds, PTL DEF Spec

-----------------------------------------------------------------------------
(* Types                                                                   *)

\* An answer that verifies nothing, and one that does.
Plain == [status : {"none", "reading", "Unauthorized", "Panic", "BadRequest"}]
Verdict == [status : {"Handled"}, valid : BOOLEAN, encoding : {"eip191", "eip712"}]

\* Where the process stands, apart from its clock and its requests.
Process ==
  /\ process \in {"serving", "failed"}
  /\ process = "serving" /\ env.auth_mode = "hmac" =>
       env.key # Unset /\ env.secret # Unset
  /\ restarts \in 0..MaxRestarts

\* The requests clients have made are finitely many, and counted.
Counted == IsFiniteSet(sent) /\ Cardinality(sent) <= MaxSent

\* What was asked and what was answered fit each other.
AnswerFits ==
  /\ request = None <=> answer.status = "none"
  /\ answer \in {Info(env)} \cup Plain \cup Verdict

\* What the handlers and the middleware may answer to a request.
LEMMA OutcomeTypes ==
  ASSUME NEW req \in ArrivedRequest, NEW a \in Outcomes(req)
  PROVE  /\ a \in {Info(env)} \cup Plain \cup Verdict
         /\ a.status # "none"
<1>1. Refusal("BadRequest") \in Plain /\ Refusal("BadRequest").status # "none"
  BY DEF Refusal, Plain
<1>2. ASSUME NEW digest, NEW encoding \in {"eip191", "eip712"},
             a \in Answers(req.body, digest, encoding)
      PROVE  a \in Plain \cup Verdict /\ a.status # "none"
  <2>1. CASE a = Refusal("BadRequest")
    BY <1>1, <2>1
  <2>2. CASE a # Refusal("BadRequest")
    <3>1. PICK address :
            a = [status |-> "Handled", valid |-> address = req.body.expected_address,
                 encoding |-> encoding]
      BY <1>2, <2>2 DEF Answers
    <3>2. (address = req.body.expected_address) \in BOOLEAN
      OBVIOUS
    <3> QED
      BY <1>2, <3>1, <3>2 DEF Verdict
  <2> QED
    BY <2>1, <2>2
<1>3. ASSUME a \in Handlers(req)
      PROVE  a \in {Info(env)} \cup Plain \cup Verdict /\ a.status # "none"
  <2>1. req.route \in Routes /\ req.body.encoding \in {"eip191", "eip712"}
    BY GatewayAssumption DEF ArrivedRequest
  <2>2. CASE req.route = "info"
    BY <1>3, <2>2 DEF Handlers, Info
  <2>3. CASE req.route = "verify-message"
    BY <1>2, <1>3, <2>1, <2>3 DEF Handlers, VerifyMessage
  <2>4. CASE req.route = "verify-typed-data"
    BY <1>2, <1>3, <2>4 DEF Handlers, VerifyTypedData
  <2> QED
    BY <2>1, <2>2, <2>3, <2>4 DEF Routes, Protected
<1>4. ASSUME NEW error \in {"Unauthorized", "Panic"}
      PROVE  Refusal(error) \in Plain /\ Refusal(error).status # "none"
  BY DEF Refusal, Plain
<1>5. Verify(ApiAuth(env), clock, req) \in {"Ok", "Unauthorized", "Panic"}
  BY DEF Verify
<1> QED
  BY <1>1, <1>3, <1>4, <1>5 DEF Outcomes

\* Every variable keeps a value of its kind; a gateway that was asked for hmac
\* serves with a key and a secret, after any restart.
THEOREM TypeCorrect == Spec => []TypeOK
<1> DEFINE Inv == Process /\ Counted /\ AnswerFits
<1>1. Init => Inv
  <2>1. Init => Process
    BY GatewayAssumption DEF Init, Process, Builds, AuthBuilds, AuthMode
  <2>2. Init => Counted
    BY FS_EmptySet, GatewayAssumption DEF Init, Counted
  <2>3. Init => AnswerFits
    BY DEF Init, AnswerFits, Refusal, Plain
  <2> QED
    BY <2>1, <2>2, <2>3
<1>2. IInv /\ Inv /\ [Next]_vars => Inv'
  <2> SUFFICES ASSUME IInv, Inv, [Next]_vars
               PROVE  Inv'
    OBVIOUS
  <2>1. CASE Tick
    BY <2>1 DEF Tick, Process, Counted, AnswerFits
  <2>2. ASSUME NEW c \in Clients, NEW d \in Drifts, NEW r \in Routes, NEW b \in Bodies,
               ClientSigns(c, d, r, b)
        PROVE  Inv'
    <3>1. PICK made : sent' = sent \cup {made}
      BY <2>2 DEF ClientSigns
    <3>2. Cardinality(sent) < MaxSent
      BY <2>2 DEF ClientSigns
    <3>3. /\ IsFiniteSet(sent')
          /\ Cardinality(sent') = Cardinality(sent) \/ Cardinality(sent') = Cardinality(sent) + 1
          /\ Cardinality(sent) \in Nat
      BY <3>1, FS_AddElement, FS_CardinalityType DEF Counted
    <3>4. Counted'
      BY <3>2, <3>3, GatewayAssumption DEF Counted
    <3>5. Process' /\ AnswerFits'
      BY <2>2 DEF ClientSigns, Process, AnswerFits
    <3> QED
      BY <3>4, <3>5
  <2>3. ASSUME NEW req \in sent, NEW arrival \in Arrivals(req), Arrive(arrival)
        PROVE  Inv'
    <3>1. arrival # None
      BY GatewayAssumption, ArrivalKeeps DEF IInv, SentIsSigned
    <3>2. AnswerFits'
      BY <2>3, <3>1 DEF Arrive, AnswerFits, Refusal, Plain
    <3> QED
      BY <2>3, <3>2 DEF Arrive, Process, Counted
  <2>4. CASE Decide
    <3>1. request \in ArrivedRequest
      BY <2>4 DEF Decide, IInv, ArrivedWasSigned
    <3>2. AnswerFits'
      BY <2>4, <3>1, OutcomeTypes, GatewayAssumption DEF Decide, AnswerFits
    <3> QED
      BY <2>4, <3>2 DEF Decide, Process, Counted
  <2>5. CASE Restart
    <3>1. Process'
      BY <2>5, GatewayAssumption
         DEF Restart, StartedWith, Process, Builds, AuthBuilds, AuthMode
    <3>2. AnswerFits'
      BY <2>5 DEF Restart, AnswerFits, Refusal, Plain
    <3> QED
      BY <2>5, <3>1, <3>2 DEF Restart, Counted
  <2>6. CASE UNCHANGED vars
    BY <2>6 DEF vars, Process, Counted, AnswerFits
  <2> QED
    BY <2>1, <2>2, <2>3, <2>4, <2>5, <2>6 DEF Next
<1>3. IInv /\ Inv => TypeOK
  BY DEF IInv, Clocks, Process, Counted, AnswerFits, Plain, Verdict, TypeOK
<1> QED
  BY <1>1, <1>2, <1>3, InvariantHolds, PTL DEF Spec
=============================================================================
