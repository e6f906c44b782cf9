------------------------------ MODULE SignIntent ------------------------------
(***************************************************************************)
(* POST /v1/evm/sign-intent: handle_sign_intent (src/src/service.rs), the  *)
(* signers behind SignerGateway, and the signer RPC with its worker        *)
(* process (src/src/signer_rpc.rs).                                        *)
(*                                                                         *)
(* The handler evaluates the policy, waits for the signer if the intent is *)
(* approved, answers, and leaves the audit event to a spawned task that    *)
(* nobody waits for.  With remote-mtls the signature is made by another    *)
(* process: the call or its reply can be lost, the client can go away, the *)
(* gateway can restart, and the worker signs all the same.                 *)
(*                                                                         *)
(* A definition named Name_Fault is Name with a fault a programmer could   *)
(* make; no specification uses one.                                        *)
(***************************************************************************)
EXTENDS Policy

CONSTANTS
  Requests,       \* request ids, one for each POST (Uuid::new_v4)
  Intents,        \* the bodies clients send
  Signers,        \* the signer configurations explored
  PostgresAudit,  \* DATABASE_URL is set; otherwise the audit log is in memory
  MaxRestarts,    \* bound on the number of gateway restarts explored
  None            \* no body

SignerMode == {"mock", "local_dev", "remote_mtls"}

ASSUME SignIntentAssumption ==
  /\ Intents \subseteq Intent
  /\ Signers \subseteq [mode : SignerMode, keyed : BOOLEAN]
  /\ PostgresAudit \in BOOLEAN
  /\ MaxRestarts \in Nat
  /\ None \notin Intents

VARIABLES
  signer,      \* the gateway's configuration, read from the environment at its start
  intent,      \* the body of each request
  stage,       \* where its handler stands, in the end what it answered
  call,        \* the signer RPC of the request
  signatures,  \* how many signatures were made under the request id
  tasks,       \* spawned audit tasks, each with the decision it captured
  audit,       \* the sign_intent events of the audit repository
  restarts

vars == <<signer, intent, stage, call, signatures, tasks, audit, restarts>>

Decision == {"Approved", "Denied", "RequiresReview"}
SignOutcome == {"Approved", "BadRequest", "SignerUnavailable"}
Ended == Decision \cup {"BadRequest", "SignerUnavailable", "Dropped"}

\* The event's status is the Debug name in lower case, not the name the API
\* answers with ("requires_review").
AuditStatus(decision) ==
  CASE decision = "Approved" -> "approved"
    [] decision = "Denied" -> "denied"
    [] OTHER -> "requiresreview"

-----------------------------------------------------------------------------
Init ==
  /\ signer \in Signers
  /\ intent = [r \in Requests |-> None]
  /\ stage = [r \in Requests |-> "Idle"]
  /\ call = [r \in Requests |-> "none"]
  /\ signatures = [r \in Requests |-> 0]
  /\ tasks = {}
  /\ audit = {}
  /\ restarts = 0

\* Fault: only approvals are audited.
Conclude_OnlyApproved(r, result) ==
  /\ stage' = [stage EXCEPT ![r] = result]
  /\ tasks' = tasks \cup {<<r, d>> : d \in {result} \cap {"Approved"}}

\* The handler ends: a decision is answered and its audit task spawned, an
\* error is answered alone.
Conclude(r, result) ==
  /\ stage' = [stage EXCEPT ![r] = result]
  /\ tasks' = tasks \cup {<<r, d>> : d \in {result} \cap Decision}

\* Fault: the audit task is spawned before the signature is there.
StartSigning_AuditsFirst(r) ==
  /\ stage' = [stage EXCEPT ![r] = "Signing"]
  /\ call' = [call EXCEPT ![r] = IF signer.mode = "remote_mtls" THEN "sent" ELSE @]
  /\ tasks' = tasks \cup {<<r, "Approved">>}

\* The signer is called, in remote-mtls by a POST to the worker.
StartSigning(r) ==
  /\ stage' = [stage EXCEPT ![r] = "Signing"]
  /\ call' = [call EXCEPT ![r] = IF signer.mode = "remote_mtls" THEN "sent" ELSE @]
  /\ UNCHANGED tasks

\* A request arrives, gets its id and is evaluated.
Submit(r, i) ==
  /\ stage[r] = "Idle"
  /\ intent' = [intent EXCEPT ![r] = i]
  /\ IF Evaluate(i) = "Approved"
     THEN StartSigning(r)
     ELSE Conclude(r, Evaluate(i)) /\ UNCHANGED call
  /\ UNCHANGED <<signer, signatures, audit, restarts>>

-----------------------------------------------------------------------------
(* The signers                                                             *)

\* LocalDevSigner needs its key, and fields that parse.
LocalDevSign(i, keyed) ==
  IF ~keyed THEN "SignerUnavailable"
  ELSE IF i.payload.defect = "signer" THEN "BadRequest"
  ELSE "Approved"

\* The signer in the gateway's own process: MockSigner signs anything.
Sign(i) == IF signer.mode = "mock" THEN "Approved" ELSE LocalDevSign(i, signer.keyed)

CountSignature(r, result) ==
  signatures' = IF result = "Approved" THEN [signatures EXCEPT ![r] = @ + 1]
                ELSE signatures

SignInProcess(r) ==
  /\ stage[r] = "Signing"
  /\ signer.mode # "remote_mtls"
  /\ Conclude(r, Sign(intent[r]))
  /\ CountSignature(r, Sign(intent[r]))
  /\ UNCHANGED <<signer, intent, call, audit, restarts>>

\* The worker handles a call it has received, also when the gateway does not
\* wait for it any more.  It is a LocalDevSigner in a process of its own, which
\* may be started with a key or without one whatever the gateway has.
WorkerSign(r) ==
  /\ call[r] = "sent"
  /\ \E keyed \in BOOLEAN :
       /\ call' = [call EXCEPT ![r] = LocalDevSign(intent[r], keyed)]
       /\ CountSignature(r, LocalDevSign(intent[r], keyed))
  /\ UNCHANGED <<signer, intent, stage, tasks, audit, restarts>>

\* Fault: an HTTP error of the worker leaves the handler waiting.
WorkerReply_OnlySuccess(r) ==
  /\ stage[r] = "Signing"
  /\ call[r] = "Approved"
  /\ Conclude(r, "Approved")
  /\ UNCHANGED <<signer, intent, call, signatures, audit, restarts>>

\* Fault: the HTTP status of the reply is not looked at.
WorkerReply_AnyStatus(r) ==
  /\ stage[r] = "Signing"
  /\ call[r] \in SignOutcome
  /\ Conclude(r, "Approved")
  /\ UNCHANGED <<signer, intent, call, signatures, audit, restarts>>

\* Fault: signing goes on, and is answered, when the client has gone.
WorkerReply_Detached(r) ==
  /\ stage[r] \in {"Signing", "Dropped"}
  /\ call[r] \in SignOutcome
  /\ Conclude(r, IF call[r] = "Approved" THEN "Approved" ELSE "SignerUnavailable")
  /\ UNCHANGED <<signer, intent, call, signatures, audit, restarts>>

\* request_signature gets the reply: an artifact, or an HTTP error that becomes
\* SignerUnavailable whatever the worker meant.
WorkerReply(r) ==
  /\ stage[r] = "Signing"
  /\ call[r] \in SignOutcome
  /\ Conclude(r, IF call[r] = "Approved" THEN "Approved" ELSE "SignerUnavailable")
  /\ UNCHANGED <<signer, intent, call, signatures, audit, restarts>>

\* Fault: a failed call is sent again under the same request id.
CallFails_Retry(r) ==
  /\ stage[r] = "Signing"
  /\ call[r] # "none"
  /\ call' = [call EXCEPT ![r] = "sent"]
  /\ UNCHANGED <<signer, intent, stage, signatures, tasks, audit, restarts>>

\* No connection, a connection lost at any point, or a reply that does not
\* decode: the gateway cannot tell whether the worker has signed.
CallFails(r) ==
  /\ stage[r] = "Signing"
  /\ call[r] # "none"
  /\ Conclude(r, "SignerUnavailable")
  /\ UNCHANGED <<signer, intent, call, signatures, audit, restarts>>

\* The client disconnects.  Only the remote call suspends the handler; once it
\* has returned, the answer and the audit task follow without an await.
Drop(r) ==
  /\ stage[r] = "Signing"
  /\ call[r] # "none"
  /\ stage' = [stage EXCEPT ![r] = "Dropped"]
  /\ UNCHANGED <<signer, intent, call, signatures, tasks, audit, restarts>>

-----------------------------------------------------------------------------
(* Audit tasks and restarts                                                *)

Event(task) == <<task[1], AuditStatus(task[2])>>

\* The spawned task: the memory log takes the event; a Postgres insert may
\* fail, before or after it is committed, and the error is ignored.
RunAuditTask(r) ==
  /\ \E task \in tasks :
       /\ task[1] = r
       /\ tasks' = tasks \ {task}
       /\ \/ audit' = audit \cup {Event(task)}
          \/ PostgresAudit /\ UNCHANGED audit
  /\ UNCHANGED <<signer, intent, stage, call, signatures, restarts>>

\* The gateway ends, killed or shut down: shutting down waits for open requests
\* but not for spawned tasks.  It starts again with the environment of that
\* moment.  The worker is another process and goes on.
Restart ==
  /\ restarts < MaxRestarts
  /\ restarts' = restarts + 1
  /\ stage' = [r \in Requests |-> IF stage[r] = "Signing" THEN "Dropped" ELSE stage[r]]
  /\ tasks' = {}
  /\ \E landed \in SUBSET tasks :
       audit' = IF PostgresAudit THEN audit \cup {Event(t) : t \in landed} ELSE {}
  /\ signer' \in Signers
  /\ UNCHANGED <<intent, call, signatures>>

-----------------------------------------------------------------------------
Next ==
  \/ \E r \in Requests :
       \/ \E i \in Intents : Submit(r, i)
       \/ SignInProcess(r) \/ WorkerSign(r) \/ WorkerReply(r) \/ CallFails(r)
       \/ Drop(r) \/ RunAuditTask(r)
  \/ Restart

Spec == Init /\ [][Next]_vars

\* The executor runs every task and the audit repository answers.  Nothing is
\* assumed of the worker: request_signature sets no timeout, so nothing in the
\* gateway makes a call return.
Fairness ==
  \A r \in Requests :
    /\ WF_vars(SignInProcess(r))
    /\ WF_vars(WorkerReply(r))
    /\ WF_vars(RunAuditTask(r))

FairSpec == Spec /\ Fairness

-----------------------------------------------------------------------------
(* Properties                                                              *)

Signed(r) == signatures[r] > 0
Audited(r) == \E event \in audit : event[1] = r

\* Every variable holds a value of its kind.
TypeOK ==
  /\ signer \in Signers
  /\ intent \in [Requests -> Intents \cup {None}]
  /\ stage \in [Requests -> {"Idle", "Signing"} \cup Ended]
  /\ call \in [Requests -> {"none", "sent"} \cup SignOutcome]
  /\ signatures \in [Requests -> Nat]
  /\ tasks \subseteq Requests \X Decision
  /\ audit \subseteq Requests \X {AuditStatus(d) : d \in Decision}
  /\ restarts \in 0..MaxRestarts

\* No signature is made, in the gateway or in the worker, of an intent that
\* breaks a rule evaluate has, whatever is lost or restarted on the way.  The
\* rules go by what the client declares: max_value is a field beside the
\* payload.  docs/architecture.md:49-57 lists rules that evaluate does not have
\* (chains, wallets, destinations, selectors, a time window); what it says of
\* the value is SignedValueIsWithinMaximum below.
SignedWithinDeclaredPolicy ==
  \A r \in Requests : Signed(r) =>
    /\ intent[r].max_value <= ReviewThreshold
    /\ intent[r].chain_id # 0
    /\ intent[r].names_wallet
    /\ intent[r].payload.defect # "policy"
    /\ intent[r].operation = "ContractCall" => intent[r].has_purpose

\* At most one signature is made under a request id, whatever is lost.
SignedAtMostOnce == \A r \in Requests : signatures[r] <= 1

\* An approved answer carries a signature that was made, in whichever process.
\* (The converse fails: a signature whose reply is lost is answered 503.)
ApprovedIsSigned == \A r \in Requests : stage[r] = "Approved" => Signed(r)

\* The audit log holds no decision that was not answered: never two for one
\* request, never "approved" for a request that got no signature.
AuditTellsTheAnswer ==
  \A event \in audit : /\ stage[event[1]] \in Decision
                       /\ event[2] = AuditStatus(stage[event[1]])

\* A decision that was answered is in the audit log or in a task that will put
\* it there; only a restart or a failing Postgres loses one.
AnsweredIsBoundForAudit ==
  restarts = 0 /\ ~PostgresAudit =>
    \A r \in Requests : stage[r] \in Decision => Audited(r) \/ <<r, stage[r]>> \in tasks

\* A request waits for ever only for a signer worker that was asked and never
\* answers; whatever the worker does answer, or a lost connection, ends it.
EveryIntentEnds ==
  \A r \in Requests : <>[](stage[r] = "Signing") => <>[](call[r] = "sent")

\* Every decision that was answered is audited in the end.
DecisionIsAudited == \A r \in Requests : stage[r] \in Decision ~> Audited(r)

\* What the promise knows of a request: its errors are one, and a client that
\* went away was told nothing.
AnswerGiven(r) ==
  CASE stage[r] = "Idle" -> "none"
    [] stage[r] = "Signing" -> "waiting"
    [] stage[r] \in Decision -> stage[r]
    [] OTHER -> "failed"

Promise == INSTANCE SigningPromise WITH
  Durable <- PostgresAudit,
  answer <- [r \in Requests |-> AnswerGiven(r)],
  admitted <- {r \in Requests : intent[r] # None /\ Evaluate(intent[r]) = "Approved"},
  made <- signatures,
  log <- {task \in Requests \X Decision : Event(task) \in audit}

\* The handler, the signers in both processes, the audit tasks and restarts keep
\* the promise: an answer is never taken back, no signature is made behind a
\* refusal or twice, and only the end of the process takes an event from the log.
KeepsSigningPromise == Promise!Spec

\* What the documentation asks for and the code does not do.  The value of a
\* transaction that is signed is within the maximum that the policy went by
\* (docs/architecture.md, step 4 of the request flow: "max transfer value").
SignedValueIsWithinMaximum ==
  \A r \in Requests : Signed(r) /\ intent[r].payload.kind = "Transaction" =>
    intent[r].payload.value <= intent[r].max_value

\* Every signature ends up in the audit log (docs/architecture.md, step 8 of
\* the request flow).
SignatureIsAudited == \A r \in Requests : Signed(r) ~> Audited(r)

\* An intent is signed once however often it is sent (docs/architecture.md,
\* replay protection).
DuplicateIntentSignedOnce ==
  \A r, s \in Requests : r # s /\ intent[r] = intent[s] => ~(Signed(r) /\ Signed(s))
=============================================================================
