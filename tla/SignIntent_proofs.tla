-------------------------- MODULE SignIntent_proofs --------------------------
(***************************************************************************)
(* Theorems about signing, for any intents, any review threshold, any mix  *)
(* of signers, and any number of requests and restarts.                    *)
(***************************************************************************)
EXTENDS SignIntent, TLAPS

\* A request that was approved by the policy: only these reach a signer.
Passed(r) == intent[r] \in Intents /\ Evaluate(intent[r]) = "Approved"

\* What PolicyEngine::evaluate lets through satisfies each rule.
LEMMA ApprovedIntent ==
  ASSUME NEW i \in Intent, Evaluate(i) = "Approved"
  PROVE  /\ i.max_value <= ReviewThreshold
         /\ i.chain_id # 0
         /\ i.names_wallet
         /\ i.payload.defect # "policy"
         /\ i.operation = "ContractCall" => i.has_purpose
BY PolicyAssumption DEF Evaluate, IsMalformed, NeedsReview, IsUnexplainedCall, Intent

\* The policy only tightens: lowering an approved intent's value keeps it
\* approved, so no client is sent to review for asking less.
THEOREM PolicyIsMonotone ==
  ASSUME NEW i \in Intent, NEW v \in 0..i.max_value, Evaluate(i) = "Approved"
  PROVE  Evaluate([i EXCEPT !.max_value = v]) = "Approved"
<1> DEFINE less == [i EXCEPT !.max_value = v]
<1>1. /\ less.max_value = v
      /\ less.chain_id = i.chain_id
      /\ less.names_wallet = i.names_wallet
      /\ less.operation = i.operation
      /\ less.has_purpose = i.has_purpose
      /\ less.payload = i.payload
  BY DEF Intent
<1>2. v \in Nat /\ i.max_value \in Nat /\ v <= i.max_value
  BY DEF Intent
<1>3. ~IsMalformed(i) /\ ~NeedsReview(i) /\ ~IsUnexplainedCall(i)
  BY DEF Evaluate
<1>4. ~IsMalformed(less)
  BY <1>1, <1>2, <1>3, PolicyAssumption DEF IsMalformed
<1>5. ~NeedsReview(less)
  BY <1>1, <1>2, <1>3, PolicyAssumption DEF NeedsReview
<1>6. ~IsUnexplainedCall(less)
  BY <1>1, <1>3 DEF IsUnexplainedCall
<1> QED
  BY <1>4, <1>5, <1>6 DEF Evaluate

-----------------------------------------------------------------------------
(* Types                                                                   *)

\* What SignerGateway::sign can return, whichever signer it is.
LEMMA SignOutcomes ==
  /\ \A i : Sign(i) \in SignOutcome
  /\ \A i, keyed : LocalDevSign(i, keyed) \in SignOutcome
BY DEF Sign, LocalDevSign, SignOutcome

\* Every variable keeps a value of its kind; no task carries an error, so only
\* decisions are audited.
THEOREM TypeCorrect == Spec => []TypeOK
<1>1. Init => TypeOK
  BY SignIntentAssumption DEF Init, TypeOK
<1>2. TypeOK /\ [Next]_vars => TypeOK'
  <2> SUFFICES ASSUME TypeOK, [Next]_vars
               PROVE  TypeOK'
    OBVIOUS
  <2> USE SignIntentAssumption DEF TypeOK, Ended, SignOutcome, Decision
  <2>1. ASSUME NEW r \in Requests, NEW i \in Intents, Submit(r, i) PROVE TypeOK'
    <3>1. Evaluate(i) \in Ended
      BY DEF Evaluate
    <3> QED
      BY <2>1, <3>1 DEF Submit, StartSigning, Conclude
  <2>2. ASSUME NEW r \in Requests, SignInProcess(r) PROVE TypeOK'
    BY <2>2, SignOutcomes DEF SignInProcess, Conclude, CountSignature
  <2>3. ASSUME NEW r \in Requests, WorkerSign(r) PROVE TypeOK'
    BY <2>3, SignOutcomes DEF WorkerSign, CountSignature
  <2>4. ASSUME NEW r \in Requests, WorkerReply(r) PROVE TypeOK'
    BY <2>4 DEF WorkerReply, Conclude
  <2>5. ASSUME NEW r \in Requests, CallFails(r) PROVE TypeOK'
    BY <2>5 DEF CallFails, Conclude
  <2>6. ASSUME NEW r \in Requests, Drop(r) PROVE TypeOK'
    BY <2>6 DEF Drop
  <2>7. ASSUME NEW r \in Requests, RunAuditTask(r) PROVE TypeOK'
    BY <2>7 DEF RunAuditTask, Event
  <2>8. CASE Restart
    <3>1. \A t \in tasks : Event(t) \in Requests \X {AuditStatus(d) : d \in Decision}
      BY DEF Event
    <3> QED
      BY <2>8, <3>1 DEF Restart
  <2>9. CASE UNCHANGED vars
    BY <2>9 DEF vars
  <2> QED
    BY <2>1, <2>2, <2>3, <2>4, <2>5, <2>6, <2>7, <2>8, <2>9 DEF Next
<1> QED
  BY <1>1, <1>2, PTL DEF Spec

-----------------------------------------------------------------------------
(* The inductive invariant                                                 *)

\* A request the policy has not let through has no call and no signature.
OnlyPassedGoOn ==
  \A r \in Requests :
    stage[r] = "Signing" \/ call[r] # "none" \/ Signed(r) => Passed(r)

\* The signature comes from the stage that makes it and from no other: in
\* process when the handler goes on, in the worker when it takes the call.
OneSigner ==
  \A r \in Requests :
    /\ stage[r] = "Idle" => intent[r] = None /\ call[r] = "none" /\ ~Signed(r)
    /\ stage[r] = "Signing" /\ call[r] = "none" =>
         signer.mode # "remote_mtls" /\ ~Signed(r)
    /\ stage[r] = "Signing" /\ call[r] # "none" => signer.mode = "remote_mtls"
    /\ call[r] = "sent" => ~Signed(r)
    /\ stage[r] \in {"Denied", "RequiresReview"} => call[r] = "none"
    /\ call[r] = "Approved" => Signed(r)

\* An audit task carries the answer its request was given.
TasksTellTheAnswer == \A t \in tasks : stage[t[1]] = t[2]

IInv ==
  /\ OnlyPassedGoOn
  /\ OneSigner
  /\ TasksTellTheAnswer
  /\ SignedAtMostOnce
  /\ ApprovedIsSigned
  /\ AuditTellsTheAnswer

\* A handler that ends with a result of its own choosing keeps what the tasks
\* and the log say: no task and no event of a request that has not ended.
LEMMA ConcludeKeepsAnswers ==
  ASSUME TypeOK, IInv, NEW r \in Requests, NEW result \in Ended,
         stage[r] \in {"Idle", "Signing"}, Conclude(r, result), audit' = audit
  PROVE  TasksTellTheAnswer' /\ AuditTellsTheAnswer'
<1>1. \A t \in tasks : t[1] # r
  BY DEF TypeOK, IInv, TasksTellTheAnswer, Decision
<1>2. \A e \in audit : e[1] # r /\ e[1] \in Requests
  BY DEF TypeOK, IInv, AuditTellsTheAnswer, Decision
<1>3. \A k \in Requests \ {r} : stage'[k] = stage[k]
  BY DEF Conclude, TypeOK
<1>4. stage'[r] = result
  BY DEF Conclude, TypeOK
<1>5. \A t \in tasks : t[1] \in Requests
  BY DEF TypeOK
<1>6. TasksTellTheAnswer'
  BY <1>1, <1>3, <1>4, <1>5 DEF Conclude, IInv, TasksTellTheAnswer
<1>7. AuditTellsTheAnswer'
  BY <1>2, <1>3 DEF IInv, AuditTellsTheAnswer
<1> QED
  BY <1>6, <1>7

\* Every step keeps the invariant; with TypeOK it is inductive.
LEMMA InvariantStep ==
  ASSUME TypeOK, TypeOK', IInv, [Next]_vars
  PROVE  IInv'
<1> DEFINE Calls == OnlyPassedGoOn /\ OneSigner /\ SignedAtMostOnce /\ ApprovedIsSigned
<1> USE SignIntentAssumption
    DEF OnlyPassedGoOn, OneSigner, SignedAtMostOnce, ApprovedIsSigned, Signed,
        Passed, TypeOK, SignOutcome, Decision
<1>0. Calls
  BY DEF IInv
<1>1. ASSUME NEW r \in Requests, NEW i \in Intents, Submit(r, i) PROVE IInv'
  <2>1. stage[r] = "Idle" /\ intent' = [intent EXCEPT ![r] = i]
        /\ UNCHANGED <<signer, signatures, audit>>
    BY <1>1 DEF Submit
  <2>2. CASE Evaluate(i) = "Approved"
    <3>1. /\ stage' = [stage EXCEPT ![r] = "Signing"]
          /\ call' = [call EXCEPT ![r] = IF signer.mode = "remote_mtls" THEN "sent" ELSE @]
          /\ tasks' = tasks
      BY <1>1, <2>2 DEF Submit, StartSigning
    <3>2. Calls'
      BY <1>0, <2>1, <2>2, <3>1
    <3>3. TasksTellTheAnswer'
      BY <2>1, <3>1 DEF IInv, TasksTellTheAnswer
    <3>4. AuditTellsTheAnswer'
      BY <2>1, <3>1 DEF IInv, AuditTellsTheAnswer
    <3> QED
      BY <3>2, <3>3, <3>4 DEF IInv
  <2>3. CASE Evaluate(i) # "Approved"
    <3>1. Conclude(r, Evaluate(i)) /\ call' = call
      BY <1>1, <2>3 DEF Submit
    <3>2. Evaluate(i) \in Ended
      BY DEF Evaluate, Ended
    <3>3. Calls'
      BY <1>0, <2>1, <2>3, <3>1, <3>2 DEF Conclude, Ended
    <3> QED
      BY <2>1, <3>1, <3>2, <3>3, ConcludeKeepsAnswers DEF IInv
  <2> QED
    BY <2>2, <2>3
<1>2. ASSUME NEW r \in Requests, SignInProcess(r) PROVE IInv'
  <2>1. PICK result \in SignOutcome :
          result = Sign(intent[r]) /\ Conclude(r, result) /\ CountSignature(r, result)
    BY <1>2, SignOutcomes DEF SignInProcess
  <2>2. stage[r] = "Signing" /\ call[r] = "none" /\ ~Signed(r)
        /\ UNCHANGED <<signer, intent, call, audit>>
    BY <1>0, <1>2 DEF SignInProcess
  <2>3. Calls'
    BY <1>0, <2>1, <2>2 DEF Conclude, CountSignature
  <2> QED
    BY <2>1, <2>2, <2>3, ConcludeKeepsAnswers DEF IInv, Ended
<1>3. ASSUME NEW r \in Requests, WorkerSign(r) PROVE IInv'
  <2>1. PICK result \in SignOutcome :
          call' = [call EXCEPT ![r] = result] /\ CountSignature(r, result)
    <3>1. PICK keyed \in BOOLEAN :
            /\ call' = [call EXCEPT ![r] = LocalDevSign(intent[r], keyed)]
            /\ CountSignature(r, LocalDevSign(intent[r], keyed))
      BY <1>3 DEF WorkerSign
    <3>2. LocalDevSign(intent[r], keyed) \in SignOutcome
      BY SignOutcomes
    <3> QED
      BY <3>1, <3>2
  <2>2. call[r] = "sent" /\ UNCHANGED <<signer, intent, stage, tasks, audit>>
    BY <1>3 DEF WorkerSign
  <2>3. Calls'
    BY <1>0, <2>1, <2>2 DEF CountSignature
  <2> QED
    BY <2>2, <2>3 DEF IInv, TasksTellTheAnswer, AuditTellsTheAnswer
<1>4. ASSUME NEW r \in Requests, WorkerReply(r) \/ CallFails(r) PROVE IInv'
  <2>1. PICK result \in {"Approved", "SignerUnavailable"} :
          Conclude(r, result) /\ (result = "Approved" => call[r] = "Approved")
    BY <1>4 DEF WorkerReply, CallFails
  <2>2. stage[r] = "Signing" /\ UNCHANGED <<signer, intent, call, signatures, audit>>
    BY <1>4 DEF WorkerReply, CallFails
  <2>3. Calls'
    BY <1>0, <2>1, <2>2 DEF Conclude
  <2> QED
    BY <2>1, <2>2, <2>3, ConcludeKeepsAnswers DEF IInv, Ended
<1>5. ASSUME NEW r \in Requests, Drop(r) PROVE IInv'
  <2>1. /\ stage[r] = "Signing" /\ stage' = [stage EXCEPT ![r] = "Dropped"]
        /\ UNCHANGED <<signer, intent, call, signatures, tasks, audit>>
    BY <1>5 DEF Drop
  <2>2. Calls'
    BY <1>0, <2>1
  <2> QED
    BY <2>1, <2>2 DEF IInv, TasksTellTheAnswer, AuditTellsTheAnswer
<1>6. ASSUME NEW r \in Requests, RunAuditTask(r) PROVE IInv'
  <2>1. PICK t \in tasks : tasks' = tasks \ {t} /\ audit' \subseteq audit \cup {Event(t)}
    BY <1>6 DEF RunAuditTask
  <2>2. UNCHANGED <<signer, intent, stage, call, signatures>>
    BY <1>6 DEF RunAuditTask
  <2>3. Calls'
    BY <1>0, <2>2
  <2>4. stage[t[1]] = t[2] /\ t[2] \in Decision
    BY <2>1 DEF IInv, TasksTellTheAnswer
  <2>5. AuditTellsTheAnswer'
    BY <2>1, <2>2, <2>4 DEF IInv, AuditTellsTheAnswer, Event
  <2> QED
    BY <2>1, <2>2, <2>3, <2>5 DEF IInv, TasksTellTheAnswer
<1>7. CASE Restart
  <2>1. /\ stage' = [r \in Requests |->
                      IF stage[r] = "Signing" THEN "Dropped" ELSE stage[r]]
        /\ tasks' = {}
        /\ UNCHANGED <<intent, call, signatures>>
    BY <1>7 DEF Restart
  <2>2. \A e \in audit' : e \in audit \/ \E t \in tasks : e = Event(t)
    BY <1>7 DEF Restart
  <2>3. Calls'
    BY <1>0, <2>1
  <2>4. AuditTellsTheAnswer'
    <3>1. \A t \in tasks : stage'[t[1]] = t[2] /\ t[2] \in Decision
      BY <2>1 DEF IInv, TasksTellTheAnswer
    <3>2. \A e \in audit : stage'[e[1]] = stage[e[1]]
      BY <2>1 DEF IInv, AuditTellsTheAnswer
    <3> QED
      BY <2>2, <3>1, <3>2 DEF IInv, AuditTellsTheAnswer, Event
  <2> QED
    BY <2>1, <2>3, <2>4 DEF IInv, TasksTellTheAnswer
<1>8. CASE UNCHANGED vars
  BY <1>0, <1>8 DEF vars, IInv, TasksTellTheAnswer, AuditTellsTheAnswer
<1> QED
  BY <1>1, <1>2, <1>3, <1>4, <1>5, <1>6, <1>7, <1>8 DEF Next

\* Every reachable state satisfies the invariant.
THEOREM InvariantHolds == Spec => []IInv
<1>1. Init => IInv
  BY SignIntentAssumption
     DEF Init, IInv, OnlyPassedGoOn, OneSigner, TasksTellTheAnswer,
         SignedAtMostOnce, ApprovedIsSigned, AuditTellsTheAnswer, Signed, Passed
<1>2. TypeOK /\ TypeOK' /\ IInv /\ [Next]_vars => IInv'
  BY InvariantStep
<1> QED
  BY <1>1, <1>2, TypeCorrect, PTL DEF Spec

-----------------------------------------------------------------------------
(* What follows from the invariant                                         *)

\* No signature outside the policy, in whichever process it was made.
THEOREM PolicyGuardsSigner == Spec => []SignedWithinDeclaredPolicy
<1>1. IInv => SignedWithinDeclaredPolicy
  BY SignIntentAssumption, ApprovedIntent
     DEF IInv, OnlyPassedGoOn, Passed, SignedWithinDeclaredPolicy
<1> QED
  BY <1>1, InvariantHolds, PTL

\* At most one signature for each request, whatever reply or client is lost.
THEOREM OneSignature == Spec => []SignedAtMostOnce
<1>1. IInv => SignedAtMostOnce
  BY DEF IInv
<1> QED
  BY <1>1, InvariantHolds, PTL

\* An approved answer always carries a signature that was made.
THEOREM ApprovalIsBacked == Spec => []ApprovedIsSigned
<1>1. IInv => ApprovedIsSigned
  BY DEF IInv
<1> QED
  BY <1>1, InvariantHolds, PTL

\* The audit log holds only what clients were answered.
THEOREM AuditIsTrue == Spec => []AuditTellsTheAnswer
<1>1. IInv => AuditTellsTheAnswer
  BY DEF IInv
<1> QED
  BY <1>1, InvariantHolds, PTL

\* With the memory log and until the first restart, a decision that was answered
\* is in the log or in a task that brings it there.
THEOREM AnswersReachTheLog == Spec => []AnsweredIsBoundForAudit
<1>1. Init => AnsweredIsBoundForAudit
  BY DEF Init, AnsweredIsBoundForAudit, Decision
<1>2. TypeOK /\ AnsweredIsBoundForAudit /\ [Next]_vars => AnsweredIsBoundForAudit'
  <2> SUFFICES ASSUME TypeOK, AnsweredIsBoundForAudit, [Next]_vars,
                      restarts' = 0, ~PostgresAudit,
                      NEW r \in Requests, stage'[r] \in Decision
               PROVE  Audited(r)' \/ <<r, stage'[r]>> \in tasks'
    BY DEF AnsweredIsBoundForAudit
  <2> USE DEF TypeOK, Decision, Audited
  <2>1. restarts = 0 /\ ~Restart
    <3>1. restarts' = restarts \/ restarts' = restarts + 1
      BY DEF Next, Submit, SignInProcess, WorkerSign, WorkerReply, CallFails, Drop,
         RunAuditTask, Restart, vars
    <3> QED
      BY <3>1 DEF Restart
  <2>2. stage[r] \in Decision => Audited(r) \/ <<r, stage[r]>> \in tasks
    BY <2>1 DEF AnsweredIsBoundForAudit
  <2>3. ASSUME NEW k \in Requests, NEW result \in Ended, Conclude(k, result), audit' = audit,
               stage[k] \in {"Idle", "Signing"}
        PROVE  Audited(r)' \/ <<r, stage'[r]>> \in tasks'
    <3>1. CASE k = r
      BY <2>3, <3>1 DEF Conclude
    <3>2. CASE k # r
      BY <2>2, <2>3, <3>2 DEF Conclude
    <3> QED
      BY <3>1, <3>2
  <2>4. ASSUME NEW k \in Requests, NEW i \in Intents, Submit(k, i)
        PROVE  Audited(r)' \/ <<r, stage'[r]>> \in tasks'
    <3>1. Evaluate(i) \in Ended
      BY DEF Evaluate, Ended
    <3>2. CASE Evaluate(i) = "Approved"
      BY <2>2, <2>4, <3>2 DEF Submit, StartSigning
    <3>3. CASE Evaluate(i) # "Approved"
      BY <2>3, <2>4, <3>1, <3>3 DEF Submit
    <3> QED
      BY <3>2, <3>3
  <2>5. ASSUME NEW k \in Requests, SignInProcess(k) \/ WorkerReply(k) \/ CallFails(k)
        PROVE  Audited(r)' \/ <<r, stage'[r]>> \in tasks'
    <3>1. PICK result \in Ended : Conclude(k, result) /\ audit' = audit
      BY <2>5, SignOutcomes DEF SignInProcess, WorkerReply, CallFails, SignOutcome, Ended
    <3>2. stage[k] = "Signing"
      BY <2>5 DEF SignInProcess, WorkerReply, CallFails
    <3> QED
      BY <2>3, <3>1, <3>2
  <2>6. ASSUME NEW k \in Requests, WorkerSign(k) \/ Drop(k)
        PROVE  Audited(r)' \/ <<r, stage'[r]>> \in tasks'
    BY <2>2, <2>6 DEF WorkerSign, Drop
  <2>7. ASSUME NEW k \in Requests, RunAuditTask(k)
        PROVE  Audited(r)' \/ <<r, stage'[r]>> \in tasks'
    <3>1. PICK t \in tasks :
            tasks' = tasks \ {t} /\ audit' = audit \cup {Event(t)}
      BY <2>7 DEF RunAuditTask
    <3>2. stage' = stage
      BY <2>7 DEF RunAuditTask
    <3>3. CASE t = <<r, stage[r]>>
      <4>1. Event(t) \in audit' /\ Event(t)[1] = r
        BY <3>1, <3>3 DEF Event
      <4> QED
        BY <4>1
    <3>4. CASE t # <<r, stage[r]>>
      BY <2>2, <3>1, <3>2, <3>4
    <3> QED
      BY <3>3, <3>4
  <2>8. CASE UNCHANGED vars
    BY <2>2, <2>8 DEF vars
  <2> QED
    BY <2>1, <2>4, <2>5, <2>6, <2>7, <2>8 DEF Next
<1> QED
  BY <1>1, <1>2, TypeCorrect, PTL DEF Spec

\* A refusal of the policy has its reason, and nothing was signed behind it: an
\* intent sent to review is above the threshold, a denied one is a contract
\* call without purpose below it, neither is malformed, and no signer saw it.
RefusedByRule ==
  \A r \in Requests :
    /\ stage[r] = "RequiresReview" => intent[r].max_value > ReviewThreshold
    /\ stage[r] = "Denied" => /\ intent[r].max_value <= ReviewThreshold
                              /\ intent[r].operation = "ContractCall"
                              /\ ~intent[r].has_purpose
    /\ stage[r] \in {"RequiresReview", "Denied"} =>
         ~IsMalformed(intent[r]) /\ call[r] = "none" /\ ~Signed(r)

\* What the policy decided is what it would decide again.
RefusalIsEvaluated ==
  \A r \in Requests : stage[r] \in {"RequiresReview", "Denied"} =>
    intent[r] \in Intents /\ Evaluate(intent[r]) = stage[r]

\* No request is refused without a reason, or refused and signed.
THEOREM RefusalsHaveReasons == Spec => []RefusedByRule
<1>1. Init => RefusalIsEvaluated
  BY DEF Init, RefusalIsEvaluated
<1>2. TypeOK /\ RefusalIsEvaluated /\ [Next]_vars => RefusalIsEvaluated'
  <2> SUFFICES ASSUME TypeOK, RefusalIsEvaluated, [Next]_vars,
                      NEW r \in Requests, stage'[r] \in {"RequiresReview", "Denied"}
               PROVE  intent'[r] \in Intents /\ Evaluate(intent'[r]) = stage'[r]
    BY DEF RefusalIsEvaluated
  <2>1. ASSUME NEW i \in Intents, Submit(r, i)
        PROVE  intent'[r] \in Intents /\ Evaluate(intent'[r]) = stage'[r]
    BY <2>1 DEF Submit, StartSigning, Conclude, TypeOK
  <2>2. CASE stage'[r] = stage[r] /\ intent'[r] = intent[r]
    BY <2>2 DEF RefusalIsEvaluated
  <2>3. ASSUME NEW k \in Requests \ {r}, NEW i \in Intents, Submit(k, i)
        PROVE  stage'[r] = stage[r] /\ intent'[r] = intent[r]
    BY <2>3 DEF Submit, StartSigning, Conclude, TypeOK
  <2>4. ASSUME NEW k \in Requests,
               SignInProcess(k) \/ WorkerReply(k) \/ CallFails(k) \/ Drop(k)
        PROVE  stage'[r] = stage[r] /\ intent'[r] = intent[r]
    <3>1. intent' = intent
      BY <2>4 DEF SignInProcess, WorkerReply, CallFails, Drop
    <3>2. PICK result \in SignOutcome \cup {"Dropped"} : stage' = [stage EXCEPT ![k] = result]
      BY <2>4, SignOutcomes
         DEF SignInProcess, WorkerReply, CallFails, Drop, Conclude, SignOutcome
    <3> QED
      BY <3>1, <3>2 DEF TypeOK, SignOutcome
  <2>5. ASSUME NEW k \in Requests, WorkerSign(k) \/ RunAuditTask(k)
        PROVE  stage'[r] = stage[r] /\ intent'[r] = intent[r]
    BY <2>5 DEF WorkerSign, RunAuditTask
  <2>6. CASE Restart
    BY <2>2, <2>6 DEF Restart, TypeOK
  <2>7. CASE UNCHANGED vars
    BY <2>2, <2>7 DEF vars
  <2> QED
    BY <2>1, <2>2, <2>3, <2>4, <2>5, <2>6, <2>7 DEF Next
<1>3. IInv /\ RefusalIsEvaluated => RefusedByRule
  <2> SUFFICES ASSUME IInv, RefusalIsEvaluated, NEW r \in Requests,
                      stage[r] \in {"RequiresReview", "Denied"}
               PROVE  /\ ~IsMalformed(intent[r]) /\ call[r] = "none" /\ ~Signed(r)
                      /\ IF stage[r] = "Denied"
                         THEN ~NeedsReview(intent[r]) /\ IsUnexplainedCall(intent[r])
                         ELSE NeedsReview(intent[r])
    BY SignIntentAssumption, PolicyAssumption
       DEF RefusedByRule, RefusalIsEvaluated, NeedsReview, IsUnexplainedCall, Intent
  <2>1. Evaluate(intent[r]) = stage[r]
    BY DEF RefusalIsEvaluated
  <2>2. call[r] = "none" /\ ~Signed(r)
    BY <2>1 DEF IInv, OneSigner, OnlyPassedGoOn, Passed
  <2> QED
    BY <2>1, <2>2 DEF Evaluate
<1> QED
  BY <1>1, <1>2, <1>3, TypeCorrect, InvariantHolds, PTL DEF Spec

-----------------------------------------------------------------------------
(* Every step is progress                                                  *)

\* The steps that are left for a request, at most: of its handler, of the call
\* the signer worker has not handled, and of its audit task.
StageWork(r) == IF stage[r] = "Idle" THEN 4 ELSE IF stage[r] = "Signing" THEN 2 ELSE 0
CallWork(r) == IF call[r] = "sent" THEN 1 ELSE 0
TaskWork(r) == IF \E t \in tasks : t[1] = r THEN 1 ELSE 0
RequestWork(r) == StageWork(r) + CallWork(r) + TaskWork(r)

\* No step gives a request more to do, and each takes something from one of
\* them, a restart perhaps from none: no call is sent again, no answer is
\* given twice and no event recorded twice.
Progress ==
  /\ \A r \in Requests : RequestWork(r)' <= RequestWork(r)
  /\ Restart \/ \E r \in Requests : RequestWork(r)' < RequestWork(r)

\* While a handler waits for a signature, the signer has been asked: in its own
\* process the signature is made without waiting, and a worker has the call or
\* has answered it.
SigningIsUnderWay ==
  \A r \in Requests : stage[r] = "Signing" =>
    IF signer.mode = "remote_mtls" THEN call[r] \in {"sent"} \cup SignOutcome
    ELSE call[r] = "none"

\* No handler waits for a signer that nobody has asked.
THEOREM NobodyWaitsInVain == Spec => []SigningIsUnderWay
<1>1. TypeOK /\ IInv => SigningIsUnderWay
  BY DEF TypeOK, IInv, OneSigner, SigningIsUnderWay
<1> QED
  BY <1>1, TypeCorrect, InvariantHolds, PTL

\* What is left to do is a number, before and after a step.
LEMMA WorkIsNat ==
  ASSUME NEW r \in Requests
  PROVE  /\ StageWork(r) \in 0..4 /\ StageWork(r)' \in 0..4
         /\ CallWork(r) \in 0..1 /\ CallWork(r)' \in 0..1
         /\ TaskWork(r) \in 0..1 /\ TaskWork(r)' \in 0..1
         /\ RequestWork(r) \in Nat /\ RequestWork(r)' \in Nat
<1>1. StageWork(r) \in 0..4 /\ StageWork(r)' \in 0..4
  BY DEF StageWork
<1>2. CallWork(r) \in 0..1 /\ CallWork(r)' \in 0..1
  BY DEF CallWork
<1>3. TaskWork(r) \in 0..1 /\ TaskWork(r)' \in 0..1
  BY DEF TaskWork
<1> QED
  BY <1>1, <1>2, <1>3 DEF RequestWork

\* A step that brings one request forward and touches no other is progress.
LEMMA OneRequestAdvances ==
  ASSUME NEW r \in Requests, RequestWork(r)' < RequestWork(r),
         \A k \in Requests \ {r} : RequestWork(k)' = RequestWork(k)
  PROVE  Progress
BY WorkIsNat DEF Progress

\* A handler that concludes does not send a call, and spawns at most one task.
LEMMA ConcludeIsProgress ==
  ASSUME TypeOK, IInv, NEW r \in Requests, NEW result \in Ended, Conclude(r, result),
         stage[r] \in {"Idle", "Signing"}, call' = call
  PROVE  Progress
<1>1. StageWork(r) >= 2 /\ StageWork(r)' = 0
  BY DEF Conclude, TypeOK, StageWork, Ended, Decision
<1>2. TaskWork(r) = 0
  BY DEF TaskWork, TypeOK, IInv, TasksTellTheAnswer, Decision
<1>3. RequestWork(r)' < RequestWork(r)
  <2>1. CallWork(r)' = CallWork(r)
    BY DEF CallWork
  <2> QED
    BY <1>1, <1>2, <2>1, WorkIsNat DEF RequestWork
<1>4. ASSUME NEW k \in Requests \ {r} PROVE RequestWork(k)' = RequestWork(k)
  <2>1. StageWork(k)' = StageWork(k) /\ CallWork(k)' = CallWork(k)
    BY DEF Conclude, TypeOK, StageWork, CallWork
  <2>2. TaskWork(k)' = TaskWork(k)
    BY DEF Conclude, TaskWork
  <2> QED
    BY <2>1, <2>2 DEF RequestWork
<1> QED
  BY <1>3, <1>4, OneRequestAdvances

\* Every step of signing is progress.
LEMMA ProgressStep ==
  ASSUME TypeOK, TypeOK', IInv, IInv', Next
  PROVE  Progress
<1>1. ASSUME NEW r \in Requests, NEW i \in Intents, Submit(r, i) PROVE Progress
  <2>1. CASE Evaluate(i) = "Approved"
    <3>1. /\ stage[r] = "Idle" /\ stage' = [stage EXCEPT ![r] = "Signing"] /\ tasks' = tasks
          /\ call' \in {call, [call EXCEPT ![r] = "sent"]}
      BY <1>1, <2>1 DEF Submit, StartSigning, TypeOK
    <3>2. StageWork(r) = 4 /\ StageWork(r)' = 2 /\ TaskWork(r)' = TaskWork(r)
      BY <3>1 DEF StageWork, TaskWork, TypeOK
    <3>3. RequestWork(r)' < RequestWork(r)
      BY <3>2, WorkIsNat DEF RequestWork
    <3>4. \A k \in Requests \ {r} : RequestWork(k)' = RequestWork(k)
      BY <3>1 DEF RequestWork, StageWork, CallWork, TaskWork, TypeOK
    <3> QED
      BY <3>3, <3>4, OneRequestAdvances
  <2>2. CASE Evaluate(i) # "Approved"
    <3>1. Conclude(r, Evaluate(i)) /\ call' = call /\ stage[r] = "Idle"
      BY <1>1, <2>2 DEF Submit
    <3>2. Evaluate(i) \in Ended
      BY DEF Evaluate, Ended, Decision
    <3> QED
      BY <3>1, <3>2, ConcludeIsProgress
  <2> QED
    BY <2>1, <2>2
<1>2. ASSUME NEW r \in Requests, SignInProcess(r) \/ WorkerReply(r) \/ CallFails(r)
      PROVE  Progress
  <2>1. PICK result \in Ended : Conclude(r, result)
    BY <1>2, SignOutcomes
       DEF SignInProcess, WorkerReply, CallFails, SignOutcome, Ended, Decision
  <2>2. stage[r] = "Signing" /\ call' = call
    BY <1>2 DEF SignInProcess, WorkerReply, CallFails
  <2> QED
    BY <2>1, <2>2, ConcludeIsProgress
<1>3. ASSUME NEW r \in Requests, WorkerSign(r) PROVE Progress
  <2>1. PICK result \in SignOutcome : call' = [call EXCEPT ![r] = result]
    BY <1>3, SignOutcomes DEF WorkerSign
  <2>2. call[r] = "sent" /\ UNCHANGED <<stage, tasks>>
    BY <1>3 DEF WorkerSign
  <2>3. \A k \in Requests : StageWork(k)' = StageWork(k) /\ TaskWork(k)' = TaskWork(k)
    BY <2>2 DEF StageWork, TaskWork
  <2>4. CallWork(r) = 1 /\ CallWork(r)' = 0
    BY <2>1, <2>2 DEF CallWork, TypeOK, SignOutcome
  <2>5. \A k \in Requests \ {r} : CallWork(k)' = CallWork(k)
    BY <2>1 DEF CallWork, TypeOK
  <2>6. RequestWork(r)' < RequestWork(r)
    BY <2>3, <2>4, WorkIsNat DEF RequestWork
  <2>7. \A k \in Requests \ {r} : RequestWork(k)' = RequestWork(k)
    BY <2>3, <2>5 DEF RequestWork
  <2> QED
    BY <2>6, <2>7, OneRequestAdvances
<1>4. ASSUME NEW r \in Requests, Drop(r) PROVE Progress
  <2>1. StageWork(r) = 2 /\ StageWork(r)' = 0
    BY <1>4 DEF Drop, StageWork, TypeOK
  <2>2. \A k \in Requests \ {r} : StageWork(k)' = StageWork(k)
    BY <1>4 DEF Drop, StageWork, TypeOK
  <2>3. \A k \in Requests : CallWork(k)' = CallWork(k) /\ TaskWork(k)' = TaskWork(k)
    BY <1>4 DEF Drop, CallWork, TaskWork
  <2>4. RequestWork(r)' < RequestWork(r)
    BY <2>1, <2>3, WorkIsNat DEF RequestWork
  <2>5. \A k \in Requests \ {r} : RequestWork(k)' = RequestWork(k)
    BY <2>2, <2>3 DEF RequestWork
  <2> QED
    BY <2>4, <2>5, OneRequestAdvances
<1>5. ASSUME NEW r \in Requests, RunAuditTask(r) PROVE Progress
  <2>1. PICK t \in tasks : t[1] = r /\ tasks' = tasks \ {t}
    BY <1>5 DEF RunAuditTask
  <2>2. \A u \in tasks : u[1] = r => u = t
    BY <2>1 DEF TypeOK, IInv, TasksTellTheAnswer
  <2>3. TaskWork(r) = 1 /\ TaskWork(r)' = 0
    BY <2>1, <2>2 DEF TaskWork
  <2>4. \A k \in Requests \ {r} : TaskWork(k)' = TaskWork(k)
    BY <2>1 DEF TaskWork
  <2>5. \A k \in Requests : StageWork(k)' = StageWork(k) /\ CallWork(k)' = CallWork(k)
    BY <1>5 DEF RunAuditTask, StageWork, CallWork
  <2>6. RequestWork(r)' < RequestWork(r)
    BY <2>3, <2>5, WorkIsNat DEF RequestWork
  <2>7. \A k \in Requests \ {r} : RequestWork(k)' = RequestWork(k)
    BY <2>4, <2>5 DEF RequestWork
  <2> QED
    BY <2>6, <2>7, OneRequestAdvances
<1>6. CASE Restart
  <2>1. ASSUME NEW k \in Requests PROVE RequestWork(k)' <= RequestWork(k)
    <3>1. StageWork(k)' <= StageWork(k)
      BY <1>6 DEF Restart, StageWork, TypeOK
    <3>2. CallWork(k)' = CallWork(k) /\ TaskWork(k)' = 0
      BY <1>6 DEF Restart, CallWork, TaskWork
    <3> QED
      BY <3>1, <3>2, WorkIsNat DEF RequestWork
  <2> QED
    BY <1>6, <2>1 DEF Progress
<1> QED
  BY <1>1, <1>2, <1>3, <1>4, <1>5, <1>6 DEF Next

\* A request has at most four steps ahead of it, its signature and its audit
\* event included.  No step adds one and every step but a restart takes one
\* away: a lost call is not sent again, and a lost event not recorded again.
THEOREM EveryStepIsProgress == Spec => [][Progress]_vars
<1>1. TypeOK /\ TypeOK' /\ IInv /\ IInv' /\ [Next]_vars => [Progress]_vars
  BY ProgressStep
<1> QED
  BY <1>1, TypeCorrect, InvariantHolds, PTL DEF Spec

-----------------------------------------------------------------------------
(* The refinement                                                          *)

Admitted == {r \in Requests : intent[r] # None /\ Evaluate(intent[r]) = "Approved"}
Logged == {task \in Requests \X Decision : Event(task) \in audit}

\* The name of an event gives back the decision.
LEMMA EventsDiffer ==
  ASSUME NEW s \in Requests \X Decision, NEW t \in Requests \X Decision,
         Event(s) = Event(t)
  PROVE  s = t
<1>1. s[1] = t[1] /\ AuditStatus(s[2]) = AuditStatus(t[2])
  BY DEF Event
<1>2. s[2] = t[2]
  BY <1>1 DEF AuditStatus, Decision
<1> QED
  BY <1>1, <1>2

\* What one request is told moves alone, with the log as it was.
LEMMA OneAnswerMoves ==
  ASSUME TypeOK, NEW r \in Requests, NEW to,
         stage' = [stage EXCEPT ![r] = to], audit' = audit
  PROVE  /\ \A k \in Requests \ {r} : AnswerGiven(k)' = AnswerGiven(k)
         /\ Logged' = Logged
BY DEF TypeOK, AnswerGiven, Logged

\* Every step maps to one of the promise's or to a stutter.
LEMMA PromiseStep ==
  ASSUME TypeOK, TypeOK', IInv, [Next]_vars
  PROVE  [Promise!Next]_(Promise!vars)
<1> USE DEF Logged
<1>0. ASSUME UNCHANGED <<stage, intent, signatures, audit>>
      PROVE  UNCHANGED Promise!vars
  BY <1>0 DEF Promise!vars, AnswerGiven
<1>1. ASSUME NEW r \in Requests, NEW i \in Intents, Submit(r, i) PROVE Promise!Next
  <2>1. /\ AnswerGiven(r) = "none"
        /\ intent' = [intent EXCEPT ![r] = i]
        /\ UNCHANGED <<signatures, audit>>
    BY <1>1 DEF Submit, AnswerGiven, Decision
  <2>2. CASE Evaluate(i) = "Approved"
    <3>1. stage' = [stage EXCEPT ![r] = "Signing"]
      BY <1>1, <2>2 DEF Submit, StartSigning
    <3>2. AnswerGiven(r)' = "waiting"
      BY <3>1 DEF AnswerGiven, TypeOK, Decision
    <3>3. Admitted' = Admitted \cup {r}
      BY <2>1, <2>2, SignIntentAssumption DEF Admitted, TypeOK
    <3>4. Promise!Admit(r)
      BY <2>1, <3>1, <3>2, <3>3, OneAnswerMoves DEF Admitted, Promise!Admit, Promise!Move
    <3> QED
      BY <3>4 DEF Promise!Next
  <2>3. CASE Evaluate(i) # "Approved"
    <3>1. stage' = [stage EXCEPT ![r] = Evaluate(i)]
      BY <1>1, <2>3 DEF Submit, Conclude
    <3>2. PICK refusal \in Promise!Decision \cup {"failed"} :
            refusal # "Approved" /\ AnswerGiven(r)' = refusal
      BY <2>3, <3>1 DEF Evaluate, AnswerGiven, TypeOK, Decision, Promise!Decision
    <3>3. Admitted' = Admitted
      <4>1. r \notin Admitted
        BY <1>1 DEF Submit, Admitted, IInv, OneSigner
      <4> QED
        BY <2>1, <2>3, <4>1 DEF Admitted, TypeOK
    <3>4. Promise!Refuse(r, refusal)
      BY <2>1, <3>1, <3>2, <3>3, OneAnswerMoves DEF Admitted, Promise!Refuse, Promise!Move
    <3> QED
      BY <3>2, <3>4 DEF Promise!Next
  <2> QED
    BY <2>2, <2>3
<1>2. ASSUME NEW r \in Requests, NEW result \in SignOutcome,
             stage[r] = "Signing", Conclude(r, result), UNCHANGED <<intent, audit>>,
             result = "Approved" =>
               \/ signatures[r] = 1 /\ signatures' = signatures
               \/ signatures[r] = 0 /\ signatures' = [signatures EXCEPT ![r] = 1],
             result # "Approved" => signatures' = signatures
      PROVE  Promise!Next
  <2>1. AnswerGiven(r) = "waiting" /\ stage' = [stage EXCEPT ![r] = result]
    BY <1>2 DEF AnswerGiven, Decision, Conclude
  <2>2. Admitted' = Admitted /\ r \in Admitted
    BY <1>2, SignIntentAssumption DEF Admitted, IInv, OnlyPassedGoOn, Passed
  <2>3. CASE result = "Approved"
    <3>1. AnswerGiven(r)' = "Approved"
      BY <2>1, <2>3 DEF AnswerGiven, TypeOK, Decision
    <3>2. Promise!Approve(r)
      BY <1>2, <2>1, <2>2, <2>3, <3>1, OneAnswerMoves
         DEF Admitted, Promise!Approve, Promise!Move, Promise!MakeSignature
    <3> QED
      BY <3>2 DEF Promise!Next
  <2>4. CASE result # "Approved"
    <3>1. AnswerGiven(r)' = "failed"
      BY <2>1, <2>4 DEF AnswerGiven, TypeOK, Decision, SignOutcome
    <3>2. Promise!Fail(r)
      BY <1>2, <2>1, <2>2, <2>4, <3>1, OneAnswerMoves
         DEF Admitted, Promise!Fail, Promise!Move
    <3> QED
      BY <3>2 DEF Promise!Next
  <2> QED
    BY <2>3, <2>4
<1>3. ASSUME NEW r \in Requests, SignInProcess(r) PROVE Promise!Next
  <2>1. PICK result \in SignOutcome :
          result = Sign(intent[r]) /\ Conclude(r, result) /\ CountSignature(r, result)
    BY <1>3, SignOutcomes DEF SignInProcess
  <2>2. stage[r] = "Signing" /\ signatures[r] = 0 /\ UNCHANGED <<intent, audit>>
    BY <1>3 DEF SignInProcess, IInv, OneSigner, Signed, TypeOK
  <2>3. signatures' = IF result = "Approved" THEN [signatures EXCEPT ![r] = 1]
                      ELSE signatures
    BY <2>1, <2>2 DEF CountSignature, TypeOK
  <2> QED
    BY <1>2, <2>1, <2>2, <2>3
<1>4. ASSUME NEW r \in Requests, WorkerSign(r) PROVE [Promise!Next]_(Promise!vars)
  <2>1. PICK result \in SignOutcome :
          CountSignature(r, result)
    BY <1>4, SignOutcomes DEF WorkerSign
  <2>2. call[r] = "sent" /\ signatures[r] = 0 /\ UNCHANGED <<stage, intent, audit>>
    BY <1>4 DEF WorkerSign, IInv, OneSigner, Signed, TypeOK
  <2>3. AnswerGiven(r) \in {"waiting", "failed"}
    <3>1. stage[r] \in {"Signing", "BadRequest", "SignerUnavailable", "Dropped"}
      BY <2>2 DEF IInv, OneSigner, ApprovedIsSigned, Signed, TypeOK, Ended, Decision
    <3> QED
      BY <3>1 DEF AnswerGiven, Decision
  <2>4. r \in Admitted
    BY <2>2, SignIntentAssumption DEF Admitted, IInv, OnlyPassedGoOn, Passed
  <2>5. CASE result = "Approved"
    <3>1. signatures' = [signatures EXCEPT ![r] = 1]
      BY <2>1, <2>2, <2>5 DEF CountSignature, TypeOK
    <3>2. \A k \in Requests : AnswerGiven(k)' = AnswerGiven(k)
      BY <2>2 DEF AnswerGiven
    <3>3. Promise!Sign(r)
      BY <2>2, <2>3, <2>4, <3>1, <3>2
         DEF Admitted, Promise!Sign, Promise!MakeSignature
    <3> QED
      BY <3>3 DEF Promise!Next
  <2>6. CASE result # "Approved"
    BY <1>0, <2>1, <2>2, <2>6 DEF CountSignature
  <2> QED
    BY <2>5, <2>6
<1>5. ASSUME NEW r \in Requests, WorkerReply(r) \/ CallFails(r) PROVE Promise!Next
  <2>1. PICK result \in {"Approved", "SignerUnavailable"} :
          Conclude(r, result) /\ (result = "Approved" => call[r] = "Approved")
    BY <1>5 DEF WorkerReply, CallFails
  <2>2. stage[r] = "Signing" /\ UNCHANGED <<intent, signatures, audit>>
    BY <1>5 DEF WorkerReply, CallFails
  <2>3. result = "Approved" => signatures[r] = 1
    BY <2>1 DEF IInv, OneSigner, SignedAtMostOnce, Signed, TypeOK
  <2> QED
    BY <1>2, <2>1, <2>2, <2>3 DEF SignOutcome
<1>6. ASSUME NEW r \in Requests, Drop(r) PROVE Promise!Next
  <2>1. /\ stage' = [stage EXCEPT ![r] = "Dropped"]
        /\ UNCHANGED <<intent, signatures, audit>>
    BY <1>6 DEF Drop
  <2>2. stage[r] = "Signing" /\ stage'[r] = "Dropped"
    BY <1>6, <2>1 DEF Drop, TypeOK
  <2>3. AnswerGiven(r) = "waiting" /\ AnswerGiven(r)' = "failed"
    BY <2>2 DEF AnswerGiven, Decision
  <2>4. Promise!Fail(r)
    BY <2>1, <2>3, OneAnswerMoves DEF Promise!Fail, Promise!Move
  <2> QED
    BY <2>4 DEF Promise!Next
<1>7. ASSUME NEW r \in Requests, RunAuditTask(r) PROVE [Promise!Next]_(Promise!vars)
  <2>1. PICK t \in tasks : audit' = audit \cup {Event(t)} \/ audit' = audit
    BY <1>7 DEF RunAuditTask
  <2>2. UNCHANGED <<stage, intent, signatures>>
    BY <1>7 DEF RunAuditTask
  <2>3. CASE audit' = audit
    BY <1>0, <2>2, <2>3
  <2>4. CASE audit' = audit \cup {Event(t)}
    <3>1. t \in Requests \X Decision /\ AnswerGiven(t[1]) = t[2]
      BY <2>1 DEF TypeOK, IInv, TasksTellTheAnswer, AnswerGiven, Decision
    <3>2. Logged' = Logged \cup {t}
      BY <2>4, <3>1, EventsDiffer DEF Event
    <3>3. \A k \in Requests : AnswerGiven(k)' = AnswerGiven(k)
      BY <2>2 DEF AnswerGiven
    <3>4. t \in Promise!Answers
      BY <3>1 DEF Promise!Answers, Promise!Decision, Decision
    <3>5. Promise!Log(t)
      BY <2>2, <3>2, <3>3, <3>4 DEF Promise!Log
    <3> QED
      BY <3>4, <3>5 DEF Promise!Next
  <2> QED
    BY <2>1, <2>3, <2>4
<1>8. CASE Restart
  <2>1. /\ stage' = [r \in Requests |->
                      IF stage[r] = "Signing" THEN "Dropped" ELSE stage[r]]
        /\ UNCHANGED <<intent, signatures>>
    BY <1>8 DEF Restart
  <2>2. \A r \in Requests :
          AnswerGiven(r)' = IF AnswerGiven(r) = "waiting" THEN "failed" ELSE AnswerGiven(r)
    BY <2>1 DEF AnswerGiven, TypeOK, Decision, Ended
  <2>3. PICK landed \in SUBSET tasks :
          audit' = IF PostgresAudit THEN audit \cup {Event(t) : t \in landed} ELSE {}
    BY <1>8 DEF Restart
  <2>4. landed \in SUBSET Promise!Answers
    BY DEF TypeOK, IInv, TasksTellTheAnswer, AnswerGiven, Promise!Answers,
           Promise!Decision, Decision
  <2>5. Logged' = IF PostgresAudit THEN Logged \cup landed ELSE {}
    <3>1. landed \subseteq Requests \X Decision
      BY DEF TypeOK
    <3> QED
      BY <2>3, <3>1, EventsDiffer DEF Event
  <2>6. Promise!End
    BY <2>1, <2>2, <2>4, <2>5 DEF Promise!End
  <2> QED
    BY <2>6 DEF Promise!Next
<1>9. CASE UNCHANGED vars
  BY <1>0, <1>9 DEF vars
<1> QED
  BY <1>1, <1>3, <1>4, <1>5, <1>6, <1>7, <1>8, <1>9 DEF Next

\* Signing keeps the promise of SigningPromise: one lasting answer, at most one
\* signature and only of what the policy admitted, a log of answers.
THEOREM Implements == Spec => KeepsSigningPromise
<1>1. Init => Promise!Init
  BY SignIntentAssumption DEF Init, Promise!Init, AnswerGiven, Decision
<1>2. TypeOK /\ TypeOK' /\ IInv /\ [Next]_vars => [Promise!Next]_(Promise!vars)
  BY PromiseStep
<1> QED
  BY <1>1, <1>2, TypeCorrect, InvariantHolds, PTL DEF Spec, KeepsSigningPromise, Promise!Spec
=============================================================================
