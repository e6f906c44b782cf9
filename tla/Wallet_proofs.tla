----------------------------- MODULE Wallet_proofs -----------------------------
(***************************************************************************)
(* Theorems about the gateway process: what is proved of the broadcast     *)
(* service and of signing on their own holds of the two behind one server. *)
(***************************************************************************)
EXTENDS Wallet, TLAPS

\* The components with their theorems.
CastP == INSTANCE Broadcast_proofs WITH audit <- broadcast_audit
SignP == INSTANCE SignIntent_proofs WITH audit <- sign_audit

-----------------------------------------------------------------------------
(* The process implements its components                                   *)

\* The constants of the process meet the assumptions of the broadcast service,
LEMMA CastConstants == CastP!BroadcastAssumption /\ CastP!RpcUrlsAssumption
BY WalletAssumption DEF CastP!BroadcastAssumption, CastP!RpcUrlsAssumption

\* and those of signing and its policy.
LEMMA SignConstants == SignP!SignIntentAssumption /\ SignP!PolicyAssumption
BY WalletAssumption
   DEF SignP!SignIntentAssumption, SignP!PolicyAssumption,
       SignP!Intent, SignP!SignerMode, SignP!OperationKind, SignP!Payload, SignP!Defect,
       Sign!Intent, Sign!SignerMode, Sign!OperationKind, Sign!Payload, Sign!Defect

\* A step of a request or task of the broadcast service is a step of the
\* service, and not a restart.
LEMMA CastRequest ==
  ASSUME NEW j \in Jobs,
         \/ Cast!Post(j) \/ Cast!Poll(j) \/ Cast!Insert(j) \/ Cast!Send(j)
         \/ Cast!SendClosed(j) \/ Cast!RecordQueued(j) \/ Cast!Drop(j)
         \/ Cast!NodeAccepts(j)
  PROVE  CastP!Next /\ UNCHANGED restarts
<1> USE DEF Cast!Advance, CastP!Advance, Cast!workerVars, CastP!workerVars,
            Cast!nodeVars, CastP!nodeVars, Cast!pollVars, CastP!pollVars
<1>1. Cast!Post(j) => CastP!Post(j) /\ UNCHANGED restarts
  BY DEF Cast!Post, CastP!Post
<1>2. Cast!Poll(j) => CastP!Poll(j) /\ UNCHANGED restarts
  BY DEF Cast!Poll, CastP!Poll
<1>3. Cast!Insert(j) => CastP!Insert(j) /\ UNCHANGED restarts
  BY DEF Cast!Insert, CastP!Insert
<1>4. Cast!Send(j) => CastP!Send(j) /\ UNCHANGED restarts
  BY DEF Cast!Send, CastP!Send, Cast!HasRoom, CastP!HasRoom
<1>5. Cast!SendClosed(j) => CastP!SendClosed(j) /\ UNCHANGED restarts
  BY DEF Cast!SendClosed, CastP!SendClosed
<1>6. Cast!RecordQueued(j) => CastP!RecordQueued(j) /\ UNCHANGED restarts
  BY DEF Cast!RecordQueued, CastP!RecordQueued, Cast!Record, CastP!Record
<1>7. Cast!Drop(j) => CastP!Drop(j) /\ UNCHANGED restarts
  BY DEF Cast!Drop, CastP!Drop, Cast!InFlight, CastP!InFlight,
     Cast!Abandon, CastP!Abandon, Cast!PendingEvents, CastP!PendingEvents,
     Cast!SettledState, CastP!SettledState
<1>8. Cast!NodeAccepts(j) => CastP!NodeAccepts(j) /\ UNCHANGED restarts
  BY DEF Cast!NodeAccepts, CastP!NodeAccepts
<1> QED
  BY <1>1, <1>2, <1>3, <1>4, <1>5, <1>6, <1>7, <1>8 DEF CastP!Next, CastP!Enqueue

\* So is a step of the worker, or the answer to a status request.
LEMMA CastTask ==
  ASSUME Cast!Worker \/ Cast!PollAnswer
  PROVE  CastP!Next /\ UNCHANGED restarts
<1> USE DEF Cast!workerVars, CastP!workerVars, Cast!nodeVars, CastP!nodeVars,
            Cast!pollVars, CastP!pollVars
<1>1. Cast!WorkerStart => CastP!WorkerStart /\ UNCHANGED restarts
  BY DEF Cast!WorkerStart, CastP!WorkerStart
<1>2. Cast!WorkerPanic => CastP!WorkerPanic /\ UNCHANGED restarts
  BY DEF Cast!WorkerPanic, CastP!WorkerPanic
<1>3. Cast!Recv => CastP!Recv /\ UNCHANGED restarts
  BY DEF Cast!Recv, CastP!Recv, Cast!Remaining, CastP!Remaining
<1>4. Cast!RpcReply => CastP!RpcReply /\ UNCHANGED restarts
  BY DEF Cast!RpcReply, CastP!RpcReply, Cast!RpcReturns, CastP!RpcReturns
<1>5. Cast!Publish => CastP!Publish /\ UNCHANGED restarts
  BY DEF Cast!Publish, CastP!Publish, Cast!SettledState, CastP!SettledState
<1>6. Cast!RecordOutcome => CastP!RecordOutcome /\ UNCHANGED restarts
  BY DEF Cast!RecordOutcome, CastP!RecordOutcome, Cast!Record, CastP!Record,
     Cast!OutcomeEvent, CastP!OutcomeEvent, Cast!SettledState, CastP!SettledState
<1>7. Cast!PollAnswer => CastP!PollAnswer /\ UNCHANGED restarts
  BY DEF Cast!PollAnswer, CastP!PollAnswer, Cast!RowOrUnknown, CastP!RowOrUnknown
<1> QED
  BY <1>1, <1>2, <1>3, <1>4, <1>5, <1>6, <1>7 DEF Cast!Worker, CastP!Next, CastP!Worker

\* The start of the process is the restart of the service.
LEMMA CastRestart == Cast!Restart => CastP!Restart
BY DEF Cast!Restart, CastP!Restart, Cast!AfterRestart, CastP!AfterRestart,
   Cast!InFlight, CastP!InFlight, Cast!Abandon, CastP!Abandon,
   Cast!PendingEvents, CastP!PendingEvents, Cast!SettledState, CastP!SettledState

\* A step of a request, of its audit task or of the signer worker is a step of
\* signing, and not a restart.
LEMMA SignRequest ==
  ASSUME NEW r \in Requests,
         \/ \E i \in Intents : Sign!Submit(r, i)
         \/ Sign!SignInProcess(r) \/ Sign!WorkerReply(r) \/ Sign!CallFails(r)
         \/ Sign!Drop(r) \/ Sign!RunAuditTask(r) \/ Sign!WorkerSign(r)
  PROVE  SignP!Next /\ UNCHANGED restarts
<1> USE DEF Sign!Conclude, SignP!Conclude, Sign!Decision, SignP!Decision,
            Sign!SignOutcome, SignP!SignOutcome
<1>1. \A i \in Intents :
        Sign!Submit(r, i) => SignP!Submit(r, i) /\ UNCHANGED restarts
  <2>1. \A i \in Intents : Sign!Evaluate(i) = SignP!Evaluate(i)
    BY DEF Sign!Evaluate, SignP!Evaluate, Sign!IsMalformed, SignP!IsMalformed,
       Sign!NeedsReview, SignP!NeedsReview, Sign!IsUnexplainedCall,
       SignP!IsUnexplainedCall
  <2> QED
    BY <2>1 DEF Sign!Submit, SignP!Submit, Sign!StartSigning, SignP!StartSigning
<1>2. /\ \A i : Sign!Sign(i) = SignP!Sign(i)
      /\ \A i, keyed : Sign!LocalDevSign(i, keyed) = SignP!LocalDevSign(i, keyed)
  BY DEF Sign!Sign, SignP!Sign, Sign!LocalDevSign, SignP!LocalDevSign
<1>3. Sign!SignInProcess(r) => SignP!SignInProcess(r) /\ UNCHANGED restarts
  BY <1>2 DEF Sign!SignInProcess, SignP!SignInProcess, Sign!CountSignature,
     SignP!CountSignature
<1>4. Sign!WorkerSign(r) => SignP!WorkerSign(r) /\ UNCHANGED restarts
  BY <1>2 DEF Sign!WorkerSign, SignP!WorkerSign, Sign!CountSignature,
     SignP!CountSignature
<1>5. Sign!WorkerReply(r) => SignP!WorkerReply(r) /\ UNCHANGED restarts
  BY DEF Sign!WorkerReply, SignP!WorkerReply
<1>6. Sign!CallFails(r) => SignP!CallFails(r) /\ UNCHANGED restarts
  BY DEF Sign!CallFails, SignP!CallFails
<1>7. Sign!Drop(r) => SignP!Drop(r) /\ UNCHANGED restarts
  BY DEF Sign!Drop, SignP!Drop
<1>8. Sign!RunAuditTask(r) => SignP!RunAuditTask(r) /\ UNCHANGED restarts
  BY DEF Sign!RunAuditTask, SignP!RunAuditTask, Sign!Event, SignP!Event,
     Sign!AuditStatus, SignP!AuditStatus
<1> QED
  BY <1>1, <1>3, <1>4, <1>5, <1>6, <1>7, <1>8 DEF SignP!Next

\* The start of the process is the restart of signing.
LEMMA SignRestart == Sign!Restart => SignP!Restart
BY DEF Sign!Restart, SignP!Restart, Sign!Event, SignP!Event, Sign!AuditStatus,
   SignP!AuditStatus

\* The process starts where its components start.
LEMMA SameStart == Init => CastP!Init /\ SignP!Init
BY DEF Init, Cast!Init, CastP!Init, Sign!Init, SignP!Init

\* A request that was being read is read no more.
OneReadLess == reading > 0 /\ reading' = reading - 1

\* One step of broadcasting, of signing, of the open requests that neither of
\* them has, of the server, and a start.  A status request comes in only when
\* it has been read.
CastMoves ==
  /\ CastP!Next
  /\ UNCHANGED <<signVars, restarts, accepted, others, server>>
  /\ \/ OneReadLess
     \/ UNCHANGED reading /\ (reply' = "waiting" => reply = "waiting")

SignMoves ==
  /\ SignP!Next
  /\ UNCHANGED <<castVars, restarts, accepted, others, server>>
  /\ OneReadLess \/ UNCHANGED reading

OpenMoves ==
  /\ UNCHANGED <<castVars, signVars, restarts, server>>
  /\ \/ server = "serving"
     \/ OneReadLess
     \/ UNCHANGED reading /\ others > 0 /\ others' = others - 1

ServerMoves ==
  /\ \/ server = "serving" /\ server' \in {"draining", "down"}
     \/ server = "draining" /\ server' = "down"
  /\ UNCHANGED <<castVars, signVars, restarts, openVars>>

ProcessStarts ==
  /\ server = "down" /\ server' = "serving"
  /\ CastP!Restart /\ SignP!Restart

\* A step of the process is a step of one component, of the other requests, a
\* move of the server, or a start, which restarts both components.
LEMMA ProcessStep ==
  Next => CastMoves \/ SignMoves \/ OpenMoves \/ ServerMoves \/ ProcessStarts
<1> USE DEF openVars
<1>1. ASSUME NEW j \in Jobs,
             \/ OfCast(\/ Cast!Insert(j) \/ Cast!Send(j) \/ Cast!SendClosed(j)
                       \/ Cast!RecordQueued(j) \/ Cast!Drop(j))
             \/ Cast!NodeAccepts(j) /\ UNCHANGED <<signVars, openVars, server>>
      PROVE  CastMoves
  <2>1. CastP!Next /\ UNCHANGED restarts
    BY <1>1, CastRequest DEF OfCast
  <2>2. UNCHANGED <<signVars, openVars, server>>
    BY <1>1 DEF OfCast
  <2>3. reply' = reply
    BY <1>1 DEF OfCast, Cast!Insert, Cast!Send, Cast!SendClosed, Cast!RecordQueued,
       Cast!Drop, Cast!NodeAccepts, Cast!pollVars
  <2> QED
    BY <2>1, <2>2, <2>3 DEF CastMoves
<1>2. ASSUME OfCast(Cast!Worker) \/ OfCast(Cast!PollAnswer)
      PROVE  CastMoves
  <2>1. CastP!Next /\ UNCHANGED restarts
    BY <1>2, CastTask DEF OfCast
  <2>2. UNCHANGED <<signVars, openVars, server>>
    BY <1>2 DEF OfCast
  <2>3. reply' = reply \/ reply = "waiting"
    BY <1>2 DEF OfCast, Cast!Worker, Cast!WorkerStart, Cast!WorkerPanic, Cast!Recv,
       Cast!RpcReply, Cast!Publish, Cast!RecordOutcome, Cast!PollAnswer, Cast!pollVars
  <2> QED
    BY <2>1, <2>2, <2>3 DEF CastMoves
<1>3. ASSUME NEW r \in Requests,
             \/ OfSign(Sign!SignInProcess(r) \/ Sign!WorkerReply(r)
                         \/ Sign!CallFails(r) \/ Sign!Drop(r))
             \/ OfSign(Sign!RunAuditTask(r))
             \/ Sign!WorkerSign(r) /\ UNCHANGED <<castVars, openVars, server>>
      PROVE  SignMoves
  <2>1. SignP!Next /\ UNCHANGED restarts
    BY <1>3, SignRequest DEF OfSign
  <2>2. UNCHANGED <<castVars, openVars, server>>
    BY <1>3 DEF OfSign
  <2> QED
    BY <2>1, <2>2 DEF SignMoves
<1>4. Enter => CastMoves \/ SignMoves \/ OpenMoves
  <2> SUFFICES ASSUME Enter
               PROVE  CastMoves \/ SignMoves \/ OpenMoves
    OBVIOUS
  <2>1. OneReadLess /\ UNCHANGED <<accepted, server>>
    BY DEF Enter, ReadingEnds, OneReadLess
  <2>2. ASSUME NEW j \in Jobs, Cast!Post(j) \/ Cast!Poll(j), UNCHANGED <<signVars, others>>
        PROVE  CastMoves
    BY <2>1, <2>2, CastRequest DEF CastMoves
  <2>3. ASSUME NEW r \in Requests, NEW i \in Intents, Sign!Submit(r, i),
               UNCHANGED <<castVars, others>>
        PROVE  SignMoves
    BY <2>1, <2>3, SignRequest DEF SignMoves
  <2>4. NewId \subseteq Jobs
    BY DEF NewId
  <2> QED
    BY <2>1, <2>2, <2>3, <2>4 DEF Enter, OpenMoves
<1>5. Arrive \/ Leave \/ OtherEnds => OpenMoves
  BY DEF Arrive, Leave, ReadingEnds, OneReadLess, OtherEnds, OpenMoves
<1>6. Shutdown \/ Exit \/ Kill => ServerMoves
  BY DEF Shutdown, Exit, Kill, Move, ServerMoves
<1>7. Start => ProcessStarts
  BY CastRestart, SignRestart DEF Start, ProcessStarts
<1>8. HandlerStep => CastMoves \/ SignMoves
  BY <1>1, <1>2, <1>3 DEF HandlerStep
<1>9. TaskStep => CastMoves \/ SignMoves
  BY <1>2, <1>3 DEF TaskStep
<1>10. PeerStep => CastMoves \/ SignMoves
  BY <1>1, <1>3 DEF PeerStep
<1> QED
  BY <1>4, <1>5, <1>6, <1>7, <1>8, <1>9, <1>10 DEF Next

\* Every behaviour of the process is, for the broadcast service, a behaviour
\* of the service alone, and for signing one of signing alone: nothing that
\* one does, and no moment the server stops at, is new to the other.
THEOREM ProcessImplementsComponents == Spec => CastP!Spec /\ SignP!Spec
<1>1. [Next]_vars => [CastP!Next]_(CastP!vars)
  <2>1. CastMoves \/ ProcessStarts => CastP!Next
    BY DEF CastMoves, ProcessStarts, CastP!Next
  <2>2. SignMoves \/ OpenMoves \/ ServerMoves \/ UNCHANGED vars => UNCHANGED CastP!vars
    BY DEF SignMoves, OpenMoves, ServerMoves, vars, castVars, CastP!vars, CastP!workerVars,
       CastP!nodeVars, CastP!pollVars
  <2> QED
    BY <2>1, <2>2, ProcessStep
<1>2. [Next]_vars => [SignP!Next]_(SignP!vars)
  <2>1. SignMoves \/ ProcessStarts => SignP!Next
    BY DEF SignMoves, ProcessStarts, SignP!Next
  <2>2. CastMoves \/ OpenMoves \/ ServerMoves \/ UNCHANGED vars => UNCHANGED SignP!vars
    BY DEF CastMoves, OpenMoves, ServerMoves, vars, signVars, SignP!vars
  <2> QED
    BY <2>1, <2>2, ProcessStep
<1> QED
  BY <1>1, <1>2, SameStart, PTL DEF Spec, CastP!Spec, SignP!Spec

\* What was proved of the broadcast service holds of the process, with signing
\* next to it and a server that drains, is killed and started again.
THEOREM BroadcastHolds ==
  Spec =>
    /\ []CastP!TypeOK /\ []CastP!JobHasQueuedRow /\ []CastP!PostedAtMostOnce
    /\ []CastP!SubmittedIsOnChain /\ []CastP!AcknowledgedIsOwned
    /\ []CastP!AcknowledgedIsAudited /\ []CastP!AuditAgreesWithRow
    /\ []CastP!UnknownOnlyAfterRestart /\ []CastP!NobodyIsStuck
    /\ CastP!SettledForGood /\ CastP!KeepsPromise
<1>1. Spec => CastP!Spec
  BY ProcessImplementsComponents
<1>2. CastP!Spec =>
        /\ []CastP!TypeOK /\ []CastP!JobHasQueuedRow /\ []CastP!PostedAtMostOnce
        /\ []CastP!SubmittedIsOnChain /\ []CastP!AcknowledgedIsOwned
  BY CastConstants, CastP!TypeCorrect, CastP!RowBeforeOutcome, CastP!NoSecondPost,
     CastP!SubmittedIsTrue, CastP!NoOrphan
<1>3. CastP!Spec =>
        /\ []CastP!AcknowledgedIsAudited /\ []CastP!AuditAgreesWithRow
        /\ []CastP!UnknownOnlyAfterRestart /\ []CastP!NobodyIsStuck
  BY CastConstants, CastP!QueuedEventKept, CastP!OneEnd, CastP!KnownUntilRestart,
     CastP!NoCircularWait
<1>4. CastP!Spec => CastP!SettledForGood /\ CastP!KeepsPromise
  BY CastConstants, CastP!SettledStays, CastP!Implements
<1> QED
  BY <1>1, <1>2, <1>3, <1>4

\* What was proved of signing holds of the process.
THEOREM SigningHolds ==
  Spec =>
    /\ []SignP!TypeOK /\ []SignP!SignedWithinDeclaredPolicy /\ []SignP!SignedAtMostOnce
    /\ []SignP!ApprovedIsSigned /\ []SignP!AuditTellsTheAnswer
    /\ []SignP!AnsweredIsBoundForAudit /\ []SignP!RefusedByRule
    /\ []SignP!SigningIsUnderWay /\ SignP!KeepsSigningPromise
<1>1. Spec => SignP!Spec
  BY ProcessImplementsComponents
<1>2. SignP!Spec =>
        /\ []SignP!TypeOK /\ []SignP!SignedWithinDeclaredPolicy
        /\ []SignP!SignedAtMostOnce /\ []SignP!ApprovedIsSigned
        /\ []SignP!AuditTellsTheAnswer
  BY SignConstants, SignP!TypeCorrect, SignP!PolicyGuardsSigner, SignP!OneSignature,
     SignP!ApprovalIsBacked, SignP!AuditIsTrue
<1>3. SignP!Spec =>
        /\ []SignP!AnsweredIsBoundForAudit /\ []SignP!RefusedByRule
        /\ []SignP!SigningIsUnderWay /\ SignP!KeepsSigningPromise
  BY SignConstants, SignP!AnswersReachTheLog, SignP!RefusalsHaveReasons,
     SignP!NobodyWaitsInVain, SignP!Implements
<1> QED
  BY <1>1, <1>2, <1>3

-----------------------------------------------------------------------------
(* A shutdown that has begun moves to its end                              *)

\* A server that drains, or serves, never has an open request that waits for
\* nobody: whoever is not ready waits for a client that is still sending, for
\* the node behind a full channel, or for the signer worker that was called.
THEOREM DrainIsServed == Spec => []OpenRequestsAreServed
<1>1. ASSUME CastP!NobodyIsStuck, SignP!SigningIsUnderWay
      PROVE  OpenRequestsAreServed
  <2>1. CastP!TaskIsReady => Cast!TaskIsReady
    BY DEF CastP!TaskIsReady, Cast!TaskIsReady, CastP!HasRoom, Cast!HasRoom
  <2>2. CASE \/ \E j \in Jobs : handler[j] \in Cast!InFlight
             \/ reply = "waiting"
    <3>1. CastP!TaskIsReady \/ phase = "rpc"
      BY <1>1, <2>2 DEF CastP!NobodyIsStuck, CastP!TaskWaits, Cast!InFlight, CastP!InFlight
    <3>2. ASSUME phase = "rpc", ~Cast!TaskIsReady
          PROVE  PeerIsAwaited
      <4>1. ~locked
        BY <1>1, <3>2 DEF CastP!NobodyIsStuck
      <4>2. reply # "waiting" /\ \E j \in Jobs : handler[j] = "send" /\ ~Cast!HasRoom
        BY <2>2, <3>2, <4>1 DEF Cast!TaskIsReady, Cast!InFlight
      <4> QED
        BY <3>2, <4>2 DEF PeerIsAwaited
    <3> QED
      BY <2>1, <3>1, <3>2 DEF OpenRequestsAreServed
  <2>3. ASSUME NEW r \in Requests, stage[r] = "Signing"
        PROVE  OpenRequestsAreServed
    BY <1>1, <2>3 DEF SignP!SigningIsUnderWay, OpenRequestsAreServed, PeerIsAwaited,
       SignP!SignOutcome, Sign!SignOutcome
  <2>4. CASE reading > 0 \/ others > 0
    BY <2>4 DEF OpenRequestsAreServed, PeerIsAwaited
  <2> QED
    BY <2>2, <2>3, <2>4 DEF OpenRequestsAreServed, Open
<1> QED
  BY <1>1, BroadcastHolds, SigningHolds, PTL

\* A step that leaves less to do in one component and touches nothing else.
CastLeavesLess == CastP!NoJobFallsBack /\ CastP!LessToDo /\ UNCHANGED signVars

SignLeavesLess ==
  /\ \A r \in Requests : SignP!RequestWork(r)' <= SignP!RequestWork(r)
  /\ \E r \in Requests : SignP!RequestWork(r)' < SignP!RequestWork(r)
  /\ UNCHANGED castVars

\* One handler of another route less is open, and nothing else has moved.
OneOtherLess == others > 0 /\ others' = others - 1 /\ UNCHANGED <<castVars, signVars>>

\* Once the shutdown has begun no request is accepted, and a step does one of
\* three things: it takes a request from those that are being read, and perhaps
\* into its handler; it leaves those alone and leaves less to do in one
\* component or for one handler, and as much in the others; or it ends the
\* process.  That order has no endless descent.
DrainGoesOn ==
  server = "draining" =>
    \/ server' = "draining" /\ OneReadLess
    \/ /\ server' = "draining" /\ UNCHANGED reading
       /\ \/ UNCHANGED others /\ (CastLeavesLess \/ SignLeavesLess)
          \/ OneOtherLess
    \/ server' = "down" /\ UNCHANGED <<castVars, signVars, reading, others>>

\* A shutdown never goes round in a circle: whatever happens during it, of the
\* server, of requests that come late to their handlers, of the tasks and of
\* their peers, brings it nearer to its end.
THEOREM DrainIsProgress == Spec => [][DrainGoesOn]_vars
<1>1. CastP!TypeOK => restarts + 1 # restarts
  BY CastConstants DEF CastP!TypeOK, CastP!BroadcastAssumption
<1>2. ASSUME restarts + 1 # restarts, server = "draining", CastMoves, ~OneReadLess,
             [CastP!Progress]_(CastP!vars), ~UNCHANGED vars
      PROVE  CastLeavesLess /\ UNCHANGED <<server, reading, others>>
  <2>1. UNCHANGED <<signVars, restarts, openVars, server>>
        /\ (reply' = "waiting" => reply = "waiting")
    BY <1>2 DEF CastMoves, openVars
  <2>2. CastP!Progress
    BY <1>2, <2>1 DEF vars, castVars, CastP!vars, CastP!workerVars, CastP!nodeVars,
       CastP!pollVars
  <2>3. ~CastP!Restart
    BY <1>2, <2>1 DEF CastP!Restart
  <2>4. ~\E j \in Jobs : CastP!Poll(j)
    BY <2>1 DEF CastP!Poll
  <2> QED
    BY <2>1, <2>2, <2>3, <2>4 DEF CastP!Progress, CastLeavesLess, openVars
<1>3. ASSUME restarts + 1 # restarts, server = "draining", SignMoves, ~OneReadLess,
             [SignP!Progress]_(SignP!vars), ~UNCHANGED vars
      PROVE  SignLeavesLess /\ UNCHANGED <<server, reading, others>>
  <2>1. UNCHANGED <<castVars, restarts, openVars, server>>
    BY <1>3 DEF SignMoves, openVars
  <2>2. SignP!Progress
    BY <1>3, <2>1 DEF vars, signVars, SignP!vars
  <2>3. ~SignP!Restart
    BY <1>3, <2>1 DEF SignP!Restart
  <2> QED
    BY <2>1, <2>2, <2>3 DEF SignP!Progress, SignLeavesLess, openVars
<1>4. CastP!TypeOK /\ [Next]_vars /\ [CastP!Progress]_(CastP!vars)
        /\ [SignP!Progress]_(SignP!vars) => [DrainGoesOn]_vars
  <2> SUFFICES ASSUME CastP!TypeOK, Next, [CastP!Progress]_(CastP!vars),
                      [SignP!Progress]_(SignP!vars), ~UNCHANGED vars,
                      server = "draining"
               PROVE  DrainGoesOn
    BY DEF DrainGoesOn
  <2>1. CASE CastMoves
    <3>1. CASE OneReadLess
      BY <2>1, <3>1 DEF CastMoves, DrainGoesOn
    <3>2. CASE ~OneReadLess
      BY <2>1, <3>2, <1>1, <1>2 DEF DrainGoesOn
    <3> QED
      BY <3>1, <3>2
  <2>2. CASE SignMoves
    <3>1. CASE OneReadLess
      BY <2>2, <3>1 DEF SignMoves, DrainGoesOn
    <3>2. CASE ~OneReadLess
      BY <2>2, <3>2, <1>1, <1>3 DEF DrainGoesOn
    <3> QED
      BY <3>1, <3>2
  <2>3. CASE OpenMoves
    BY <2>3 DEF OpenMoves, DrainGoesOn, OneOtherLess
  <2>4. CASE ServerMoves
    BY <2>4 DEF ServerMoves, DrainGoesOn, openVars
  <2>5. CASE ProcessStarts
    BY <2>5 DEF ProcessStarts
  <2> QED
    BY <2>1, <2>2, <2>3, <2>4, <2>5, ProcessStep
<1>5. CastP!Spec => [][CastP!Progress]_(CastP!vars)
  BY CastConstants, CastP!EveryStepIsProgress
<1>6. SignP!Spec => [][SignP!Progress]_(SignP!vars)
  BY SignConstants, SignP!EveryStepIsProgress
<1> QED
  BY <1>4, <1>5, <1>6, BroadcastHolds, ProcessImplementsComponents, PTL DEF Spec
=============================================================================
