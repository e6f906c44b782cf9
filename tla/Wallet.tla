-------------------------------- MODULE Wallet --------------------------------
(***************************************************************************)
(* The gateway process (src/src/main.rs): the sign-intent handler and the  *)
(* broadcast service behind one server, which is shut down or killed and   *)
(* started again.                                                          *)
(*                                                                         *)
(* axum::serve(..).with_graceful_shutdown: on ctrl-c the server takes no   *)
(* new request and waits for every one it has, those included whose body   *)
(* its client is still sending and which enter their handler later.  When  *)
(* the last is answered main returns, and the tasks nobody waits for       *)
(* (broadcast worker, audit tasks) end where they stand.  The signer       *)
(* worker and the node are other processes and go on.                      *)
(*                                                                         *)
(* Exit_JoinsWorker is Exit with a fault; no specification uses it.        *)
(***************************************************************************)
EXTENDS Naturals, Sequences

CONSTANTS
  Jobs, Capacity, RpcUrls,                                 \* of Broadcast
  ReviewThreshold, U128Max, Requests, Intents, Signers,    \* of SignIntent
  PostgresAudit, MaxRestarts, None,                        \* of both
  MaxAccepted   \* bound on the number of requests accepted, over all restarts

VARIABLES
  handler, statuses, locked, queue, phase, job, outcome,   \* of Broadcast
  broadcast_audit, posts, chain, rpc_url, asked, reply,
  signer, intent, stage, call, signatures, tasks,          \* of SignIntent
  sign_audit,
  restarts,                                                \* of both
  accepted,  \* how many requests were accepted, only to bound them
  reading,   \* how many of them are still being read: nobody looks at the route
             \* of one before its body is there
  others,    \* how many handlers of other routes wait for the audit repository
  server     \* "serving", "draining" (shutting down) or "down"

castVars == <<handler, statuses, locked, queue, phase, job, outcome,
              broadcast_audit, posts, chain, rpc_url, asked, reply>>
signVars == <<signer, intent, stage, call, signatures, tasks, sign_audit>>
openVars == <<accepted, reading, others>>
vars == <<castVars, signVars, restarts, openVars, server>>

\* Each records its own kind of event in the one repository.
Cast == INSTANCE Broadcast WITH audit <- broadcast_audit
Sign == INSTANCE SignIntent WITH audit <- sign_audit

\* What the components assume of their constants.
ASSUME WalletAssumption ==
  /\ Capacity \in Nat \ {0}
  /\ RpcUrls # {} /\ RpcUrls \subseteq BOOLEAN
  /\ ReviewThreshold \in Nat
  /\ U128Max \in Nat
  /\ ReviewThreshold < U128Max
  /\ Intents \subseteq Sign!Intent
  /\ Signers \subseteq [mode : Sign!SignerMode, keyed : BOOLEAN]
  /\ PostgresAudit \in BOOLEAN
  /\ MaxRestarts \in Nat
  /\ None \notin Jobs \cup Intents
  /\ MaxAccepted \in Nat

Init ==
  /\ Cast!Init
  /\ Sign!Init
  /\ accepted = 0
  /\ reading = 0
  /\ others = 0
  /\ server = "serving"

-----------------------------------------------------------------------------
(* Requests, tasks and peers                                               *)

\* A step of one component while the process runs; the other stands still.
OfCast(step) == server # "down" /\ step /\ UNCHANGED <<signVars, openVars, server>>
OfSign(step) == server # "down" /\ step /\ UNCHANGED <<castVars, openVars, server>>

\* Requests are accepted until the shutdown begins.
Arrive ==
  /\ server = "serving"
  /\ accepted < MaxAccepted
  /\ accepted' = accepted + 1
  /\ reading' = reading + 1
  /\ UNCHANGED <<castVars, signVars, restarts, others, server>>

\* One of the requests that were being read is done with it.
ReadingEnds ==
  /\ server # "down"
  /\ reading > 0
  /\ reading' = reading - 1
  /\ UNCHANGED <<accepted, server>>

\* The id that enqueue mints is a new one; which one nobody can tell.
NewId ==
  LET unused == {j \in Jobs : handler[j] = "idle"}
  IN  IF unused = {} THEN {} ELSE {CHOOSE j \in unused : TRUE}

\* The body is there and authenticated, and the handler of its route runs to
\* its first await; also while the server drains.
Enter ==
  /\ ReadingEnds
  /\ \/ /\ \/ \E j \in NewId : Cast!Post(j)
           \/ \E j \in Jobs : Cast!Poll(j)
        /\ UNCHANGED <<signVars, others>>
     \/ /\ \E r \in Requests, i \in Intents : Sign!Submit(r, i)
        /\ UNCHANGED <<castVars, others>>
     \/ /\ others' = others + 1    \* simulate-transaction, audit-events
        /\ UNCHANGED <<castVars, signVars, restarts>>

\* The client stops sending, the middleware or the extractor refuses the
\* request, or its handler answers without an await (verify, prepare).
Leave ==
  /\ ReadingEnds
  /\ UNCHANGED <<castVars, signVars, restarts, others>>

\* The audit repository answers the handler of another route, or its client
\* goes away.
OtherEnds ==
  /\ server # "down"
  /\ others > 0
  /\ others' = others - 1
  /\ UNCHANGED <<castVars, signVars, restarts, accepted, reading, server>>

\* The handlers and tasks of the process, and the clients that go away.
HandlerStep ==
  \/ \E j \in Jobs :
       OfCast(\/ Cast!Insert(j) \/ Cast!Send(j) \/ Cast!SendClosed(j)
              \/ Cast!RecordQueued(j) \/ Cast!Drop(j))
  \/ OfCast(Cast!PollAnswer)
  \/ \E r \in Requests :
       OfSign(Sign!SignInProcess(r) \/ Sign!WorkerReply(r) \/ Sign!CallFails(r)
                \/ Sign!Drop(r))

TaskStep ==
  \/ OfCast(Cast!Worker)
  \/ \E r \in Requests : OfSign(Sign!RunAuditTask(r))

\* The node and the signer worker, whether or not the gateway runs.
PeerStep ==
  \/ /\ \E j \in Jobs : Cast!NodeAccepts(j)
     /\ UNCHANGED <<signVars, openVars, server>>
  \/ /\ \E r \in Requests : Sign!WorkerSign(r)
     /\ UNCHANGED <<castVars, openVars, server>>

-----------------------------------------------------------------------------
(* The life of the process                                                 *)

\* A request that was accepted and is not answered.
Open ==
  \/ reading > 0
  \/ others > 0
  \/ \E j \in Jobs : handler[j] \in Cast!InFlight
  \/ reply = "waiting"
  \/ \E r \in Requests : stage[r] = "Signing"

Move(from, to) ==
  /\ server \in from
  /\ server' = to
  /\ UNCHANGED <<castVars, signVars, restarts, openVars>>

Shutdown == Move({"serving"}, "draining")

\* Fault: main waits for the broadcast worker too, whose loop never ends.
Exit_JoinsWorker == ~Open /\ phase = "dead" /\ Move({"draining"}, "down")

\* main returns and the runtime drops what is still running.
Exit == ~Open /\ Move({"draining"}, "down")

Kill == Move({"serving", "draining"}, "down")

\* What the process held is lost in both components at once.
Start ==
  /\ server = "down"
  /\ Cast!Restart
  /\ Sign!Restart
  /\ reading' = 0
  /\ others' = 0
  /\ server' = "serving"
  /\ UNCHANGED accepted

Next == Arrive \/ Enter \/ Leave \/ OtherEnds \/ HandlerStep \/ TaskStep \/ PeerStep
          \/ Shutdown \/ Exit \/ Kill \/ Start

Spec == Init /\ [][Next]_vars

\* The fairness of the components: the executor runs every task that is ready,
\* and the audit repository answers.  Nobody has to shut down, kill or start
\* the process.  Nothing is assumed of those it waits for without a timeout:
\* clients that send a body, the node, the signer worker.
FairSpec ==
  /\ Spec
  /\ \A j \in Jobs :
       /\ WF_vars(OfCast(Cast!Insert(j)))
       /\ WF_vars(OfCast(Cast!Send(j)))
       /\ WF_vars(OfCast(Cast!SendClosed(j)))
       /\ WF_vars(OfCast(Cast!RecordQueued(j)))
  /\ WF_vars(OfCast(Cast!WorkerStart \/ Cast!WorkerPanic))
  /\ WF_vars(OfCast(Cast!Recv))
  /\ WF_vars(OfCast(Cast!Publish))
  /\ WF_vars(OfCast(Cast!RecordOutcome))
  /\ WF_vars(OfCast(Cast!PollAnswer))
  /\ \A r \in Requests :
       /\ WF_vars(OfSign(Sign!SignInProcess(r)))
       /\ WF_vars(OfSign(Sign!WorkerReply(r)))
  /\ WF_vars(OtherEnds)
  /\ WF_vars(Exit)

-----------------------------------------------------------------------------
(* Properties                                                              *)

\* An open request waits for somebody outside the process who has no deadline:
\* a client that has not sent its whole body, the node while the channel is
\* full behind the job it was posted, the signer worker that has been called.
PeerIsAwaited ==
  \/ reading > 0
  \/ phase = "rpc" /\ ~Cast!HasRoom /\ \E j \in Jobs : handler[j] = "send"
  \/ \E r \in Requests : stage[r] = "Signing" /\ call[r] = "sent"

\* Whoever keeps the server from draining can go on, or is one of these: no
\* open request waits for another request, nor for the status lock or for room
\* in the channel with nobody who would give it.
OpenRequestsAreServed ==
  Open =>
    \/ PeerIsAwaited
    \/ Cast!TaskIsReady
    \/ others > 0
    \/ \E r \in Requests :
         /\ stage[r] = "Signing"
         /\ IF signer.mode = "remote_mtls" THEN call[r] \in Sign!SignOutcome
            ELSE call[r] = "none"

\* A shutdown comes to its end, or for ever waits for one of these peers: the
\* tasks that main does not wait for are no reason, nor is the order in which
\* requests are read, enter their handlers and are answered.
DrainEnds == <>[](server = "draining") => <>[]PeerIsAwaited
=============================================================================
