------------------------------ MODULE Broadcast ------------------------------
(***************************************************************************)
(* The broadcast service of ai-wallet: src/src/broadcast.rs and the two    *)
(* HTTP handlers in front of it (src/src/api.rs).                          *)
(*                                                                         *)
(* A POST handler stores a status row, sends the job into a bounded        *)
(* channel and records a "queued" audit event.  One worker task takes the  *)
(* jobs, posts each to the RPC node, writes the outcome into the row and   *)
(* records a second audit event while it still holds the write lock of     *)
(* the status map.  A GET handler reads a row under the read lock.         *)
(*                                                                         *)
(* Every action is the code between two await points of one task.  A task  *)
(* that the server drops (client gone) stops at an await; a restart loses  *)
(* everything but the Postgres audit table and what the node has seen.     *)
(*                                                                         *)
(* A definition named Name_Fault is Name with a fault a programmer could   *)
(* make.  No specification uses one: they are there to be put in Name's    *)
(* place, to see that the properties notice.                               *)
(***************************************************************************)
EXTENDS Naturals, Sequences

CONSTANTS
  Jobs,           \* broadcast ids, one for each POST (Uuid::new_v4)
  Capacity,       \* bound of the mpsc channel, 128 in the code
  RpcUrls,        \* whether AI_WALLET_RPC_URL may be set: a set of Booleans
  PostgresAudit,  \* DATABASE_URL is set; otherwise the audit log is in memory
  MaxRestarts,    \* bound on the number of restarts explored
  None            \* no job

ASSUME BroadcastAssumption ==
  /\ Capacity \in Nat \ {0}
  /\ PostgresAudit \in BOOLEAN
  /\ MaxRestarts \in Nat
  /\ None \notin Jobs

ASSUME RpcUrlsAssumption == RpcUrls # {} /\ RpcUrls \subseteq BOOLEAN

VARIABLES
  handler,   \* where the POST of each job stands
  statuses,  \* the status map: the state of each row, or "absent"
  locked,    \* a write guard of the status map is held across an await
  queue,     \* the channel
  phase,     \* the await the worker task stands at
  job,       \* the job in the worker's hands
  outcome,   \* what submit_transaction returned for it
  audit,     \* the broadcast_transaction events of the audit repository
  posts,     \* how often eth_sendRawTransaction was called for each job
  chain,     \* the jobs whose transaction the node has accepted
  rpc_url,   \* this process was started with an RPC url
  asked,     \* the id the one client that polls asks for
  reply,     \* what it was told: a state, "unknown", "waiting" or "none"
  restarts

workerVars == <<phase, job, outcome>>
nodeVars == <<posts, chain, rpc_url>>
pollVars == <<asked, reply>>
vars == <<handler, statuses, locked, queue, workerVars, audit, nodeVars,
          pollVars, restarts>>

InFlight == {"insert", "send", "audit"}
Answered == {"ok", "error"}
Terminal == {"submitted", "failed"}
Queued == {queue[i] : i \in 1..Len(queue)}

\* The worker still owes this job an outcome.
InHand(j) == job = j /\ phase \in {"rpc", "publish"}

-----------------------------------------------------------------------------
(* The audit repository, as the broadcast code sees it.                    *)

\* record: the memory log always takes the event; a Postgres insert may fail,
\* before or after the row is committed.
Record(event, ok) ==
  \/ /\ ok
     /\ audit' = audit \cup {event}
  \/ /\ ~ok
     /\ PostgresAudit
     /\ audit' \in {audit, audit \cup {event}}

\* The event for the outcome in the worker's hands.
SettledState == IF outcome = "Ok" THEN "submitted" ELSE "failed"

\* Inserts that are on their way while their callers wait.
PendingEvents ==
  {<<j, "queued">> : j \in {k \in Jobs : handler[k] = "audit"}}
    \cup {<<j, SettledState>> : j \in {k \in Jobs : job = k /\ phase = "audit"}}

\* The caller is gone: each of the inserts it was waiting for is or is not in
\* the table; the memory log only pushes once the caller is polled again.
Abandon(events) ==
  \E landed \in SUBSET (IF PostgresAudit THEN events ELSE {}) :
    audit' = audit \cup landed

-----------------------------------------------------------------------------
(* POST /v1/evm/broadcast-transaction                                      *)

Init ==
  /\ handler = [j \in Jobs |-> "idle"]
  /\ statuses = [j \in Jobs |-> "absent"]
  /\ locked = FALSE
  /\ queue = <<>>
  /\ phase = "start"
  /\ job = None
  /\ outcome = "none"
  /\ audit = {}
  /\ posts = [j \in Jobs |-> 0]
  /\ chain = {}
  /\ rpc_url \in RpcUrls
  /\ asked = None
  /\ reply = "none"
  /\ restarts = 0

Advance(j, from, to) ==
  /\ handler[j] = from
  /\ handler' = [handler EXCEPT ![j] = to]

\* Fault: the row is not stored before the job is sent.
Post_NoRow(j) ==
  /\ Advance(j, "idle", "send")
  /\ UNCHANGED <<statuses, locked, queue, workerVars, audit, nodeVars, pollVars,
                 restarts>>

\* A request arrives and enqueue mints its id.
Post(j) ==
  /\ Advance(j, "idle", "insert")
  /\ UNCHANGED <<statuses, locked, queue, workerVars, audit, nodeVars, pollVars,
                 restarts>>

\* Fault: the write guard lives on in a variable.
Insert_KeepsGuard(j) ==
  /\ Advance(j, "insert", "send")
  /\ ~locked
  /\ locked' = TRUE
  /\ statuses' = [statuses EXCEPT ![j] = "queued"]
  /\ UNCHANGED <<queue, workerVars, audit, nodeVars, pollVars, restarts>>

\* enqueue stores the row; its write guard is dropped in the same statement.
Insert(j) ==
  /\ Advance(j, "insert", "send")
  /\ ~locked
  /\ statuses' = [statuses EXCEPT ![j] = "queued"]
  /\ UNCHANGED <<locked, queue, workerVars, audit, nodeVars, pollVars,
                 restarts>>

HasRoom_OffByOne == Len(queue) <= Capacity

HasRoom == Len(queue) < Capacity

\* Fault: the handler answers without waiting for the audit event.
Send_AnswersFirst(j) ==
  /\ Advance(j, "send", "ok")
  /\ phase # "dead"
  /\ HasRoom
  /\ queue' = Append(queue, j)
  /\ UNCHANGED <<statuses, locked, workerVars, audit, nodeVars, pollVars,
                 restarts>>

\* sender.send waits for room in the channel.
Send(j) ==
  /\ Advance(j, "send", "audit")
  /\ phase # "dead"
  /\ HasRoom
  /\ queue' = Append(queue, j)
  /\ UNCHANGED <<statuses, locked, workerVars, audit, nodeVars, pollVars,
                 restarts>>

\* The receiver is gone: send fails, the row stays behind.
SendClosed(j) ==
  /\ Advance(j, "send", "error")
  /\ phase = "dead"
  /\ UNCHANGED <<statuses, locked, queue, workerVars, audit, nodeVars, pollVars,
                 restarts>>

\* The handler records the "queued" event; if that fails it answers an error,
\* although the job is in the channel.
RecordQueued(j) ==
  /\ \E ok \in BOOLEAN :
       /\ Record(<<j, "queued">>, ok)
       /\ Advance(j, "audit", IF ok THEN "ok" ELSE "error")
  /\ UNCHANGED <<statuses, locked, queue, workerVars, nodeVars, pollVars,
                 restarts>>

\* The client disconnects and the server drops the handler at its await.
Drop(j) ==
  /\ handler[j] \in InFlight
  /\ handler' = [handler EXCEPT ![j] = "dropped"]
  /\ Abandon(PendingEvents \cap {<<j, "queued">>})
  /\ UNCHANGED <<statuses, locked, queue, workerVars, nodeVars, pollVars,
                 restarts>>

-----------------------------------------------------------------------------
(* The worker task                                                         *)

\* Client::new succeeds and the receive loop starts.
WorkerStart ==
  /\ phase = "start"
  /\ phase' = "recv"
  /\ UNCHANGED <<handler, statuses, locked, queue, job, outcome, audit,
                 nodeVars, pollVars, restarts>>

\* Client::new panics (no TLS backend, no resolver configuration): the task
\* ends and the receiver is dropped with what the channel holds.
WorkerPanic ==
  /\ phase = "start"
  /\ phase' = "dead"
  /\ queue' = <<>>
  /\ UNCHANGED <<handler, statuses, locked, job, outcome, audit, nodeVars,
                 pollVars, restarts>>

\* Fault: the job is looked at and stays in the channel.
Remaining_Peek == queue

Remaining == Tail(queue)

\* Fault: the write lock is taken before the transaction is submitted.
Recv_LocksFirst ==
  /\ phase = "recv"
  /\ queue # <<>>
  /\ ~locked
  /\ locked' = TRUE
  /\ job' = Head(queue)
  /\ queue' = Remaining
  /\ posts' = [posts EXCEPT ![Head(queue)] = @ + 1]
  /\ phase' = "rpc"
  /\ UNCHANGED <<handler, statuses, outcome, audit, chain, rpc_url, pollVars,
                 restarts>>

\* Fault: without an RPC url the loop goes on to the next job.
Recv_SkipsWithoutUrl ==
  /\ phase = "recv"
  /\ queue # <<>>
  /\ ~rpc_url
  /\ queue' = Remaining
  /\ UNCHANGED <<handler, statuses, locked, workerVars, audit, nodeVars,
                 pollVars,
                 restarts>>

\* recv, and submit_transaction up to its first await: without an RPC url it
\* returns an error at once, otherwise the POST to the node leaves.
Recv ==
  /\ phase = "recv"
  /\ queue # <<>>
  /\ job' = Head(queue)
  /\ queue' = Remaining
  /\ \/ /\ rpc_url
        /\ posts' = [posts EXCEPT ![Head(queue)] = @ + 1]
        /\ phase' = "rpc"
        /\ UNCHANGED outcome
     \/ /\ ~rpc_url
        /\ outcome' = "Err"
        /\ phase' = "publish"
        /\ UNCHANGED posts
  /\ UNCHANGED <<handler, statuses, locked, audit, chain, rpc_url, pollVars,
                 restarts>>

\* The node accepts a transaction it was sent, even one whose POST the worker
\* has given up on.
NodeAccepts(j) ==
  /\ posts[j] > 0
  /\ j \notin chain
  /\ chain' = chain \cup {j}
  /\ UNCHANGED <<handler, statuses, locked, queue, workerVars, audit, posts,
                 rpc_url, pollVars, restarts>>

\* Fault: any decodable body counts as a result.
RpcReturns_AnyBody == {"Ok", "Err"}

\* The answer: a "result" string comes only from a node that has accepted the
\* transaction; a failed request, an undecodable body or a JSON-RPC error is
\* an Err whether or not the node has accepted it.
RpcReturns == {"Err"} \cup (IF job \in chain THEN {"Ok"} ELSE {})

\* Fault: an error skips the rest of the loop's body.
RpcReply_SkipsErr ==
  /\ phase = "rpc"
  /\ outcome' \in RpcReturns
  /\ phase' = IF outcome' = "Ok" THEN "publish" ELSE "recv"
  /\ UNCHANGED <<handler, statuses, locked, queue, job, audit, nodeVars,
                 pollVars,
                 restarts>>

RpcReply ==
  /\ phase = "rpc"
  /\ outcome' \in RpcReturns
  /\ phase' = "publish"
  /\ UNCHANGED <<handler, statuses, locked, queue, job, audit, nodeVars,
                 pollVars,
                 restarts>>

\* The worker takes the write lock and updates the row, if there is one; it
\* keeps the guard while it waits for the audit repository.
Publish ==
  /\ phase = "publish"
  /\ ~locked
  /\ IF statuses[job] # "absent"
     THEN /\ statuses' = [statuses EXCEPT ![job] = SettledState]
          /\ locked' = TRUE
          /\ phase' = "audit"
          /\ UNCHANGED <<job, outcome>>
     ELSE /\ phase' = "recv"
          /\ job' = None
          /\ outcome' = "none"
          /\ UNCHANGED <<statuses, locked>>
  /\ UNCHANGED <<handler, queue, audit, nodeVars, pollVars, restarts>>

\* Fault: both arms of the match record the same status.
OutcomeEvent_CopyPaste == <<job, "submitted">>

OutcomeEvent == <<job, SettledState>>

\* The outcome is recorded, an error of the repository is ignored, the guard
\* is released.
RecordOutcome ==
  /\ phase = "audit"
  /\ \E ok \in BOOLEAN : Record(OutcomeEvent, ok)
  /\ locked' = FALSE
  /\ phase' = "recv"
  /\ job' = None
  /\ outcome' = "none"
  /\ UNCHANGED <<handler, statuses, queue, nodeVars, pollVars, restarts>>

-----------------------------------------------------------------------------
(* GET /v1/evm/broadcast-status/{id} and restarts                          *)

\* The client asks about an id it was given, by this process or an earlier one.
Poll(j) ==
  /\ reply # "waiting"
  /\ handler[j] \in {"ok", "ok_before"}
  /\ asked' = j
  /\ reply' = "waiting"
  /\ UNCHANGED <<handler, statuses, locked, queue, workerVars, audit, nodeVars,
                 restarts>>

\* get_status takes the read lock: the row's state, or 400 "unknown".
RowOrUnknown(j) == IF statuses[j] = "absent" THEN "unknown" ELSE statuses[j]

PollAnswer ==
  /\ reply = "waiting"
  /\ ~locked
  /\ reply' = RowOrUnknown(asked)
  /\ UNCHANGED <<asked, handler, statuses, locked, queue, workerVars, audit,
                 nodeVars,
                 restarts>>

\* The process ends at any point, killed or shut down, and starts again: rows,
\* channel, worker and open requests are gone, and so is the memory log.  The
\* environment is read anew.
AfterRestart(h) ==
  IF h \in InFlight THEN "dropped" ELSE IF h = "ok" THEN "ok_before" ELSE h

Restart ==
  /\ restarts < MaxRestarts
  /\ restarts' = restarts + 1
  /\ handler' = [j \in Jobs |-> AfterRestart(handler[j])]
  /\ statuses' = [j \in Jobs |-> "absent"]
  /\ locked' = FALSE
  /\ queue' = <<>>
  /\ phase' = "start"
  /\ job' = None
  /\ outcome' = "none"
  /\ IF PostgresAudit THEN Abandon(PendingEvents) ELSE audit' = {}
  /\ asked' = None
  /\ reply' = "none"
  /\ rpc_url' \in RpcUrls
  /\ UNCHANGED <<posts, chain>>

-----------------------------------------------------------------------------
(* The specification                                                       *)

Enqueue(j) ==
  Post(j) \/ Insert(j) \/ Send(j) \/ SendClosed(j) \/ RecordQueued(j) \/ Drop(j)

Worker ==
  WorkerStart \/ WorkerPanic \/ Recv \/ RpcReply \/ Publish \/ RecordOutcome

Next ==
  \/ \E j \in Jobs : Enqueue(j) \/ NodeAccepts(j) \/ Poll(j)
  \/ Worker
  \/ PollAnswer
  \/ Restart

Spec == Init /\ [][Next]_vars

\* The executor runs every task that is ready, and the audit repository
\* answers.  Nothing is assumed of the clients, nor of the node: the POST to it
\* has no timeout, so nothing in the code makes it return.
TaskFairness ==
  /\ \A j \in Jobs :
       /\ WF_vars(Insert(j))
       /\ WF_vars(Send(j))
       /\ WF_vars(SendClosed(j))
       /\ WF_vars(RecordQueued(j))
  /\ WF_vars(WorkerStart \/ WorkerPanic)
  /\ WF_vars(Recv)
  /\ WF_vars(Publish)
  /\ WF_vars(RecordOutcome)
  /\ WF_vars(PollAnswer)

FairSpec == Spec /\ TaskFairness

-----------------------------------------------------------------------------
(* Properties                                                              *)

\* Every variable holds a value of its kind, and the channel never holds more
\* than its capacity.
TypeOK ==
  /\ handler \in [Jobs -> {"idle", "dropped", "ok_before"} \cup InFlight
                            \cup Answered]
  /\ statuses \in [Jobs -> {"absent", "queued"} \cup Terminal]
  /\ locked \in BOOLEAN
  /\ queue \in Seq(Jobs)
  /\ Len(queue) <= Capacity
  /\ phase \in {"start", "dead", "recv", "rpc", "publish", "audit"}
  /\ job \in Jobs \cup {None}
  /\ phase \in {"rpc", "publish", "audit"} => job \in Jobs
  /\ outcome \in {"none", "Ok", "Err"}
  /\ audit \subseteq Jobs \X ({"queued"} \cup Terminal)
  /\ posts \in [Jobs -> Nat]
  /\ chain \subseteq Jobs
  /\ rpc_url \in RpcUrls
  /\ asked \in Jobs \cup {None}
  /\ reply # "none" => asked \in Jobs
  /\ reply \in {"none", "waiting", "unknown", "queued"} \cup Terminal
  /\ restarts \in 0..MaxRestarts

\* A job in the channel or in the worker's hands has a row that still reads
\* queued, so the worker's lookup (if let Some(status)) never drops an outcome:
\* enqueue stores the row before it sends the job.
JobHasQueuedRow == \A j \in Jobs : j \in Queued \/ InHand(j) => statuses[j] = "queued"

\* No transaction is posted to the node twice under one broadcast id, whatever
\* fails and however often the process restarts.  That is what the code does,
\* and not what is written about it: docs/architecture.md:42 has the worker
\* manage retries.  With retries this would have to be given up.
PostedAtMostOnce == \A j \in Jobs : posts[j] <= 1

\* A row that reads submitted belongs to a transaction the node has accepted.
\* (The converse fails: a lost answer leaves an accepted transaction "failed".)
SubmittedIsOnChain == \A j \in Jobs : statuses[j] = "submitted" => j \in chain

\* A broadcast that this process has answered with 200 is not orphaned: its row
\* is settled, or somebody will settle it.  Only a worker that never came up
\* breaks that.
AcknowledgedIsOwned ==
  \A j \in Jobs : handler[j] = "ok" =>
    statuses[j] \in Terminal \/ j \in Queued \/ InHand(j) \/ phase = "dead"

\* A broadcast answered with 200 has its "queued" event in the audit log, and
\* with Postgres it stays there when the process restarts.
AcknowledgedIsAudited ==
  \A j \in Jobs :
    handler[j] = "ok" \/ (PostgresAudit /\ handler[j] = "ok_before")
      => <<j, "queued">> \in audit

\* The audit log never tells two ends of one job, and never another end than
\* the row of this process.
AuditAgreesWithRow ==
  \A j \in Jobs : \A end \in Terminal :
    <<j, end>> \in audit =>
      /\ \A other \in Terminal \ {end} : <<j, other>> \notin audit
      /\ statuses[j] \in {end, "absent"}

\* A client is told "unknown broadcast id" for an id it was given only when the
\* process has restarted since.
UnknownOnlyAfterRestart ==
  reply = "unknown" => handler[asked] = "ok_before"

\* A settled row is never written again; only a restart takes it away.
SettledForGood ==
  [][\A j \in Jobs : statuses[j] \in Terminal =>
       statuses'[j] = statuses[j] \/ restarts' # restarts]_vars

\* A task has something to do and need not wait for another task.
TaskIsReady ==
  \/ \E j \in Jobs : \/ handler[j] = "insert" /\ ~locked
                     \/ handler[j] = "send" /\ (HasRoom \/ phase = "dead")
                     \/ handler[j] = "audit"
  \/ phase \in {"start", "audit"}
  \/ phase = "recv" /\ queue # <<>>
  \/ phase = "publish" /\ ~locked
  \/ reply = "waiting" /\ ~locked

\* Somebody waits for the service, or it for itself.
TaskWaits ==
  \/ \E j \in Jobs : handler[j] \in InFlight
  \/ reply = "waiting"
  \/ queue # <<>>
  \/ phase = "publish"

\* Handlers, worker and status requests never wait for each other in a circle:
\* the lock is held only while the worker waits for the audit repository, and
\* while there is work a task can go on, or the node has been asked.
NobodyIsStuck ==
  /\ locked => phase = "audit"
  /\ TaskWaits => TaskIsReady \/ phase = "rpc"

\* The node was asked and never answers.
NodeHangs == <>[](phase = "rpc")

\* Every broadcast request ends, answered or dropped by its client, unless the
\* node hangs: nothing else in the process, neither the lock nor the bound of
\* the channel nor a worker that has died, can hold one up for ever.
EveryRequestEnds ==
  \A j \in Jobs : <>[](handler[j] \in InFlight) => NodeHangs

\* Every acknowledged broadcast is settled, unless the node hangs on it or on
\* one before it, or the worker died.
AcknowledgedIsSettled ==
  \A j \in Jobs :
    <>[](handler[j] = "ok" /\ statuses[j] \notin Terminal /\ phase # "dead")
      => NodeHangs

\* Without an RPC url the worker settles every acknowledged broadcast, whatever
\* the node that is not there does: it fails the job instead of waiting.
SettledWithoutNode ==
  \A j \in Jobs : handler[j] = "ok" /\ ~rpc_url
    ~> statuses[j] \in Terminal \/ phase = "dead" \/ handler[j] # "ok"

\* A status request is answered even if the node never answers a POST: the
\* worker does not hold the lock while it waits for the node.
PollIsAnswered == reply = "waiting" ~> reply # "waiting"

\* The ticket of the abstract specification: the row; without one, the request
\* has not got that far, or the row is lost.
Ticket(j) ==
  IF statuses[j] # "absent" THEN statuses[j]
  ELSE IF handler[j] \in {"idle", "insert"} THEN "none"
  ELSE "forgotten"

Promise == INSTANCE BroadcastPromise WITH
  ticket <- [j \in Jobs |-> Ticket(j)],
  posted <- {j \in Jobs : posts[j] > 0}

\* The service with its lock, channel, worker, dropped requests and restarts
\* keeps the promise made for each id.
KeepsPromise == Promise!Spec

=============================================================================
