--------------------------- MODULE Broadcast_proofs ---------------------------
(***************************************************************************)
(* Theorems about the broadcast service, for any set of ids, any capacity  *)
(* of the channel, with and without RPC url and Postgres, and any number   *)
(* of restarts.                                                            *)
(***************************************************************************)
EXTENDS Broadcast, TLAPS

-----------------------------------------------------------------------------
(* The channel as a set of ids                                             *)

Elements(q) == {q[i] : i \in 1..Len(q)}
Distinct(q) == \A a, b \in 1..Len(q) : q[a] = q[b] => a = b

\* Sending an id that is not in the channel (BroadcastService::enqueue) adds
\* it and nothing else, and keeps the ids in the channel distinct.
LEMMA AppendElements ==
  ASSUME NEW S, NEW q \in Seq(S), NEW x \in S, x \notin Elements(q), Distinct(q)
  PROVE  /\ Append(q, x) \in Seq(S)
         /\ Len(Append(q, x)) = Len(q) + 1
         /\ Elements(Append(q, x)) = Elements(q) \cup {x}
         /\ Distinct(Append(q, x))
<1>1. /\ Append(q, x) \in Seq(S)
      /\ Len(Append(q, x)) = Len(q) + 1
      /\ \A i \in 1..Len(q) : Append(q, x)[i] = q[i]
      /\ Append(q, x)[Len(q) + 1] = x
  OBVIOUS
<1>2. Len(q) \in Nat
  OBVIOUS
<1>3. 1..(Len(q) + 1) = 1..Len(q) \cup {Len(q) + 1}
  BY <1>2
<1> QED
  BY <1>1, <1>2, <1>3 DEF Elements, Distinct

\* Receiving (receiver.recv in the worker) takes the first id out and no other.
LEMMA TailElements ==
  ASSUME NEW S, NEW q \in Seq(S), q # <<>>, Distinct(q)
  PROVE  /\ Head(q) \in S
         /\ Head(q) \in Elements(q)
         /\ Tail(q) \in Seq(S)
         /\ Len(Tail(q)) <= Len(q)
         /\ Elements(Tail(q)) = Elements(q) \ {Head(q)}
         /\ Distinct(Tail(q))
<1>1. /\ Len(q) \in Nat \ {0}
      /\ Head(q) = q[1]
      /\ Head(q) \in S
      /\ Tail(q) \in Seq(S)
      /\ Len(Tail(q)) = Len(q) - 1
      /\ \A i \in 1..(Len(q) - 1) : Tail(q)[i] = q[i + 1]
  OBVIOUS
<1>2. Elements(Tail(q)) = Elements(q) \ {Head(q)}
  <2>1. ASSUME NEW x \in Elements(Tail(q))
        PROVE  x \in Elements(q) \ {Head(q)}
    <3>1. PICK i \in 1..(Len(q) - 1) : x = q[i + 1]
      BY <1>1 DEF Elements
    <3>2. i + 1 \in 1..Len(q) /\ i + 1 # 1 /\ 1 \in 1..Len(q)
      BY <1>1
    <3> QED
      BY <3>1, <3>2, <1>1 DEF Elements, Distinct
  <2>2. ASSUME NEW x \in Elements(q) \ {Head(q)}
        PROVE  x \in Elements(Tail(q))
    <3>1. PICK i \in 1..Len(q) : x = q[i]
      BY DEF Elements
    <3>2. i - 1 \in 1..(Len(q) - 1) /\ (i - 1) + 1 = i
      BY <3>1, <1>1
    <3>3. Tail(q)[i - 1] = x
      BY <3>1, <3>2, <1>1
    <3>4. i - 1 \in 1..Len(Tail(q))
      BY <3>2, <1>1
    <3> QED
      BY <3>3, <3>4 DEF Elements
  <2> QED
    BY <2>1, <2>2
<1>3. Distinct(Tail(q))
  <2>1. SUFFICES ASSUME NEW a \in 1..(Len(q) - 1), NEW b \in 1..(Len(q) - 1),
                        Tail(q)[a] = Tail(q)[b]
                 PROVE  a = b
    BY <1>1 DEF Distinct
  <2>2. a + 1 \in 1..Len(q) /\ b + 1 \in 1..Len(q) /\ q[a + 1] = q[b + 1]
    BY <2>1, <1>1
  <2>3. a + 1 = b + 1
    BY <2>2 DEF Distinct
  <2> QED
    BY <2>3
<1> QED
  BY <1>1, <1>2, <1>3 DEF Elements

-----------------------------------------------------------------------------
(* Types                                                                   *)

\* Every variable keeps a value of its kind, and the channel never holds more
\* than its capacity: enqueue's send waits for room.
THEOREM TypeCorrect == Spec => []TypeOK
<1>1. Init => TypeOK
  <2> SUFFICES ASSUME Init PROVE TypeOK
    OBVIOUS
  <2> USE BroadcastAssumption DEF Init
  <2>1. /\ handler \in [Jobs -> {"idle"}]
        /\ statuses \in [Jobs -> {"absent"}]
        /\ posts \in [Jobs -> Nat]
    OBVIOUS
  <2>2. queue \in Seq(Jobs) /\ Len(queue) <= Capacity
    OBVIOUS
  <2>3. restarts \in 0..MaxRestarts
    OBVIOUS
  <2> QED
    BY <2>1, <2>2, <2>3 DEF TypeOK, Terminal, InFlight, Answered
<1>2. TypeOK /\ [Next]_vars => TypeOK'
  <2> SUFFICES ASSUME TypeOK, [Next]_vars
               PROVE  TypeOK'
    OBVIOUS
  <2> USE BroadcastAssumption DEF TypeOK, Terminal, InFlight, Answered
  <2>1. ASSUME NEW j \in Jobs, Post(j) PROVE TypeOK'
    BY <2>1 DEF Post, Advance, workerVars, nodeVars, pollVars
  <2>2. ASSUME NEW j \in Jobs, Insert(j) PROVE TypeOK'
    BY <2>2 DEF Insert, Advance, workerVars, nodeVars, pollVars
  <2>3. ASSUME NEW j \in Jobs, Send(j) PROVE TypeOK'
    BY <2>3 DEF Send, Advance, HasRoom, workerVars, nodeVars, pollVars
  <2>4. ASSUME NEW j \in Jobs, SendClosed(j) PROVE TypeOK'
    BY <2>4 DEF SendClosed, Advance, workerVars, nodeVars, pollVars
  <2>5. ASSUME NEW j \in Jobs, RecordQueued(j) PROVE TypeOK'
    BY <2>5 DEF RecordQueued, Record, Advance, workerVars, nodeVars, pollVars
  <2>6. ASSUME NEW j \in Jobs, Drop(j) PROVE TypeOK'
    BY <2>6 DEF Drop, Abandon, workerVars, nodeVars, pollVars
  <2>7. ASSUME NEW j \in Jobs, NodeAccepts(j) PROVE TypeOK'
    BY <2>7 DEF NodeAccepts, workerVars, pollVars
  <2>8. ASSUME NEW j \in Jobs, Poll(j) PROVE TypeOK'
    BY <2>8 DEF Poll, workerVars, nodeVars
  <2>9. CASE WorkerStart
    BY <2>9 DEF WorkerStart, nodeVars, pollVars
  <2>10. CASE WorkerPanic
    BY <2>10 DEF WorkerPanic, nodeVars, pollVars
  <2>11. CASE Recv
    <3>1. /\ job' \in Jobs
          /\ queue' \in Seq(Jobs)
          /\ Len(queue') <= Capacity
      BY <2>11 DEF Recv, Remaining
    <3>2. /\ posts' \in [Jobs -> Nat]
          /\ phase' \in {"rpc", "publish"}
          /\ outcome' \in {"none", "Ok", "Err"}
      BY <2>11 DEF Recv
    <3> QED
      BY <2>11, <3>1, <3>2 DEF Recv, pollVars
  <2>12. CASE RpcReply
    BY <2>12 DEF RpcReply, RpcReturns, nodeVars, pollVars
  <2>13. CASE Publish
    BY <2>13 DEF Publish, SettledState, nodeVars, pollVars
  <2>14. CASE RecordOutcome
    <3>1. OutcomeEvent \in Jobs \X Terminal
      BY <2>14 DEF RecordOutcome, OutcomeEvent, SettledState
    <3>2. audit' \subseteq audit \cup {OutcomeEvent}
      BY <2>14 DEF RecordOutcome, Record
    <3> QED
      BY <2>14, <3>1, <3>2 DEF RecordOutcome, nodeVars, pollVars
  <2>15. CASE PollAnswer
    BY <2>15 DEF PollAnswer, RowOrUnknown, workerVars, nodeVars
  <2>16. CASE Restart
    <3>1. audit' \subseteq audit \cup PendingEvents
      BY <2>16 DEF Restart, Abandon
    <3>2. PendingEvents \subseteq Jobs \X ({"queued"} \cup {"submitted", "failed"})
      BY DEF PendingEvents, SettledState
    <3>3. handler' \in [Jobs -> {"idle", "dropped", "ok_before", "ok", "error"}]
      BY <2>16 DEF Restart, AfterRestart
    <3>4. /\ statuses' \in [Jobs -> {"absent"}]
          /\ queue' \in Seq(Jobs)
          /\ Len(queue') <= Capacity
          /\ restarts' \in 0..MaxRestarts
      BY <2>16 DEF Restart
    <3> QED
      BY <2>16, <3>1, <3>2, <3>3, <3>4 DEF Restart, nodeVars
  <2>17. CASE UNCHANGED vars
    BY <2>17 DEF vars, workerVars, nodeVars, pollVars
  <2> QED
    BY <2>1, <2>2, <2>3, <2>4, <2>5, <2>6, <2>7, <2>8, <2>9, <2>10, <2>11,
       <2>12, <2>13, <2>14, <2>15, <2>16, <2>17 DEF Next, Enqueue, Worker
<1> QED
  BY <1>1, <1>2, PTL DEF Spec

-----------------------------------------------------------------------------
(* The inductive invariant                                                 *)

\* Before enqueue has sent the job, nobody else has it.
NotYetSent ==
  \A j \in Jobs : handler[j] \in {"idle", "insert", "send"} =>
    posts[j] = 0 /\ j \notin Queued /\ job # j

\* The row appears between Post and Send, and no handler loses it.
RowFollowsHandler ==
  \A j \in Jobs :
    /\ handler[j] \in {"idle", "insert"} => statuses[j] = "absent"
    /\ handler[j] = "send" => statuses[j] = "queued"
    /\ handler[j] \in {"audit", "ok"} => statuses[j] # "absent"

\* The channel holds each job once; a job in it has a row and was not posted.
ChannelWaits ==
  /\ Distinct(queue)
  /\ \A j \in Queued : statuses[j] = "queued" /\ posts[j] = 0 /\ job # j

\* What the worker's await says about the job in its hands; the lock is held
\* across the audit await and no other.
WorkerHolds ==
  /\ phase \in {"start", "dead", "recv"} => job = None
  /\ phase \in {"rpc", "publish"} => statuses[job] = "queued"
  /\ phase = "audit" => statuses[job] = SettledState
  /\ phase \in {"publish", "audit"} /\ outcome = "Ok" => job \in chain
  /\ locked <=> phase = "audit"
  /\ phase = "dead" => queue = <<>>

\* Once sent, a job is owned until it is settled, acknowledged or not.
SentIsOwned ==
  \A j \in Jobs : handler[j] \in {"audit", "ok"} =>
    statuses[j] \in Terminal \/ j \in Queued \/ InHand(j) \/ phase = "dead"

\* An end is in the audit log only after the job was sent.
EndsComeLate ==
  \A j \in Jobs : \A end \in Terminal :
    <<j, end>> \in audit => handler[j] \notin {"idle", "insert", "send"}

\* A client polls only for an id it was given.
PolledIsAcknowledged == reply = "waiting" => handler[asked] \in {"ok", "ok_before"}

IInv ==
  /\ NotYetSent
  /\ RowFollowsHandler
  /\ ChannelWaits
  /\ WorkerHolds
  /\ SentIsOwned
  /\ EndsComeLate
  /\ PolledIsAcknowledged
  /\ PostedAtMostOnce
  /\ SubmittedIsOnChain
  /\ AcknowledgedIsAudited
  /\ AuditAgreesWithRow
  /\ UnknownOnlyAfterRestart

\* The invariant holds at the start and every step keeps it; with TypeOK it is
\* inductive.
LEMMA InvariantStep ==
  ASSUME TypeOK, TypeOK', IInv, [Next]_vars
  PROVE  IInv'
<1> USE BroadcastAssumption DEF IInv, NotYetSent, RowFollowsHandler,
      ChannelWaits, WorkerHolds, SentIsOwned, EndsComeLate, PolledIsAcknowledged,
      PostedAtMostOnce, SubmittedIsOnChain, AcknowledgedIsAudited,
      AuditAgreesWithRow, UnknownOnlyAfterRestart, TypeOK, Terminal, InFlight,
      Answered, InHand, SettledState, workerVars, nodeVars, pollVars
<1>1. ASSUME NEW j \in Jobs, Post(j) PROVE IInv'
  BY <1>1 DEF Queued, Post, Advance
<1>2. ASSUME NEW j \in Jobs, Insert(j) PROVE IInv'
  BY <1>2 DEF Queued, Insert, Advance
<1>3. ASSUME NEW j \in Jobs, Send(j) PROVE IInv'
  <2>1. j \notin Elements(queue)
    BY <1>3 DEF Send, Advance, Queued, Elements
  <2>2. Queued' = Queued \cup {j} /\ Distinct(queue')
    <3> HIDE DEF IInv
    <3>1. queue \in Seq(Jobs) /\ Distinct(queue) /\ queue' = Append(queue, j)
      BY <1>3 DEF Send, IInv
    <3>2. Queued = Elements(queue) /\ Queued' = Elements(queue')
      BY DEF Queued, Elements
    <3> QED
      BY <2>1, <3>1, <3>2, AppendElements
  <2>3. /\ statuses[j] = "queued" /\ posts[j] = 0 /\ job # j
        /\ \A k \in Jobs : k # j => handler'[k] = handler[k]
        /\ handler[j] = "send" /\ handler'[j] = "audit" /\ phase # "dead"
        /\ UNCHANGED <<statuses, posts, job, phase, outcome, locked, audit, chain>>
        /\ UNCHANGED <<restarts, asked, reply>>
    BY <1>3 DEF Send, Advance
  <2>4. NotYetSent' /\ ChannelWaits'
    BY <2>2, <2>3
  <2>5. WorkerHolds' /\ SentIsOwned'
    BY <2>2, <2>3
  <2>6. RowFollowsHandler' /\ EndsComeLate' /\ PolledIsAcknowledged'
    BY <2>3
  <2>7. PostedAtMostOnce' /\ SubmittedIsOnChain' /\ AuditAgreesWithRow'
    BY <2>3
  <2>8. AcknowledgedIsAudited' /\ UnknownOnlyAfterRestart'
    BY <2>3
  <2> QED
    BY <2>4, <2>5, <2>6, <2>7, <2>8
<1>4. ASSUME NEW j \in Jobs, SendClosed(j) PROVE IInv'
  BY <1>4 DEF Queued, SendClosed, Advance
<1>5. ASSUME NEW j \in Jobs, RecordQueued(j) PROVE IInv'
  BY <1>5 DEF Queued, RecordQueued, Record, Advance
<1>6. ASSUME NEW j \in Jobs, Drop(j) PROVE IInv'
  BY <1>6 DEF Queued, Drop, Abandon, PendingEvents
<1>7. ASSUME NEW j \in Jobs, NodeAccepts(j) PROVE IInv'
  BY <1>7 DEF Queued, NodeAccepts
<1>8. ASSUME NEW j \in Jobs, Poll(j) PROVE IInv'
  BY <1>8 DEF Queued, Poll
<1>9. CASE WorkerStart
  BY <1>9 DEF Queued, WorkerStart
<1>10. CASE WorkerPanic
  <2>1. Queued' = {} /\ Distinct(queue')
    BY <1>10 DEF WorkerPanic, Queued, Distinct
  <2> QED
    BY <1>10, <2>1 DEF WorkerPanic
<1>11. CASE Recv
  <2>1. /\ Head(queue) \in Jobs
        /\ Head(queue) \in Queued
        /\ Queued' = Queued \ {Head(queue)}
        /\ Distinct(queue')
    <3> HIDE DEF IInv
    <3>1. queue \in Seq(Jobs) /\ Distinct(queue) /\ queue # <<>> /\ queue' = Tail(queue)
      BY <1>11 DEF Recv, Remaining, IInv
    <3>2. Queued = Elements(queue) /\ Queued' = Elements(queue')
      BY DEF Queued, Elements
    <3> QED
      BY <3>1, <3>2, TailElements
  <2> DEFINE h == Head(queue)
  <2>2. /\ statuses[h] = "queued" /\ posts[h] = 0 /\ h \in Jobs /\ h \notin Queued'
        /\ handler[h] \notin {"idle", "insert", "send"}
    BY <2>1
  <2>3. /\ job = None /\ job' = h /\ phase' \in {"rpc", "publish"} /\ phase = "recv"
        /\ phase' = "publish" => outcome' = "Err"
        /\ posts' \in {posts, [posts EXCEPT ![h] = @ + 1]}
        /\ UNCHANGED <<handler, statuses, locked, audit, chain, pollVars, restarts>>
    BY <1>11 DEF Recv
  <2>4. NotYetSent' /\ PostedAtMostOnce' /\ ChannelWaits'
    <3>1. \A j \in Jobs : j # h => posts'[j] = posts[j]
      BY <2>3
    <3>2. posts'[h] \in {0, 1}
      BY <2>2, <2>3
    <3>3. PostedAtMostOnce'
      <4> SUFFICES ASSUME NEW j \in Jobs PROVE posts'[j] <= 1
        OBVIOUS
      <4>1. posts[j] <= 1
        OBVIOUS
      <4> HIDE DEF IInv, TypeOK
      <4>2. CASE j = h
        BY <4>2, <3>2
      <4>3. CASE j # h
        BY <4>3, <4>1, <3>1
      <4> QED
        BY <4>2, <4>3
    <3>4. NotYetSent'
      <4> SUFFICES ASSUME NEW j \in Jobs, handler'[j] \in {"idle", "insert", "send"}
                   PROVE  posts'[j] = 0 /\ j \notin Queued' /\ job' # j
        OBVIOUS
      <4>1. j # h /\ posts[j] = 0 /\ j \notin Queued
        BY <2>2, <2>3
      <4> QED
        BY <4>1, <2>1, <2>3, <3>1
    <3>5. ChannelWaits'
      <4> SUFFICES ASSUME NEW j \in Queued'
                   PROVE  statuses'[j] = "queued" /\ posts'[j] = 0 /\ job' # j
        BY <2>1
      <4>1. j \in Queued /\ j # h
        BY <2>1
      <4>2. j \in Jobs
        BY <4>1 DEF Queued
      <4> QED
        BY <4>1, <4>2, <2>3, <3>1
    <3> QED
      BY <3>3, <3>4, <3>5
  <2>5. WorkerHolds' /\ SentIsOwned'
    BY <2>1, <2>2, <2>3
  <2>6. /\ RowFollowsHandler' /\ EndsComeLate' /\ PolledIsAcknowledged'
        /\ SubmittedIsOnChain' /\ AcknowledgedIsAudited' /\ AuditAgreesWithRow'
        /\ UnknownOnlyAfterRestart'
    BY <2>3
  <2> QED
    BY <2>4, <2>5, <2>6
<1>12. CASE RpcReply
  BY <1>12 DEF Queued, RpcReply, RpcReturns
<1>13. CASE Publish
  <2>1. job \in Jobs /\ statuses[job] = "queued" /\ Queued' = Queued
    BY <1>13 DEF Publish, Queued
  <2>2. statuses' = [statuses EXCEPT ![job] = SettledState] /\ phase' = "audit" /\ locked'
    BY <1>13, <2>1 DEF Publish
  <2> QED
    BY <1>13, <2>1, <2>2 DEF Publish
<1>14. CASE RecordOutcome
  BY <1>14 DEF Queued, RecordOutcome, Record, OutcomeEvent
<1>15. CASE PollAnswer
  <2>1. /\ reply' # "waiting"
        /\ reply' = "unknown" => statuses[asked] = "absent"
        /\ asked \in Jobs /\ handler[asked] \in {"ok", "ok_before"}
    BY <1>15 DEF PollAnswer, RowOrUnknown
  <2>2. /\ UNCHANGED <<handler, statuses, locked, queue, phase, job, outcome, audit,
                       posts, chain, asked>>
        /\ Queued' = Queued
    BY <1>15 DEF PollAnswer, Queued
  <2>3. UnknownOnlyAfterRestart' /\ PolledIsAcknowledged'
    BY <2>1, <2>2
  <2>4. NotYetSent' /\ RowFollowsHandler' /\ ChannelWaits' /\ WorkerHolds'
    BY <2>2
  <2>5. /\ SentIsOwned' /\ EndsComeLate' /\ PostedAtMostOnce' /\ SubmittedIsOnChain'
        /\ AcknowledgedIsAudited' /\ AuditAgreesWithRow'
    BY <2>2
  <2> QED
    BY <2>3, <2>4, <2>5
<1>16. CASE Restart
  <2>1. Queued' = {} /\ Distinct(queue')
    BY <1>16 DEF Restart, Queued, Distinct
  <2>2. \A j \in Jobs : handler'[j] = AfterRestart(handler[j]) /\ statuses'[j] = "absent"
    BY <1>16 DEF Restart
  <2>3. /\ audit' \subseteq audit \cup PendingEvents
        /\ PostgresAudit => audit \subseteq audit'
        /\ ~PostgresAudit => audit' = {}
    BY <1>16 DEF Restart, Abandon
  <2>4. AuditAgreesWithRow' /\ EndsComeLate'
    <3>1. ASSUME NEW j \in Jobs, NEW end \in Terminal, <<j, end>> \in audit'
          PROVE  statuses[j] \in {end, "absent"} /\ handler[j] \notin {"idle", "insert", "send"}
      <4>1. CASE <<j, end>> \in audit
        BY <4>1
      <4>2. CASE <<j, end>> \in PendingEvents
        <5>1. job = j /\ phase = "audit" /\ end = SettledState
          BY <4>2 DEF PendingEvents
        <5> QED
          BY <5>1
      <4> QED
        BY <4>1, <4>2, <3>1, <2>3
    <3>2. ASSUME NEW j \in Jobs, NEW end \in Terminal, NEW other \in Terminal,
                 <<j, end>> \in audit', <<j, other>> \in audit'
          PROVE  end = other
      <4>1. ASSUME NEW e \in Terminal, <<j, e>> \in PendingEvents
            PROVE  statuses[j] = e
        BY <4>1 DEF PendingEvents
      <4> QED
        BY <4>1, <3>2, <2>3
    <3>3. EndsComeLate'
      BY <3>1, <2>2 DEF AfterRestart
    <3>4. AuditAgreesWithRow'
      BY <3>2, <2>2
    <3> QED
      BY <3>3, <3>4
  <2>5. AcknowledgedIsAudited'
    <3> SUFFICES ASSUME NEW j \in Jobs,
                        handler'[j] = "ok" \/ (PostgresAudit /\ handler'[j] = "ok_before")
                 PROVE  <<j, "queued">> \in audit'
      OBVIOUS
    <3>1. PostgresAudit /\ handler[j] \in {"ok", "ok_before"}
      BY <2>2 DEF AfterRestart
    <3> QED
      BY <3>1, <2>3
  <2>6. /\ phase' = "start" /\ job' = None /\ ~locked' /\ outcome' = "none"
        /\ asked' = None /\ reply' = "none" /\ UNCHANGED <<posts, chain>>
    BY <1>16 DEF Restart
  <2>7. NotYetSent' /\ RowFollowsHandler' /\ ChannelWaits' /\ SentIsOwned'
    <3>1. \A j \in Jobs : handler'[j] \notin {"insert", "send", "audit", "ok"}
      BY <2>2 DEF AfterRestart
    <3>2. \A j \in Jobs : handler'[j] = "idle" => posts'[j] = 0 /\ job' # j
      <4>1. \A j \in Jobs : handler'[j] = "idle" => handler[j] = "idle"
        BY <2>2 DEF AfterRestart
      <4> QED
        BY <4>1, <2>6
    <3> QED
      BY <2>1, <2>2, <3>1, <3>2
  <2>8. WorkerHolds'
    BY <2>6
  <2>9. PolledIsAcknowledged' /\ PostedAtMostOnce' /\ UnknownOnlyAfterRestart'
    BY <2>6
  <2>10. SubmittedIsOnChain'
    BY <2>2
  <2> QED
    BY <2>4, <2>5, <2>7, <2>8, <2>9, <2>10
<1>17. CASE UNCHANGED vars
  BY <1>17 DEF Queued, vars
<1> QED
  BY <1>1, <1>2, <1>3, <1>4, <1>5, <1>6, <1>7, <1>8, <1>9, <1>10, <1>11, <1>12,
     <1>13, <1>14, <1>15, <1>16, <1>17 DEF Next, Enqueue, Worker

\* Every reachable state satisfies the invariant.
THEOREM InvariantHolds == Spec => []IInv
<1>1. Init => IInv
  <2> SUFFICES ASSUME Init PROVE IInv
    OBVIOUS
  <2>1. Queued = {} /\ Distinct(queue)
    BY DEF Init, Queued, Distinct
  <2> QED
    BY <2>1, BroadcastAssumption
       DEF Init, IInv, NotYetSent, RowFollowsHandler, ChannelWaits, WorkerHolds,
           SentIsOwned, EndsComeLate, PolledIsAcknowledged, PostedAtMostOnce,
           SubmittedIsOnChain, AcknowledgedIsAudited, AuditAgreesWithRow,
           UnknownOnlyAfterRestart, Terminal
<1>2. TypeOK /\ TypeOK' /\ IInv /\ [Next]_vars => IInv'
  BY InvariantStep
<1> QED
  BY <1>1, <1>2, TypeCorrect, PTL DEF Spec

-----------------------------------------------------------------------------
(* What follows from the invariant                                         *)

\* The worker never drops an outcome for want of a row: the row is stored
\* before the job is sent, and nobody removes or settles it in between.
THEOREM RowBeforeOutcome == Spec => []JobHasQueuedRow
<1>1. IInv => JobHasQueuedRow
  BY DEF IInv, ChannelWaits, WorkerHolds, JobHasQueuedRow, InHand
<1> QED
  BY <1>1, InvariantHolds, PTL

\* No job is posted to the node twice, however often the process restarts.
THEOREM NoSecondPost == Spec => []PostedAtMostOnce
<1>1. IInv => PostedAtMostOnce
  BY DEF IInv
<1> QED
  BY <1>1, InvariantHolds, PTL

\* "submitted" is never said of a transaction the node has not accepted.
THEOREM SubmittedIsTrue == Spec => []SubmittedIsOnChain
<1>1. IInv => SubmittedIsOnChain
  BY DEF IInv
<1> QED
  BY <1>1, InvariantHolds, PTL

\* An acknowledged broadcast is settled, waiting in the channel, or in the
\* worker's hands, unless the worker never came up.
THEOREM NoOrphan == Spec => []AcknowledgedIsOwned
<1>1. IInv => AcknowledgedIsOwned
  BY DEF IInv, SentIsOwned, AcknowledgedIsOwned
<1> QED
  BY <1>1, InvariantHolds, PTL

\* An acknowledged broadcast has its event; Postgres keeps it over restarts.
THEOREM QueuedEventKept == Spec => []AcknowledgedIsAudited
<1>1. IInv => AcknowledgedIsAudited
  BY DEF IInv
<1> QED
  BY <1>1, InvariantHolds, PTL

\* The audit log tells at most one end of a job, and the row tells no other.
THEOREM OneEnd == Spec => []AuditAgreesWithRow
<1>1. IInv => AuditAgreesWithRow
  BY DEF IInv
<1> QED
  BY <1>1, InvariantHolds, PTL

\* get_status knows every id it was given until the process restarts.
THEOREM KnownUntilRestart == Spec => []UnknownOnlyAfterRestart
<1>1. IInv => UnknownOnlyAfterRestart
  BY DEF IInv
<1> QED
  BY <1>1, InvariantHolds, PTL

\* Nobody waits in a circle for the status lock, for room in the channel or for
\* the worker: all that open requests can end up waiting for is the node.
THEOREM NoCircularWait == Spec => []NobodyIsStuck
<1>1. ASSUME TypeOK, IInv PROVE NobodyIsStuck
  <2>1. locked => phase = "audit"
    BY <1>1 DEF IInv, WorkerHolds
  <2>2. CASE phase = "audit"
    BY <2>2 DEF NobodyIsStuck, TaskIsReady
  <2>3. CASE phase # "audit"
    <3>1. ~locked
      BY <2>1, <2>3
    <3>2. ASSUME NEW j \in Jobs, handler[j] \in InFlight PROVE TaskIsReady \/ phase = "rpc"
      <4>1. CASE handler[j] # "send" \/ HasRoom \/ phase = "dead"
        BY <3>1, <3>2, <4>1 DEF TaskIsReady, InFlight
      <4>2. CASE ~HasRoom /\ phase # "dead"
        <5>1. queue # <<>>
          BY <4>2, BroadcastAssumption DEF HasRoom
        <5> QED
          BY <1>1, <3>1, <4>2, <5>1 DEF TypeOK, TaskIsReady
      <4> QED
        BY <4>1, <4>2
    <3>3. reply = "waiting" \/ phase = "publish" => TaskIsReady
      BY <3>1 DEF TaskIsReady
    <3>4. queue # <<>> => TaskIsReady \/ phase = "rpc"
      BY <1>1, <3>1 DEF TypeOK, IInv, WorkerHolds, TaskIsReady
    <3> QED
      BY <2>1, <3>2, <3>3, <3>4 DEF NobodyIsStuck, TaskWaits
  <2> QED
    BY <2>2, <2>3
<1> QED
  BY <1>1, TypeCorrect, InvariantHolds, PTL

\* Only a restart takes a settled row away, and nothing rewrites one.
THEOREM SettledStays == Spec => SettledForGood
<1>1. TypeOK /\ IInv /\ [Next]_vars =>
        [\A j \in Jobs : statuses[j] \in Terminal =>
           statuses'[j] = statuses[j] \/ restarts' # restarts]_vars
  <2> SUFFICES ASSUME TypeOK, IInv, [Next]_vars, restarts' = restarts,
                      NEW j \in Jobs, statuses[j] \in Terminal
               PROVE  statuses'[j] = statuses[j]
    OBVIOUS
  <2>1. ASSUME NEW k \in Jobs, Insert(k) PROVE statuses'[j] = statuses[j]
    BY <2>1 DEF Insert, Advance, IInv, RowFollowsHandler, TypeOK, Terminal
  <2>2. CASE Publish
    BY <2>2 DEF Publish, IInv, WorkerHolds, TypeOK, Terminal
  <2>3. CASE Restart
    BY <2>3 DEF Restart, TypeOK
  <2>4. CASE UNCHANGED statuses
    BY <2>4
  <2> QED
    BY <2>1, <2>2, <2>3, <2>4
       DEF Next, Enqueue, Worker, Post, Send, SendClosed, RecordQueued, Drop,
           NodeAccepts, Poll, WorkerStart, WorkerPanic, Recv, RpcReply,
           RecordOutcome, PollAnswer, vars
<1> QED
  BY <1>1, TypeCorrect, InvariantHolds, PTL DEF Spec, SettledForGood

-----------------------------------------------------------------------------
(* Every step is progress                                                  *)

\* The steps that are left for a job, at most: of its handler (which may bring
\* the steps of the others), of the worker, and of the node.
HandlerWork(j) ==
  CASE handler[j] = "idle" -> 9
    [] handler[j] = "insert" -> 8
    [] handler[j] = "send" -> 7
    [] handler[j] = "audit" -> 1
    [] OTHER -> 0

WorkerWork(j) ==
  IF j \in Queued THEN 5
  ELSE IF job # j THEN 0
  ELSE IF phase = "rpc" THEN 3
  ELSE IF phase = "publish" THEN 2
  ELSE 1

NodeWork(j) == IF posts[j] > 0 /\ j \notin chain THEN 1 ELSE 0

JobWork(j) == HandlerWork(j) + WorkerWork(j) + NodeWork(j)

\* The worker has to come up, and a status request to be answered.
StartWork == IF phase = "start" THEN 1 ELSE 0
PollWork == IF reply = "waiting" THEN 1 ELSE 0

\* No step gives a job more to do, not even a restart, and every step but a
\* restart and a new status request leaves less to do: nothing in the service
\* is tried again, put back or gone round in a loop.
NoJobFallsBack == \A j \in Jobs : JobWork(j)' <= JobWork(j)

LessToDo ==
  /\ StartWork' <= StartWork
  /\ PollWork' <= PollWork
  /\ \/ \E j \in Jobs : JobWork(j)' < JobWork(j)
     \/ StartWork' < StartWork
     \/ PollWork' < PollWork

Progress ==
  /\ NoJobFallsBack
  /\ LessToDo \/ Restart \/ \E j \in Jobs : Poll(j)

\* What is left to do is a number, before and after a step.
LEMMA WorkIsNat ==
  ASSUME NEW j \in Jobs
  PROVE  /\ HandlerWork(j) \in 0..9 /\ HandlerWork(j)' \in 0..9
         /\ WorkerWork(j) \in 0..5 /\ WorkerWork(j)' \in 0..5
         /\ NodeWork(j) \in 0..1 /\ NodeWork(j)' \in 0..1
         /\ JobWork(j) \in Nat /\ JobWork(j)' \in Nat
<1>1. HandlerWork(j) \in 0..9 /\ HandlerWork(j)' \in 0..9
  BY DEF HandlerWork
<1>2. WorkerWork(j) \in 0..5 /\ WorkerWork(j)' \in 0..5
  BY DEF WorkerWork
<1>3. NodeWork(j) \in 0..1 /\ NodeWork(j)' \in 0..1
  BY DEF NodeWork
<1> QED
  BY <1>1, <1>2, <1>3 DEF JobWork

\* A step that brings one job forward and touches no other is progress.
LEMMA OneJobAdvances ==
  ASSUME NEW j \in Jobs, JobWork(j)' < JobWork(j),
         \A k \in Jobs \ {j} : JobWork(k)' = JobWork(k),
         phase' = phase \/ phase' # "start", reply' = reply
  PROVE  Progress
<1>1. NoJobFallsBack
  <2> SUFFICES ASSUME NEW k \in Jobs PROVE JobWork(k)' <= JobWork(k)
    BY DEF NoJobFallsBack
  <2> QED
    BY WorkIsNat
<1>2. StartWork' <= StartWork /\ PollWork' <= PollWork
  BY DEF StartWork, PollWork
<1> QED
  BY <1>1, <1>2 DEF Progress, LessToDo

\* Every step of the service is progress.
LEMMA ProgressStep ==
  ASSUME TypeOK, TypeOK', IInv, IInv', Next
  PROVE  Progress
<1>1. ASSUME NEW j \in Jobs, Enqueue(j), ~Send(j) PROVE Progress
  <2>1. /\ HandlerWork(j)' < HandlerWork(j)
        /\ \A k \in Jobs \ {j} : HandlerWork(k)' = HandlerWork(k)
    BY <1>1 DEF Enqueue, Post, Insert, SendClosed, RecordQueued, Drop, Advance,
       InFlight, HandlerWork, TypeOK
  <2>2. UNCHANGED <<queue, job, phase, posts, chain, reply>>
    BY <1>1 DEF Enqueue, Post, Insert, SendClosed, RecordQueued, Drop, workerVars,
       nodeVars, pollVars
  <2>3. \A k \in Jobs : WorkerWork(k)' = WorkerWork(k) /\ NodeWork(k)' = NodeWork(k)
    BY <2>2 DEF WorkerWork, NodeWork, Queued
  <2>4. JobWork(j)' < JobWork(j)
    BY <2>1, <2>3, WorkIsNat DEF JobWork
  <2>5. \A k \in Jobs \ {j} : JobWork(k)' = JobWork(k)
    BY <2>1, <2>3 DEF JobWork
  <2> QED
    BY <2>2, <2>4, <2>5, OneJobAdvances
<1>2. ASSUME NEW j \in Jobs, Send(j) PROVE Progress
  <2>1. HandlerWork(j) = 7 /\ HandlerWork(j)' = 1
    BY <1>2 DEF Send, Advance, HandlerWork, TypeOK
  <2>2. /\ \A k \in Jobs \ {j} : HandlerWork(k)' = HandlerWork(k)
        /\ UNCHANGED <<job, phase, posts, chain, reply>>
    BY <1>2 DEF Send, Advance, HandlerWork, workerVars, nodeVars, pollVars, TypeOK
  <2>3. j \notin Queued /\ job # j /\ Queued' = Queued \cup {j}
    <3>1. j \notin Queued /\ job # j
      BY <1>2 DEF Send, Advance, IInv, NotYetSent
    <3>2. queue' = Append(queue, j) /\ Distinct(queue)
      BY <1>2 DEF Send, IInv, ChannelWaits
    <3> QED
      BY <3>1, <3>2, AppendElements DEF Queued, Elements
  <2>4. /\ WorkerWork(j) = 0 /\ WorkerWork(j)' = 5
        /\ \A k \in Jobs \ {j} : WorkerWork(k)' = WorkerWork(k)
    BY <2>2, <2>3 DEF WorkerWork
  <2>5. \A k \in Jobs : NodeWork(k)' = NodeWork(k)
    BY <2>2 DEF NodeWork
  <2>6. JobWork(j)' < JobWork(j)
    BY <2>1, <2>4, <2>5, WorkIsNat DEF JobWork
  <2>7. \A k \in Jobs \ {j} : JobWork(k)' = JobWork(k)
    BY <2>2, <2>4, <2>5 DEF JobWork
  <2> QED
    BY <2>2, <2>6, <2>7, OneJobAdvances
<1>3. ASSUME NEW j \in Jobs, NodeAccepts(j) PROVE Progress
  <2>1. /\ NodeWork(j)' < NodeWork(j)
        /\ \A k \in Jobs \ {j} : NodeWork(k)' = NodeWork(k)
    BY <1>3 DEF NodeAccepts, NodeWork
  <2>2. UNCHANGED <<handler, queue, job, phase, reply>>
    BY <1>3 DEF NodeAccepts, workerVars, pollVars
  <2>3. \A k \in Jobs : WorkerWork(k)' = WorkerWork(k) /\ HandlerWork(k)' = HandlerWork(k)
    BY <2>2 DEF WorkerWork, HandlerWork, Queued
  <2>4. JobWork(j)' < JobWork(j)
    BY <2>1, <2>3, WorkIsNat DEF JobWork
  <2>5. \A k \in Jobs \ {j} : JobWork(k)' = JobWork(k)
    BY <2>1, <2>3 DEF JobWork
  <2> QED
    BY <2>2, <2>4, <2>5, OneJobAdvances
<1>4. ASSUME NEW j \in Jobs, Poll(j) PROVE Progress
  <2>1. UNCHANGED <<handler, queue, job, phase, posts, chain>>
    BY <1>4 DEF Poll, workerVars, nodeVars
  <2>2. \A k \in Jobs : JobWork(k)' = JobWork(k)
    BY <2>1 DEF JobWork, HandlerWork, WorkerWork, NodeWork, Queued
  <2> QED
    BY <1>4, <2>2, WorkIsNat DEF Progress, NoJobFallsBack
<1>5. CASE WorkerStart \/ WorkerPanic
  <2>1. /\ phase = "start" /\ phase' \in {"recv", "dead"} /\ job = None
        /\ UNCHANGED <<handler, job, posts, chain, reply>>
    BY <1>5 DEF WorkerStart, WorkerPanic, nodeVars, pollVars, IInv, WorkerHolds
  <2>2. Queued' \subseteq Queued
    BY <1>5 DEF WorkerStart, WorkerPanic, Queued
  <2>3. ASSUME NEW k \in Jobs PROVE JobWork(k)' <= JobWork(k)
    <3>1. HandlerWork(k)' = HandlerWork(k) /\ NodeWork(k)' = NodeWork(k)
      BY <2>1 DEF HandlerWork, NodeWork
    <3>2. WorkerWork(k)' <= WorkerWork(k)
      BY <2>1, <2>2, BroadcastAssumption DEF WorkerWork
    <3> QED
      BY <3>1, <3>2, WorkIsNat DEF JobWork
  <2>4. StartWork = 1 /\ StartWork' = 0 /\ PollWork' = PollWork /\ PollWork \in 0..1
    BY <2>1 DEF StartWork, PollWork
  <2>5. LessToDo
    BY <2>4 DEF LessToDo
  <2> QED
    BY <2>3, <2>5 DEF Progress, NoJobFallsBack
<1>6. CASE Recv
  <2>1. PICK h \in Jobs : /\ h \in Queued /\ job' = h /\ Queued' = Queued \ {h}
                          /\ posts' \in {posts, [posts EXCEPT ![h] = @ + 1]}
                          /\ phase' = "publish" => posts' = posts
    <3>1. queue # <<>> /\ queue' = Tail(queue) /\ job' = Head(queue)
      BY <1>6 DEF Recv, Remaining
    <3>2. Head(queue) \in Jobs /\ Head(queue) \in Queued /\ Queued' = Queued \ {Head(queue)}
      <4>1. queue \in Seq(Jobs) /\ Distinct(queue)
        BY DEF TypeOK, IInv, ChannelWaits
      <4>2. Queued = Elements(queue) /\ Queued' = Elements(queue')
        BY DEF Queued, Elements
      <4> QED
        BY <3>1, <4>1, <4>2, TailElements
    <3> QED
      BY <1>6, <3>1, <3>2 DEF Recv
  <2>2. /\ job = None /\ phase = "recv" /\ phase' \in {"rpc", "publish"}
        /\ UNCHANGED <<handler, chain, reply>>
    BY <1>6 DEF Recv, pollVars, IInv, WorkerHolds
  <2>3. \A k \in Jobs : HandlerWork(k)' = HandlerWork(k)
    BY <2>2 DEF HandlerWork
  <2>4. ASSUME NEW k \in Jobs \ {h} PROVE JobWork(k)' = JobWork(k)
    <3>1. WorkerWork(k)' = WorkerWork(k)
      BY <2>1, <2>2, <2>4, BroadcastAssumption DEF WorkerWork
    <3>2. NodeWork(k)' = NodeWork(k)
      BY <2>1, <2>2, <2>4 DEF NodeWork, TypeOK
    <3> QED
      BY <2>3, <3>1, <3>2 DEF JobWork
  <2>5. JobWork(h)' < JobWork(h)
    <3>1. WorkerWork(h) = 5 /\ WorkerWork(h)' = IF phase' = "rpc" THEN 3 ELSE 2
      BY <2>1, <2>2 DEF WorkerWork
    <3>2. NodeWork(h)' <= NodeWork(h) + 1
      BY WorkIsNat
    <3> QED
      BY <2>3, <3>1, <3>2, WorkIsNat DEF JobWork
  <2> QED
    BY <2>2, <2>4, <2>5, OneJobAdvances
<1>7. CASE RpcReply \/ Publish \/ RecordOutcome
  <2>1. /\ UNCHANGED <<handler, queue, posts, chain, reply>>
        /\ phase' \in {"recv", "publish", "audit"}
    BY <1>7 DEF RpcReply, Publish, RecordOutcome, nodeVars, pollVars
  <2>2. job \in Jobs /\ job \notin Queued
    BY <1>7 DEF RpcReply, Publish, RecordOutcome, IInv, ChannelWaits, TypeOK
  <2>3. \A k \in Jobs : HandlerWork(k)' = HandlerWork(k) /\ NodeWork(k)' = NodeWork(k)
    BY <2>1 DEF HandlerWork, NodeWork
  <2>4. PICK k \in Jobs : k = job /\ k \notin Queued
    BY <2>2
  <2>5. WorkerWork(k)' < WorkerWork(k)
    <3>1. CASE RpcReply
      BY <2>1, <2>4, <3>1 DEF RpcReply, WorkerWork, Queued
    <3>2. CASE Publish
      BY <2>1, <2>4, <3>2, BroadcastAssumption DEF Publish, WorkerWork, Queued
    <3>3. CASE RecordOutcome
      BY <2>1, <2>4, <3>3, BroadcastAssumption DEF RecordOutcome, WorkerWork, Queued
    <3> QED
      BY <1>7, <3>1, <3>2, <3>3
  <2>6. \A i \in Jobs \ {k} : WorkerWork(i)' = WorkerWork(i)
    <3>1. job' \in {k, None} /\ Queued' = Queued
      BY <1>7, <2>1, <2>4 DEF RpcReply, Publish, RecordOutcome, Queued
    <3> QED
      BY <2>4, <3>1, BroadcastAssumption DEF WorkerWork
  <2>7. JobWork(k)' < JobWork(k)
    BY <2>3, <2>5, WorkIsNat DEF JobWork
  <2>8. \A i \in Jobs \ {k} : JobWork(i)' = JobWork(i)
    BY <2>3, <2>6 DEF JobWork
  <2> QED
    BY <2>1, <2>7, <2>8, OneJobAdvances
<1>8. CASE PollAnswer
  <2>1. UNCHANGED <<handler, queue, job, phase, posts, chain>>
    BY <1>8 DEF PollAnswer, workerVars, nodeVars
  <2>2. \A k \in Jobs : JobWork(k)' = JobWork(k)
    BY <2>1 DEF JobWork, HandlerWork, WorkerWork, NodeWork, Queued
  <2>3. PollWork = 1 /\ PollWork' = 0 /\ StartWork' = StartWork /\ StartWork \in 0..1
    BY <1>8, <2>1 DEF PollAnswer, RowOrUnknown, StartWork, PollWork, TypeOK, Terminal
  <2>4. LessToDo
    BY <2>3 DEF LessToDo
  <2>5. NoJobFallsBack
    BY <2>2, WorkIsNat DEF NoJobFallsBack
  <2> QED
    BY <2>4, <2>5 DEF Progress
<1>9. CASE Restart
  <2>1. Queued' = {} /\ job' = None /\ UNCHANGED <<posts, chain>>
    BY <1>9 DEF Restart, Queued
  <2>2. ASSUME NEW k \in Jobs PROVE JobWork(k)' <= JobWork(k)
    <3>1. HandlerWork(k)' <= HandlerWork(k)
      BY <1>9 DEF Restart, AfterRestart, InFlight, HandlerWork
    <3>2. WorkerWork(k)' = 0 /\ NodeWork(k)' = NodeWork(k)
      BY <2>1, BroadcastAssumption DEF WorkerWork, NodeWork
    <3> QED
      BY <3>1, <3>2, WorkIsNat DEF JobWork
  <2> QED
    BY <1>9, <2>2 DEF Progress, NoJobFallsBack
<1> QED
  BY <1>1, <1>2, <1>3, <1>4, <1>5, <1>6, <1>7, <1>8, <1>9 DEF Next, Worker, Enqueue

\* A job has nine steps ahead of it when its request arrives.  No step ever adds
\* one, and every step but a restart and a new status request takes one away:
\* nothing is retried, put back, or posted again after a restart.
THEOREM EveryStepIsProgress == Spec => [][Progress]_vars
<1>1. TypeOK /\ TypeOK' /\ IInv /\ IInv' /\ [Next]_vars => [Progress]_vars
  BY ProgressStep
<1> QED
  BY <1>1, TypeCorrect, InvariantHolds, PTL DEF Spec

-----------------------------------------------------------------------------
(* The service implements its promise                                      *)

\* A step that touches neither row, handler, post nor chain is a stutter of the
\* promise, and so is one that moves a handler that has its row, or its answer.
LEMMA Stutter ==
  ASSUME TypeOK, UNCHANGED <<statuses, posts, chain>>,
         \A j \in Jobs : \/ statuses[j] # "absent"
                         \/ handler[j] \in {"idle", "insert"}
                              <=> handler'[j] \in {"idle", "insert"}
  PROVE  UNCHANGED Promise!vars
<1>1. \A j \in Jobs : Ticket(j)' = Ticket(j)
  BY DEF Ticket
<1> QED
  BY <1>1 DEF Promise!vars

\* Every step of the service is a step of the promise or changes nothing there.
LEMMA PromiseStep ==
  ASSUME TypeOK, TypeOK', IInv, [Next]_vars
  PROVE  [Promise!Next]_(Promise!vars)
<1>1. ASSUME NEW j \in Jobs, Post(j) PROVE UNCHANGED Promise!vars
  <2>1. /\ UNCHANGED <<statuses, posts, chain>>
        /\ \A k \in Jobs : handler[k] \in {"idle", "insert"}
                              <=> handler'[k] \in {"idle", "insert"}
    BY <1>1 DEF Post, Advance, nodeVars, TypeOK
  <2> QED
    BY <2>1, Stutter
<1>2. ASSUME NEW j \in Jobs, Insert(j) PROVE Promise!Accept(j)
  <2>1. Ticket(j) = "none" /\ Ticket(j)' = "queued"
    BY <1>2 DEF Insert, Advance, Ticket, IInv, RowFollowsHandler, TypeOK
  <2>2. \A k \in Jobs \ {j} : Ticket(k)' = Ticket(k)
    BY <1>2 DEF Insert, Advance, Ticket, TypeOK
  <2> QED
    BY <1>2, <2>1, <2>2 DEF Promise!Accept, Promise!Move, Insert, nodeVars
<1>3. ASSUME NEW j \in Jobs, Send(j) \/ SendClosed(j) \/ RecordQueued(j)
      PROVE  UNCHANGED Promise!vars
  <2>1. /\ UNCHANGED <<statuses, posts, chain>>
        /\ \A k \in Jobs : handler[k] \in {"idle", "insert"}
                              <=> handler'[k] \in {"idle", "insert"}
    BY <1>3 DEF Send, SendClosed, RecordQueued, Advance, nodeVars, TypeOK
  <2> QED
    BY <2>1, Stutter
<1>4. ASSUME NEW j \in Jobs, Drop(j) PROVE [Promise!Abandon(j)]_(Promise!vars)
  <2>1. CASE handler[j] = "insert"
    <3>1. Ticket(j) = "none" /\ Ticket(j)' = "forgotten"
      BY <1>4, <2>1 DEF Drop, Ticket, IInv, RowFollowsHandler, TypeOK
    <3>2. \A k \in Jobs \ {j} : Ticket(k)' = Ticket(k)
      BY <1>4 DEF Drop, Ticket, TypeOK
    <3> QED
      BY <1>4, <3>1, <3>2 DEF Promise!Abandon, Promise!Move, Drop, nodeVars
  <2>2. CASE handler[j] \in {"send", "audit"}
    BY <1>4, <2>2, Stutter DEF Drop, nodeVars, IInv, RowFollowsHandler, TypeOK
  <2> QED
    BY <1>4, <2>1, <2>2 DEF Drop, InFlight
<1>5. ASSUME NEW j \in Jobs, NodeAccepts(j) PROVE Promise!NodeAccepts(j)
  <2>1. \A k \in Jobs : Ticket(k)' = Ticket(k)
    BY <1>5 DEF NodeAccepts, Ticket
  <2> QED
    BY <1>5, <2>1 DEF NodeAccepts, Promise!NodeAccepts
<1>6. ASSUME NEW j \in Jobs, Poll(j) PROVE UNCHANGED Promise!vars
  <2>1. UNCHANGED <<handler, statuses, posts, chain>>
    BY <1>6 DEF Poll, nodeVars
  <2> QED
    BY <2>1, Stutter
<1>7. CASE WorkerStart \/ WorkerPanic \/ RpcReply \/ RecordOutcome \/ PollAnswer
  <2>1. UNCHANGED <<handler, statuses, posts, chain>>
    BY <1>7 DEF WorkerStart, WorkerPanic, RpcReply, RecordOutcome, PollAnswer, nodeVars
  <2> QED
    BY <2>1, Stutter
<1>8. CASE Recv
  <2>1. PICK h \in Jobs : h = Head(queue) /\ h \in Queued
    BY <1>8, TailElements DEF Recv, Queued, Elements, TypeOK, IInv, ChannelWaits
  <2>2. statuses[h] = "queued" /\ posts[h] = 0
    BY <2>1 DEF IInv, ChannelWaits
  <2>3. \A k \in Jobs : Ticket(k)' = Ticket(k)
    BY <1>8 DEF Recv, Ticket
  <2>4. CASE rpc_url
    <3>1. posts' = [posts EXCEPT ![h] = 1] /\ chain' = chain
      BY <1>8, <2>1, <2>2, <2>4 DEF Recv
    <3>2. {j \in Jobs : posts'[j] > 0} = {j \in Jobs : posts[j] > 0} \cup {h}
      BY <2>1, <3>1 DEF TypeOK
    <3>3. Ticket(h) = "queued" /\ h \notin {j \in Jobs : posts[j] > 0}
      BY <2>1, <2>2 DEF Ticket
    <3>4. Promise!PostToNode(h)
      BY <2>1, <2>3, <3>1, <3>2, <3>3 DEF Promise!PostToNode
    <3> QED
      BY <2>1, <3>4 DEF Promise!Next
  <2>5. CASE ~rpc_url
    BY <1>8, <2>3, <2>5 DEF Recv, Promise!vars
  <2> QED
    BY <2>4, <2>5
<1>9. CASE Publish
  <2>1. PICK k \in Jobs : k = job /\ statuses[k] = "queued"
    BY <1>9 DEF Publish, IInv, WorkerHolds, TypeOK
  <2>2. Ticket(k) = "queued" /\ Ticket(k)' = SettledState
    BY <1>9, <2>1 DEF Publish, Ticket, SettledState, TypeOK
  <2>3. \A i \in Jobs \ {k} : Ticket(i)' = Ticket(i)
    BY <1>9, <2>1 DEF Publish, Ticket, TypeOK
  <2>4. outcome = "Ok" => k \in chain
    BY <1>9, <2>1 DEF Publish, IInv, WorkerHolds
  <2>5. UNCHANGED <<posts, chain>>
    BY <1>9 DEF Publish, nodeVars
  <2>6. CASE outcome = "Ok"
    <3>1. Promise!Submitted(k)
      BY <2>1, <2>2, <2>3, <2>4, <2>5, <2>6
         DEF Promise!Submitted, Promise!Move, SettledState
    <3> QED
      BY <3>1 DEF Promise!Next
  <2>7. CASE outcome # "Ok"
    <3>1. Promise!Failed(k)
      BY <2>1, <2>2, <2>3, <2>5, <2>7
         DEF Promise!Failed, Promise!Move, SettledState
    <3> QED
      BY <3>1 DEF Promise!Next
  <2> QED
    BY <2>6, <2>7
<1>10. CASE Restart
  <2> DEFINE idle == {j \in Jobs : handler[j] = "idle"}
  <2>1. idle \in SUBSET {j \in Jobs : Ticket(j) = "none"}
    BY DEF Ticket, IInv, RowFollowsHandler
  <2>2. \A j \in Jobs : Ticket(j)' = IF j \in idle THEN "none" ELSE "forgotten"
    <3>1. \A j \in Jobs : handler'[j] \in {"idle", "insert"} <=> handler[j] = "idle"
      BY <1>10 DEF Restart, AfterRestart, InFlight, TypeOK
    <3> QED
      BY <1>10, <3>1 DEF Restart, Ticket
  <2>3. Promise!Forget
    BY <1>10, <2>1, <2>2 DEF Promise!Forget, Restart, nodeVars
  <2> QED
    BY <2>3 DEF Promise!Next
<1>11. CASE UNCHANGED vars
  BY <1>11, Stutter DEF vars, nodeVars
<1> QED
  BY <1>1, <1>2, <1>3, <1>4, <1>5, <1>6, <1>7, <1>8, <1>9, <1>10, <1>11
     DEF Next, Enqueue, Worker, Promise!Next

\* The service keeps the promise of BroadcastPromise for every id: one ticket,
\* posted at most once, settled once, and "submitted" only when it is.
THEOREM Implements == Spec => KeepsPromise
<1>1. Init => Promise!Init
  BY DEF Init, Promise!Init, Ticket
<1>2. TypeOK /\ TypeOK' /\ IInv /\ [Next]_vars => [Promise!Next]_(Promise!vars)
  BY PromiseStep
<1> QED
  BY <1>1, <1>2, TypeCorrect, InvariantHolds, PTL DEF Spec, KeepsPromise, Promise!Spec
=============================================================================
