--------------------------- MODULE BroadcastPromise ---------------------------
(***************************************************************************)
(* What the broadcast service promises about one id, without tasks, lock,  *)
(* channel or audit log: the id gets one ticket, its transaction is posted *)
(* at most once while the ticket is queued, and the ticket is settled once,*)
(* as submitted only if the node has accepted the transaction.  Tickets    *)
(* live in memory: they may be forgotten, and are then never seen again.   *)
(***************************************************************************)
CONSTANT Jobs

VARIABLES
  ticket,   \* [Jobs -> {"none", "queued", "submitted", "failed", "forgotten"}]
  posted,   \* ids whose transaction was posted to the node
  chain     \* ids whose transaction the node has accepted

vars == <<ticket, posted, chain>>

Init ==
  /\ ticket = [j \in Jobs |-> "none"]
  /\ posted = {}
  /\ chain = {}

Move(j, from, to) ==
  /\ ticket[j] = from
  /\ ticket' = [ticket EXCEPT ![j] = to]

Accept(j) == Move(j, "none", "queued") /\ UNCHANGED <<posted, chain>>

PostToNode(j) ==
  /\ ticket[j] = "queued"
  /\ j \notin posted
  /\ posted' = posted \cup {j}
  /\ UNCHANGED <<ticket, chain>>

NodeAccepts(j) ==
  /\ j \in posted
  /\ chain' = chain \cup {j}
  /\ UNCHANGED <<ticket, posted>>

Submitted(j) ==
  /\ j \in chain
  /\ Move(j, "queued", "submitted")
  /\ UNCHANGED <<posted, chain>>

Failed(j) == Move(j, "queued", "failed") /\ UNCHANGED <<posted, chain>>

\* A request that is dropped before it was accepted never gets a ticket.
Abandon(j) == Move(j, "none", "forgotten") /\ UNCHANGED <<posted, chain>>

\* A restart forgets every ticket there is and every request under way.
Forget ==
  /\ \E idle \in SUBSET {j \in Jobs : ticket[j] = "none"} :
       ticket' = [j \in Jobs |-> IF j \in idle THEN "none" ELSE "forgotten"]
  /\ UNCHANGED <<posted, chain>>

Next ==
  \/ \E j \in Jobs : \/ Accept(j) \/ PostToNode(j) \/ NodeAccepts(j)
                     \/ Submitted(j) \/ Failed(j) \/ Abandon(j)
  \/ Forget

Spec == Init /\ [][Next]_vars
=============================================================================
