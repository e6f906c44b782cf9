---------------------------- MODULE Promises_proofs ----------------------------
(***************************************************************************)
(* What the three abstract specifications guarantee, for any number of     *)
(* ids, requests and calls.  Broadcast, SignIntent and AuditLog implement  *)
(* them (theorems Implements of their proof modules), so each guarantee    *)
(* holds of the rows, answers and events of the program.                   *)
(***************************************************************************)
EXTENDS Naturals, TLAPS

CONSTANTS
  Jobs,                \* of BroadcastPromise
  Requests, Durable,   \* of SigningPromise
  Calls                \* of AuditPromise

VARIABLES
  ticket, posted, chain,
  answer, admitted, made, log,
  call, kept, shown, durable

Cast == INSTANCE BroadcastPromise
Sign == INSTANCE SigningPromise
Audit == INSTANCE AuditPromise

-----------------------------------------------------------------------------
(* Broadcasts                                                              *)

Settled == {"submitted", "failed"}

\* A transaction is submitted only after the node accepted it, accepted only
\* after it was posted, and posted only under a ticket.
SubmittedWasPosted ==
  /\ ticket \in [Jobs -> {"none", "queued", "forgotten"} \cup Settled]
  /\ chain \subseteq posted
  /\ posted \subseteq {j \in Jobs : ticket[j] # "none"}
  /\ {j \in Jobs : ticket[j] = "submitted"} \subseteq chain

\* What may become of a ticket in one step of the service.
Later(from) ==
  CASE from = "none" -> {"none", "queued", "forgotten"}
    [] from = "queued" -> {"queued", "forgotten"} \cup Settled
    [] from \in Settled -> {from, "forgotten"}
    [] OTHER -> {from}

\* Tickets move forward: a settled one is never queued or settled again, and a
\* forgotten one never comes back.  Posts and the node's acceptance stand, and
\* a transaction is posted only while its ticket is queued.
TicketsMoveForward ==
  /\ \A j \in Jobs : ticket'[j] \in Later(ticket[j])
  /\ posted \subseteq posted' /\ chain \subseteq chain'
  /\ \A j \in posted' \ posted : ticket[j] = "queued" /\ ticket'[j] = "queued"

\* A client that reads "submitted" can rely on the node having the transaction.
THEOREM BroadcastGuarantee ==
  Cast!Spec => []SubmittedWasPosted /\ [][TicketsMoveForward]_(Cast!vars)
<1> USE DEF SubmittedWasPosted, Settled
<1>1. Cast!Init => SubmittedWasPosted
  BY DEF Cast!Init
<1>2. SubmittedWasPosted /\ Cast!Next => SubmittedWasPosted' /\ TicketsMoveForward
  <2> SUFFICES ASSUME SubmittedWasPosted, Cast!Next
               PROVE  SubmittedWasPosted' /\ TicketsMoveForward
    OBVIOUS
  <2> USE DEF TicketsMoveForward, Later, Cast!Move
  <2>1. ASSUME NEW j \in Jobs, Cast!Accept(j) \/ Cast!Failed(j) \/ Cast!Abandon(j)
        PROVE  SubmittedWasPosted' /\ TicketsMoveForward
    BY <2>1 DEF Cast!Accept, Cast!Failed, Cast!Abandon
  <2>2. ASSUME NEW j \in Jobs, Cast!PostToNode(j)
        PROVE  SubmittedWasPosted' /\ TicketsMoveForward
    BY <2>2 DEF Cast!PostToNode
  <2>3. ASSUME NEW j \in Jobs, Cast!NodeAccepts(j)
        PROVE  SubmittedWasPosted' /\ TicketsMoveForward
    BY <2>3 DEF Cast!NodeAccepts
  <2>4. ASSUME NEW j \in Jobs, Cast!Submitted(j)
        PROVE  SubmittedWasPosted' /\ TicketsMoveForward
    BY <2>4 DEF Cast!Submitted
  <2>5. CASE Cast!Forget
    <3>1. PICK idle \in SUBSET {j \in Jobs : ticket[j] = "none"} :
            ticket' = [j \in Jobs |-> IF j \in idle THEN "none" ELSE "forgotten"]
      BY <2>5 DEF Cast!Forget
    <3>2. UNCHANGED <<posted, chain>>
      BY <2>5 DEF Cast!Forget
    <3> QED
      BY <3>1, <3>2
  <2> QED
    BY <2>1, <2>2, <2>3, <2>4, <2>5 DEF Cast!Next
<1>3. SubmittedWasPosted /\ UNCHANGED Cast!vars => SubmittedWasPosted'
  BY DEF Cast!vars
<1> QED
  BY <1>1, <1>2, <1>3, PTL DEF Cast!Spec

-----------------------------------------------------------------------------
(* Signatures                                                              *)

Refusal == {"Denied", "RequiresReview"}

\* A signature is made once at most, and only of a request that was admitted;
\* an approval has one, a refusal was never admitted and has none; the log
\* holds answers only, so never two for one request.
SignedAsAnswered ==
  /\ answer \in [Requests -> {"none", "waiting", "failed", "Approved"} \cup Refusal]
  /\ made \in [Requests -> 0..1]
  /\ {r \in Requests : made[r] = 1} \subseteq admitted
  /\ {r \in Requests : answer[r] = "Approved"} \subseteq {r \in Requests : made[r] = 1}
  /\ admitted \subseteq
       {r \in Requests : answer[r] \in {"waiting", "failed", "Approved"}}
  /\ log \subseteq Sign!Answers

\* An answer that was given stays, a signature is not unmade, and a durable log
\* loses nothing.
AnswersAreFinal ==
  /\ \A r \in Requests :
       /\ answer[r] \notin {"none", "waiting"} => answer'[r] = answer[r]
       /\ made'[r] >= made[r]
  /\ Durable => log \subseteq log'

\* A client that reads an approval can rely on its signature, one that reads a
\* refusal on there being none, now and later.
THEOREM SigningGuarantee ==
  Sign!Spec => []SignedAsAnswered /\ [][AnswersAreFinal]_(Sign!vars)
<1> USE DEF Refusal, Sign!Answers, Sign!Decision
<1>1. Sign!Init => SignedAsAnswered
  BY DEF Sign!Init, SignedAsAnswered
<1>2. SignedAsAnswered /\ Sign!Next => SignedAsAnswered' /\ AnswersAreFinal
  <2> SUFFICES ASSUME SignedAsAnswered, Sign!Next
               PROVE  SignedAsAnswered' /\ AnswersAreFinal
    OBVIOUS
  <2> USE DEF SignedAsAnswered, AnswersAreFinal, Sign!Move, Sign!MakeSignature
  <2>1. ASSUME NEW r \in Requests, NEW refusal \in Sign!Decision \cup {"failed"},
               Sign!Refuse(r, refusal)
        PROVE  SignedAsAnswered' /\ AnswersAreFinal
    BY <2>1 DEF Sign!Refuse
  <2>2. ASSUME NEW r \in Requests, Sign!Admit(r)
        PROVE  SignedAsAnswered' /\ AnswersAreFinal
    BY <2>2 DEF Sign!Admit
  <2>3. ASSUME NEW r \in Requests, Sign!Sign(r)
        PROVE  SignedAsAnswered' /\ AnswersAreFinal
    BY <2>3 DEF Sign!Sign
  <2>4. ASSUME NEW r \in Requests, Sign!Approve(r)
        PROVE  SignedAsAnswered' /\ AnswersAreFinal
    <3>1. /\ answer[r] = "waiting" /\ answer' = [answer EXCEPT ![r] = "Approved"]
          /\ UNCHANGED <<admitted, log>>
          /\ r \in admitted /\ made' = [made EXCEPT ![r] = 1]
      BY <2>4 DEF Sign!Approve
    <3>2. \A k \in Requests \ {r} : answer'[k] = answer[k] /\ made'[k] = made[k]
      BY <3>1
    <3>3. answer'[r] = "Approved" /\ made'[r] = 1
      BY <3>1
    <3>4. log' \subseteq Sign!Answers'
      BY <3>1, <3>2
    <3> QED
      BY <3>1, <3>2, <3>3, <3>4
  <2>5. ASSUME NEW r \in Requests, Sign!Fail(r)
        PROVE  SignedAsAnswered' /\ AnswersAreFinal
    BY <2>5 DEF Sign!Fail
  <2>6. ASSUME NEW entry \in Sign!Answers, Sign!Log(entry)
        PROVE  SignedAsAnswered' /\ AnswersAreFinal
    BY <2>6 DEF Sign!Log
  <2>7. CASE Sign!End
    BY <2>7 DEF Sign!End
  <2> QED
    BY <2>1, <2>2, <2>3, <2>4, <2>5, <2>6, <2>7 DEF Sign!Next
<1>3. SignedAsAnswered /\ UNCHANGED Sign!vars => SignedAsAnswered'
  BY DEF Sign!vars, SignedAsAnswered
<1> QED
  BY <1>1, <1>2, <1>3, PTL DEF Sign!Spec

-----------------------------------------------------------------------------
(* Audit events                                                            *)

\* Nothing is in the log that no call brought, a list shows nothing else, and
\* a durable log has every event whose call was told Ok.
ToldIsKept ==
  /\ call \in [Calls -> {"idle", "begun", "told", "over"}]
  /\ kept \subseteq {c \in Calls : call[c] # "idle"}
  /\ shown \subseteq kept
  /\ durable => {c \in Calls : call[c] = "told"} \subseteq kept

\* A call that has come back is not begun again, a log stays of its kind, a
\* durable one forgets nothing, and the other only when its process ends, which
\* no call survives.
NothingIsForgotten ==
  /\ \A c \in Calls : call[c] \in {"told", "over"} => call'[c] = call[c]
  /\ durable' = durable
  /\ durable => kept \subseteq kept'
  /\ kept \subseteq kept' \/ \A c \in Calls : call'[c] # "begun"

\* Whoever was told that an event is recorded can rely on it.
THEOREM AuditGuarantee ==
  Audit!Spec => []ToldIsKept /\ [][NothingIsForgotten]_(Audit!vars)
<1>1. Audit!Init => ToldIsKept
  BY DEF Audit!Init, ToldIsKept
<1>2. ToldIsKept /\ Audit!Next => ToldIsKept' /\ NothingIsForgotten
  <2> SUFFICES ASSUME ToldIsKept, Audit!Next PROVE ToldIsKept' /\ NothingIsForgotten
    OBVIOUS
  <2> USE DEF ToldIsKept, NothingIsForgotten
  <2>1. ASSUME NEW c \in Calls, Audit!Begin(c) PROVE ToldIsKept' /\ NothingIsForgotten
    BY <2>1 DEF Audit!Begin
  <2>2. ASSUME NEW c \in Calls, Audit!Land(c) PROVE ToldIsKept' /\ NothingIsForgotten
    BY <2>2 DEF Audit!Land
  <2>3. ASSUME NEW c \in Calls, Audit!Confirm(c) PROVE ToldIsKept' /\ NothingIsForgotten
    BY <2>3 DEF Audit!Confirm
  <2>4. ASSUME NEW c \in Calls, Audit!GiveUp(c) PROVE ToldIsKept' /\ NothingIsForgotten
    BY <2>4 DEF Audit!GiveUp
  <2>5. CASE Audit!Read
    BY <2>5 DEF Audit!Read
  <2>6. CASE Audit!End
    BY <2>6 DEF Audit!End
  <2> QED
    BY <2>1, <2>2, <2>3, <2>4, <2>5, <2>6 DEF Audit!Next
<1>3. ToldIsKept /\ UNCHANGED Audit!vars => ToldIsKept'
  BY DEF Audit!vars, ToldIsKept
<1> QED
  BY <1>1, <1>2, <1>3, PTL DEF Audit!Spec
=============================================================================
