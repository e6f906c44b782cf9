---------------------------- MODULE SigningPromise ----------------------------
(***************************************************************************)
(* What a client of POST /v1/evm/sign-intent is promised, without signer   *)
(* modes, worker or audit tasks: an answer is given once and stays, a      *)
(* signature is made at most once and only of a request the policy has     *)
(* admitted, an approval has its signature, a failure may hide one, and    *)
(* the log holds answers only and loses none while the process lives.      *)
(***************************************************************************)
EXTENDS Naturals

CONSTANTS
  Requests,
  Durable    \* the log survives its process

VARIABLES
  answer,    \* [Requests -> {"none", "waiting", "failed"} \cup Decision]
  admitted,  \* the requests the policy let through to the signer
  made,      \* the signatures made for each request
  log        \* the decisions in the audit log

vars == <<answer, admitted, made, log>>

Decision == {"Approved", "Denied", "RequiresReview"}

Init ==
  /\ answer = [r \in Requests |-> "none"]
  /\ admitted = {}
  /\ made = [r \in Requests |-> 0]
  /\ log = {}

Move(r, from, to) ==
  /\ answer[r] = from
  /\ answer' = [answer EXCEPT ![r] = to]

Refuse(r, refusal) ==
  /\ refusal # "Approved"
  /\ Move(r, "none", refusal)
  /\ UNCHANGED <<admitted, made, log>>

Admit(r) ==
  /\ Move(r, "none", "waiting")
  /\ admitted' = admitted \cup {r}
  /\ UNCHANGED <<made, log>>

MakeSignature(r) ==
  /\ r \in admitted
  /\ made[r] = 0
  /\ made' = [made EXCEPT ![r] = 1]

\* A signature may be on its way when its request is given up.
Sign(r) ==
  /\ answer[r] \in {"waiting", "failed"}
  /\ MakeSignature(r)
  /\ UNCHANGED <<answer, admitted, log>>

Approve(r) ==
  /\ Move(r, "waiting", "Approved")
  /\ \/ made[r] = 1 /\ UNCHANGED made
     \/ MakeSignature(r)
  /\ UNCHANGED <<admitted, log>>

Fail(r) ==
  /\ Move(r, "waiting", "failed")
  /\ UNCHANGED <<admitted, made, log>>

Answers == {entry \in Requests \X Decision : answer[entry[1]] = entry[2]}

Log(entry) ==
  /\ entry \in Answers
  /\ log' = log \cup {entry}
  /\ UNCHANGED <<answer, admitted, made>>

\* The process ends: what waits has failed, and a log that lived in it is empty.
End ==
  /\ answer' = [r \in Requests |->
                  IF answer[r] = "waiting" THEN "failed" ELSE answer[r]]
  /\ \E landed \in SUBSET Answers : log' = IF Durable THEN log \cup landed ELSE {}
  /\ UNCHANGED <<admitted, made>>

Next ==
  \/ \E r \in Requests :
       \/ \E refusal \in Decision \cup {"failed"} : Refuse(r, refusal)
       \/ Admit(r) \/ Sign(r) \/ Approve(r) \/ Fail(r)
  \/ \E entry \in Answers : Log(entry)
  \/ End

Spec == Init /\ [][Next]_vars
=============================================================================
