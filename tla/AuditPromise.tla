----------------------------- MODULE AuditPromise -----------------------------
(***************************************************************************)
(* What the audit repository promises, without clock, lock, pool or page:  *)
(* an event whose call was told Ok is kept, one whose call failed may or   *)
(* may not be, nothing is kept that no call brought, a list shows what is  *)
(* kept, and a durable log forgets nothing.                                *)
(***************************************************************************)
CONSTANT Calls

VARIABLES
  call,     \* [Calls -> {"idle", "begun", "told", "over"}]
  kept,     \* the events in the log
  shown,    \* the events of the last list
  durable   \* the log survives its process

vars == <<call, kept, shown, durable>>

Init ==
  /\ call = [c \in Calls |-> "idle"]
  /\ kept = {}
  /\ shown = {}
  /\ durable \in BOOLEAN

Begin(c) ==
  /\ call[c] = "idle"
  /\ call' = [call EXCEPT ![c] = "begun"]
  /\ UNCHANGED <<kept, shown, durable>>

\* An event lands while its call waits, or after the call has given up.
Land(c) ==
  /\ call[c] \in {"begun", "over"}
  /\ kept' = kept \cup {c}
  /\ UNCHANGED <<call, shown, durable>>

\* The call is told Ok; its event has landed, at the latest now.
Confirm(c) ==
  /\ call[c] = "begun"
  /\ call' = [call EXCEPT ![c] = "told"]
  /\ kept' = kept \cup {c}
  /\ UNCHANGED <<shown, durable>>

GiveUp(c) ==
  /\ call[c] = "begun"
  /\ call' = [call EXCEPT ![c] = "over"]
  /\ UNCHANGED <<kept, shown, durable>>

Read ==
  /\ shown' \in SUBSET kept
  /\ UNCHANGED <<call, kept, durable>>

\* The process ends: its calls are over, and a log that lived in it is empty.
End ==
  /\ call' = [c \in Calls |-> IF call[c] = "begun" THEN "over" ELSE call[c]]
  /\ kept' = IF durable THEN kept ELSE {}
  /\ shown' = {}
  /\ UNCHANGED durable

Next ==
  \/ \E c \in Calls : Begin(c) \/ Land(c) \/ Confirm(c) \/ GiveUp(c)
  \/ Read
  \/ End

Spec == Init /\ [][Next]_vars
=============================================================================
