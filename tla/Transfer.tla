------------------------------- MODULE Transfer -------------------------------
(***************************************************************************)
(* POST /v1/evm/prepare-transfer and POST /v1/evm/simulate-transaction     *)
(* (src/src/service.rs): a client has a transfer prepared, hands the       *)
(* transaction to the simulator, and later to the signer.  The four        *)
(* components look at the same strings with parsers of their own; the      *)
(* transaction must get through all of them.                               *)
(*                                                                         *)
(* A text field is "good" if its parser accepts it and "bad" otherwise; an *)
(* optional one is a set with at most one element.                         *)
(*                                                                         *)
(* A definition named Name_Fault is Name with a fault a programmer could   *)
(* make; no specification uses one.                                        *)
(***************************************************************************)
EXTENDS Naturals

CONSTANTS
  Clients,       \* clients, each with one transfer at a time
  Orders,        \* the prepare-transfer bodies explored
  HandMade,      \* transactions that clients write themselves
  RpcUrl,        \* AI_WALLET_RPC_URL is set
  PostgresAudit  \* DATABASE_URL is set; otherwise the audit log is in memory

Text == {"good", "bad"}
Optional(S) == {s \in SUBSET S : \A x, y \in s : x = y}

Order ==
  [chain_id : Nat, from_address : Text, to_address : Text, token : Optional(Text),
   amount : Text, gas_limit : Optional(Nat), fee : Optional(Text)]

\* What the parsers and the gas arithmetic see of a transaction; data_len is
\* the number of bytes of its calldata.
Transaction ==
  [from_address : Text, to : Text, value_wei : Text, data_hex : Text,
   data_len : Nat, gas_limit : Nat, fee : Text]

ASSUME TransferAssumption ==
  /\ Orders \subseteq Order
  /\ HandMade \subseteq Transaction
  /\ RpcUrl \in BOOLEAN
  /\ PostgresAudit \in BOOLEAN

VARIABLES
  stage,   \* where each client stands, in the end the last answer
  order,   \* its prepare-transfer body, or {} for a hand-made transaction
  tx,      \* its transaction, as an option
  result,  \* the simulator's result while and after it is recorded, as an option
  audit    \* the simulate_transaction events of the audit repository

vars == <<stage, order, tx, result, audit>>

UnwrapOr(option, default) ==
  IF option = {} THEN default ELSE CHOOSE x \in option : TRUE

-----------------------------------------------------------------------------
(* prepare_transfer                                                        *)

\* Fault: the amount of a native transfer, which is only copied, is not parsed.
IsRejected_NativeAmount(o) ==
  \/ o.chain_id = 0
  \/ "bad" \in {o.from_address, o.to_address}
  \/ o.token # {} /\ "bad" \in o.token \cup {o.amount}

\* The fees are taken as they come: no parser looks at them here.
IsRejected(o) ==
  \/ o.chain_id = 0
  \/ "bad" \in {o.from_address, o.to_address, o.amount}
  \/ o.token = {"bad"}

NativeGas == 21000
Erc20Gas == 65000

\* A selector and two words of 32 bytes.
CalldataLen == 4 + 2 * 32

\* Fault: both kinds of transfer get the gas limit of a native one.
Prepared_OneGas(o) ==
  [from_address |-> o.from_address, to |-> "good",
   value_wei |-> IF o.token = {} THEN o.amount ELSE "good", data_hex |-> "good",
   data_len |-> IF o.token = {} THEN 0 ELSE CalldataLen,
   gas_limit |-> UnwrapOr(o.gas_limit, NativeGas), fee |-> UnwrapOr(o.fee, "good")]

\* A native transfer carries the amount as it came and no calldata, an ERC-20
\* transfer "0" and a call of the token; `to` is printed from what was parsed.
Prepared(o) ==
  [from_address |-> o.from_address, to |-> "good",
   value_wei |-> IF o.token = {} THEN o.amount ELSE "good", data_hex |-> "good",
   data_len |-> IF o.token = {} THEN 0 ELSE CalldataLen,
   gas_limit |-> UnwrapOr(o.gas_limit, IF o.token = {} THEN NativeGas ELSE Erc20Gas),
   fee |-> UnwrapOr(o.fee, "good")]

-----------------------------------------------------------------------------
(* The other parsers of the same transaction                               *)

PolicyAccepts(t) == t.to = "good"

SimulatorAccepts(t) ==
  "bad" \notin {t.from_address, t.to, t.value_wei, t.data_hex}

SignerAccepts(t) ==
  "bad" \notin {t.from_address, t.to, t.value_wei, t.data_hex, t.fee}

EstimatedGas(t) == NativeGas + t.data_len * 16

GasWarnings(t) ==
  {w \in {"below_minimum", "low_for_call"} :
     \/ w = "below_minimum" /\ t.gas_limit < NativeGas
     \/ w = "low_for_call" /\ t.data_len > 0 /\ t.gas_limit < 50000}

\* Fault: the second warning is an else of the first, and asks for less.
Simulate_FewerWarnings(t) ==
  [success |-> t.gas_limit >= EstimatedGas(t),
   warnings |-> IF t.gas_limit < NativeGas THEN {"below_minimum"}
                ELSE IF RpcUrl THEN {} ELSE {"static"}]

Simulate(t) ==
  [success |-> t.gas_limit >= EstimatedGas(t),
   warnings |-> GasWarnings(t) \cup IF RpcUrl THEN {} ELSE {"static"}]

-----------------------------------------------------------------------------
Init ==
  /\ stage = [c \in Clients |-> "idle"]
  /\ order = [c \in Clients |-> {}]
  /\ tx = [c \in Clients |-> {}]
  /\ result = [c \in Clients |-> {}]
  /\ audit = {}

Moves(c, from, to) ==
  /\ stage[c] = from
  /\ stage' = [stage EXCEPT ![c] = to]

PrepareTransfer(c, o) ==
  /\ Moves(c, "idle", IF IsRejected(o) THEN "bad_request" ELSE "has_tx")
  /\ order' = [order EXCEPT ![c] = {o}]
  /\ tx' = [tx EXCEPT ![c] = IF IsRejected(o) THEN {} ELSE {Prepared(o)}]
  /\ UNCHANGED <<result, audit>>

WriteByHand(c, t) ==
  /\ Moves(c, "idle", "has_tx")
  /\ tx' = [tx EXCEPT ![c] = {t}]
  /\ UNCHANGED <<order, result, audit>>

\* simulate_transaction up to the await of the audit repository.
StartSimulation(c, chain_id) ==
  \E t \in tx[c] :
    /\ IF chain_id = 0 \/ ~SimulatorAccepts(t)
       THEN /\ Moves(c, "has_tx", "bad_request")
            /\ UNCHANGED result
       ELSE /\ Moves(c, "has_tx", "recording")
            /\ result' = [result EXCEPT ![c] = {Simulate(t)}]
    /\ UNCHANGED <<order, tx, audit>>

\* A simulation that fails is recorded as a warning.
Event(c, r) == <<c, IF r.success THEN "success" ELSE "warning">>

\* Fault: the error of the audit repository is ignored.
RecordSimulation_IgnoresError(c) ==
  \E r \in result[c] :
    /\ Moves(c, "recording", "answered")
    /\ audit' \in {audit \cup {Event(c, r)}} \cup IF PostgresAudit THEN {audit} ELSE {}
    /\ UNCHANGED <<order, tx, result>>

\* The event is recorded before the client is answered; without it the client
\* gets a 500 and not the result.  An insert may fail after it is committed.
RecordSimulation(c) ==
  \E r \in result[c] :
    /\ \/ /\ Moves(c, "recording", "answered")
          /\ audit' = audit \cup {Event(c, r)}
       \/ /\ PostgresAudit
          /\ Moves(c, "recording", "internal_error")
          /\ audit' \in {audit, audit \cup {Event(c, r)}}
    /\ UNCHANGED <<order, tx, result>>

\* The client goes away while its event is on its way to the table.
Drop(c) ==
  /\ Moves(c, "recording", "dropped")
  /\ \E landed \in SUBSET (IF PostgresAudit THEN {Event(c, r) : r \in result[c]} ELSE {}) :
       audit' = audit \cup landed
  /\ UNCHANGED <<order, tx, result>>

Next ==
  \E c \in Clients :
    \/ \E o \in Orders : PrepareTransfer(c, o)
    \/ \E t \in HandMade : WriteByHand(c, t)
    \/ \E chain_id \in {0, 1} : StartSimulation(c, chain_id)
    \/ RecordSimulation(c)
    \/ Drop(c)

Spec == Init /\ [][Next]_vars

-----------------------------------------------------------------------------
(* Properties                                                              *)

\* Every variable holds a value of its kind, and only a request that got as far
\* as the audit repository has a result.
TypeOK ==
  /\ stage \in [Clients -> {"idle", "has_tx", "recording", "answered", "dropped",
                            "bad_request", "internal_error"}]
  /\ \A c \in Clients :
       /\ order[c] \subseteq Orders
       /\ \A t \in tx[c] : t \in Transaction
       /\ result[c] # {} <=>
            stage[c] \in {"recording", "answered", "dropped", "internal_error"}
       /\ \A r \in result[c] :
            /\ r.success \in BOOLEAN
            /\ r.warnings \subseteq {"below_minimum", "low_for_call", "static"}
  /\ audit \subseteq Clients \X {"success", "warning"}

FromOrder(c) == order[c] # {} /\ tx[c] # {}

\* A transaction that prepare_transfer built passes the address check of the
\* policy and the parsers of the simulator, and, unless the caller's own fees
\* are not numbers, those of the signer: no client is told 200 by the first
\* endpoint and 400 by the next for a field the first one has checked.
PreparedPassesEveryParser ==
  \A c \in Clients : FromOrder(c) =>
    \A t \in tx[c] : \A o \in order[c] :
      /\ PolicyAccepts(t)
      /\ SimulatorAccepts(t)
      /\ o.fee # {"bad"} => SignerAccepts(t)

\* A transfer prepared with the default gas limit simulates with success and
\* without a warning about gas: the defaults of one handler fit the estimate
\* and the thresholds of the other.
DefaultGasIsEnough ==
  \A c \in Clients : \A o \in order[c] : \A r \in result[c] :
    o.gas_limit = {} => r.success /\ r.warnings \subseteq {"static"}

\* A prepared transfer whose simulation fails comes with a reason, also when
\* the notice about static simulation is absent.
FailureIsExplained ==
  \A c \in Clients : \A r \in result[c] :
    order[c] # {} /\ ~r.success => r.warnings \ {"static"} # {}

\* A simulation that was answered is in the audit log with its outcome.
AnsweredIsAudited ==
  \A c \in Clients : stage[c] = "answered" =>
    \E r \in result[c] : <<c, IF r.success THEN "success" ELSE "warning">> \in audit
=============================================================================
