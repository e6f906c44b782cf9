---------------------------- MODULE Transfer_proofs ----------------------------
(***************************************************************************)
(* Theorems about prepared transfers and their simulation, for any orders, *)
(* any transactions written by hand and any number of clients.             *)
(***************************************************************************)
EXTENDS Transfer, TLAPS

Result ==
  [success : BOOLEAN, warnings : SUBSET {"below_minimum", "low_for_call", "static"}]

-----------------------------------------------------------------------------
(* The handlers as functions                                               *)

\* An optional field that is absent takes the default, one that is present its
\* own value.
LEMMA UnwrapOrFacts ==
  ASSUME NEW S, NEW option \in Optional(S), NEW default
  PROVE  /\ option = {} => UnwrapOr(option, default) = default
         /\ option # {} => UnwrapOr(option, default) \in option
BY DEF UnwrapOr, Optional

\* prepare_transfer builds a transaction, and its gas limit is the caller's or
\* the default for the kind of transfer.
LEMMA PreparedFacts ==
  ASSUME NEW o \in Order, ~IsRejected(o)
  PROVE  /\ Prepared(o) \in Transaction
         /\ o.gas_limit = {} =>
              Prepared(o).gas_limit = IF o.token = {} THEN NativeGas ELSE Erc20Gas
         /\ Prepared(o).data_len = IF o.token = {} THEN 0 ELSE 68
         /\ Prepared(o).from_address = "good"
         /\ Prepared(o).to = "good"
         /\ Prepared(o).value_wei = "good"
         /\ Prepared(o).data_hex = "good"
         /\ o.fee # {"bad"} => Prepared(o).fee = "good"
<1> DEFINE default == IF o.token = {} THEN NativeGas ELSE Erc20Gas
           gas == UnwrapOr(o.gas_limit, default)
           fee == UnwrapOr(o.fee, "good")
<1>0. /\ o.gas_limit \in Optional(Nat) /\ o.fee \in Optional(Text)
      /\ o.from_address \in Text /\ o.to_address \in Text /\ o.amount \in Text
  BY DEF Order
<1>1. default \in Nat
  BY DEF NativeGas, Erc20Gas
<1>2. gas \in Nat /\ (o.gas_limit = {} => gas = default)
  <2>1. o.gas_limit \subseteq Nat
    BY <1>0 DEF Optional
  <2> QED
    BY <1>0, <1>1, <2>1, UnwrapOrFacts
<1>3. fee \in Text /\ (o.fee # {"bad"} => fee = "good")
  <2>1. o.fee \subseteq Text
    BY <1>0 DEF Optional
  <2>2. CASE o.fee = {}
    BY <1>0, <2>2, UnwrapOrFacts DEF Text
  <2>3. CASE o.fee # {}
    <3>1. fee \in o.fee
      BY <1>0, <2>3, UnwrapOrFacts
    <3>2. o.fee = {fee}
      BY <1>0, <3>1 DEF Optional
    <3> QED
      BY <2>1, <3>1, <3>2 DEF Text
  <2> QED
    BY <2>2, <2>3
<1>4. o.from_address = "good" /\ o.to_address = "good" /\ o.amount = "good"
  BY <1>0 DEF IsRejected, Text
<1>5. CalldataLen = 68
  BY DEF CalldataLen
<1>6. Prepared(o) =
        [from_address |-> o.from_address, to |-> "good",
         value_wei |-> IF o.token = {} THEN o.amount ELSE "good", data_hex |-> "good",
         data_len |-> IF o.token = {} THEN 0 ELSE 68, gas_limit |-> gas, fee |-> fee]
  BY <1>5 DEF Prepared
<1> HIDE DEF default, gas, fee
<1>7. Prepared(o) \in Transaction
  BY <1>2, <1>3, <1>4, <1>6 DEF Transaction, Text
<1> QED
  BY <1>2, <1>3, <1>4, <1>6, <1>7 DEF default

\* The notices about gas, one by one.
LEMMA GasWarningsFacts ==
  ASSUME NEW t \in Transaction
  PROVE  /\ "below_minimum" \in GasWarnings(t) <=> t.gas_limit < 21000
         /\ "low_for_call" \in GasWarnings(t) <=> t.data_len > 0 /\ t.gas_limit < 50000
         /\ GasWarnings(t) \subseteq {"below_minimum", "low_for_call"}
BY DEF GasWarnings, NativeGas

\* What the simulator answers for any transaction.
LEMMA SimulateType ==
  ASSUME NEW t \in Transaction
  PROVE  /\ Simulate(t) \in Result
         /\ Simulate(t).success <=> t.gas_limit >= 21000 + t.data_len * 16
         /\ Simulate(t).warnings \ {"static"} = GasWarnings(t)
<1>1. t.gas_limit \in Nat /\ t.data_len \in Nat
  BY DEF Transaction
<1>2. EstimatedGas(t) = 21000 + t.data_len * 16
  BY DEF EstimatedGas, NativeGas
<1>3. (t.gas_limit >= EstimatedGas(t)) \in BOOLEAN
  OBVIOUS
<1>4. GasWarnings(t) \subseteq {"below_minimum", "low_for_call"}
  BY GasWarningsFacts
<1>5. Simulate(t).success = (t.gas_limit >= EstimatedGas(t))
  BY DEF Simulate
<1>6. Simulate(t).warnings = GasWarnings(t) \cup IF RpcUrl THEN {} ELSE {"static"}
  BY DEF Simulate
<1>7. Simulate(t).warnings \subseteq {"below_minimum", "low_for_call", "static"}
  BY <1>4, <1>6
<1>8. Simulate(t) = [success |-> Simulate(t).success, warnings |-> Simulate(t).warnings]
  BY DEF Simulate
<1>9. Simulate(t) \in Result
  BY <1>3, <1>5, <1>7, <1>8 DEF Result
<1>10. Simulate(t).success <=> t.gas_limit >= 21000 + t.data_len * 16
  <2>1. Simulate(t).success <=> t.gas_limit >= EstimatedGas(t)
    BY <1>5
  <2> QED
    BY <1>1, <1>2, <2>1
<1>11. Simulate(t).warnings \ {"static"} = GasWarnings(t)
  BY <1>4, <1>6
<1> QED
  BY <1>9, <1>10, <1>11

\* The default gas limit of either kind of transfer covers the estimate and is
\* above every threshold; any limit that does not cover the estimate of a
\* prepared transfer is below one.
THEOREM GasFits ==
  ASSUME NEW o \in Order, ~IsRejected(o)
  PROVE  /\ o.gas_limit = {} => /\ Simulate(Prepared(o)).success
                                /\ Simulate(Prepared(o)).warnings \subseteq {"static"}
         /\ ~Simulate(Prepared(o)).success =>
              Simulate(Prepared(o)).warnings \ {"static"} # {}
<1> DEFINE t == Prepared(o)
<1>1. t \in Transaction /\ t.gas_limit \in Nat
  BY PreparedFacts DEF Transaction
<1>2. t.data_len = IF o.token = {} THEN 0 ELSE 68
  BY PreparedFacts
<1>3. o.gas_limit = {} => t.gas_limit = IF o.token = {} THEN 21000 ELSE 65000
  BY PreparedFacts DEF NativeGas, Erc20Gas
<1> HIDE DEF t
<1>4. o.gas_limit = {} => Simulate(t).success /\ GasWarnings(t) = {}
  BY <1>1, <1>2, <1>3, SimulateType, GasWarningsFacts
<1>5. ~Simulate(t).success => GasWarnings(t) # {}
  BY <1>1, <1>2, SimulateType, GasWarningsFacts
<1>6. Simulate(t).warnings \ {"static"} = GasWarnings(t)
  BY <1>1, SimulateType
<1> QED
  BY <1>4, <1>5, <1>6 DEF t

-----------------------------------------------------------------------------
(* The inductive invariant                                                 *)

Domains ==
  /\ order \in [Clients -> SUBSET Orders]
  /\ tx \in [Clients -> SUBSET Transaction]
  /\ result \in [Clients -> SUBSET Result]

\* A client that ordered has one order, and its transaction is the one that was
\* prepared for it.
FromItsOrder ==
  \A c \in Clients :
    /\ stage[c] = "idle" => order[c] = {} /\ tx[c] = {} /\ result[c] = {}
    /\ \A o \in order[c], t \in tx[c] : ~IsRejected(o) /\ t = Prepared(o)

\* A result is the one of its client's transaction, and goes with the stage.
OfItsTransaction ==
  \A c \in Clients :
    /\ \A r \in result[c] : \E t \in tx[c] : r = Simulate(t)
    /\ result[c] # {} <=>
         stage[c] \in {"recording", "answered", "dropped", "internal_error"}

IInv ==
  /\ Domains
  /\ FromItsOrder
  /\ OfItsTransaction
  /\ AnsweredIsAudited

\* Every step keeps the invariant; with TypeOK it is inductive.
LEMMA InvariantStep ==
  ASSUME TypeOK, IInv, [Next]_vars
  PROVE  TypeOK' /\ IInv'
<1> USE TransferAssumption DEF Moves
<1> DEFINE Outcome == {"success", "warning"}
<1>1. ASSUME NEW c \in Clients, NEW o \in Orders, PrepareTransfer(c, o)
      PROVE  TypeOK' /\ IInv'
  <2>1. o \in Order /\ (~IsRejected(o) => Prepared(o) \in Transaction)
    BY PreparedFacts
  <2>2. result[c] = {} /\ result' = result
    BY <1>1 DEF PrepareTransfer, IInv, FromItsOrder
  <2>3. Domains'
    BY <1>1, <2>1 DEF PrepareTransfer, IInv, Domains
  <2>4. FromItsOrder'
    BY <1>1, <2>2 DEF PrepareTransfer, IInv, Domains, FromItsOrder, TypeOK
  <2>5. OfItsTransaction' /\ AnsweredIsAudited'
    BY <1>1, <2>2 DEF PrepareTransfer, IInv, Domains, OfItsTransaction,
       AnsweredIsAudited, TypeOK
  <2>6. TypeOK'
    BY <1>1, <2>1, <2>2 DEF PrepareTransfer, IInv, Domains, TypeOK
  <2> QED
    BY <2>3, <2>4, <2>5, <2>6 DEF IInv
<1>2. ASSUME NEW c \in Clients, NEW t \in HandMade, WriteByHand(c, t)
      PROVE  TypeOK' /\ IInv'
  <2>1. t \in Transaction /\ result[c] = {} /\ order[c] = {}
    BY <1>2 DEF WriteByHand, IInv, FromItsOrder
  <2>2. IInv'
    BY <1>2, <2>1 DEF WriteByHand, IInv, Domains, FromItsOrder, OfItsTransaction,
       AnsweredIsAudited, TypeOK
  <2>3. TypeOK'
    BY <1>2, <2>1 DEF WriteByHand, IInv, Domains, TypeOK
  <2> QED
    BY <2>2, <2>3
<1>3. ASSUME NEW c \in Clients, NEW chain_id \in {0, 1}, StartSimulation(c, chain_id)
      PROVE  TypeOK' /\ IInv'
  <2>1. PICK t \in tx[c] :
          /\ \/ Moves(c, "has_tx", "bad_request") /\ UNCHANGED result
             \/ Moves(c, "has_tx", "recording")
                /\ result' = [result EXCEPT ![c] = {Simulate(t)}]
          /\ UNCHANGED <<order, tx, audit>>
    BY <1>3 DEF StartSimulation
  <2>2. t \in Transaction /\ Simulate(t) \in Result
    BY SimulateType DEF IInv, Domains
  <2>3. result[c] = {}
    BY <2>1 DEF IInv, OfItsTransaction
  <2>4. Domains' /\ FromItsOrder'
    BY <2>1, <2>2 DEF IInv, Domains, FromItsOrder, TypeOK
  <2>5. OfItsTransaction'
    BY <2>1, <2>3 DEF IInv, Domains, OfItsTransaction, TypeOK
  <2>6. AnsweredIsAudited'
    BY <2>1 DEF IInv, Domains, AnsweredIsAudited, TypeOK
  <2>7. TypeOK'
    BY <2>1, <2>2, <2>5 DEF IInv, Domains, OfItsTransaction, TypeOK, Result
  <2> QED
    BY <2>4, <2>5, <2>6, <2>7 DEF IInv
<1>4. ASSUME NEW c \in Clients, RecordSimulation(c) \/ Drop(c)
      PROVE  TypeOK' /\ IInv'
  <2>1. /\ UNCHANGED <<order, tx, result>>
        /\ audit \subseteq audit'
        /\ \A e \in audit' \ audit : \E r \in result[c] : e = Event(c, r)
        /\ \E to \in {"answered", "dropped", "internal_error"} :
             Moves(c, "recording", to)
        /\ stage'[c] = "answered" => \E r \in result[c] : Event(c, r) \in audit'
    BY <1>4 DEF RecordSimulation, Drop, TypeOK
  <2>2. audit' \subseteq Clients \X Outcome
    BY <2>1 DEF Event, TypeOK
  <2>3. Domains' /\ FromItsOrder' /\ OfItsTransaction'
    BY <2>1 DEF IInv, Domains, FromItsOrder, OfItsTransaction, TypeOK
  <2>4. AnsweredIsAudited'
    BY <2>1 DEF IInv, AnsweredIsAudited, Event, TypeOK
  <2>5. TypeOK'
    BY <2>1, <2>2, <2>3 DEF TypeOK, OfItsTransaction
  <2> QED
    BY <2>3, <2>4, <2>5 DEF IInv
<1>5. CASE UNCHANGED vars
  BY <1>5 DEF vars, TypeOK, IInv, Domains, FromItsOrder, OfItsTransaction,
     AnsweredIsAudited
<1> QED
  BY <1>1, <1>2, <1>3, <1>4, <1>5 DEF Next

\* Every reachable state satisfies the invariant: transactions and results are those
\* of the request they answer.
THEOREM InvariantHolds == Spec => [](TypeOK /\ IInv)
<1>1. Init => TypeOK /\ IInv
  BY DEF Init, TypeOK, IInv, Domains, FromItsOrder, OfItsTransaction, AnsweredIsAudited
<1> QED
  BY <1>1, InvariantStep, PTL DEF Spec

-----------------------------------------------------------------------------
(* Theorems                                                                *)

\* Every variable keeps a value of its kind.
THEOREM TypeCorrect == Spec => []TypeOK
BY InvariantHolds, PTL

\* What prepare_transfer answers 200 for gets through the policy's address
\* check, the simulator's parsers and, with fees that are numbers, the signer's.
THEOREM PreparedIsAccepted == Spec => []PreparedPassesEveryParser
<1>1. TypeOK /\ IInv => PreparedPassesEveryParser
  <2> SUFFICES ASSUME TypeOK, IInv, NEW c \in Clients, NEW t \in tx[c], NEW o \in order[c]
               PROVE  /\ PolicyAccepts(t)
                      /\ SimulatorAccepts(t)
                      /\ o.fee # {"bad"} => SignerAccepts(t)
    BY DEF PreparedPassesEveryParser
  <2>1. o \in Order /\ ~IsRejected(o) /\ t = Prepared(o)
    BY TransferAssumption DEF IInv, Domains, FromItsOrder
  <2> QED
    BY <2>1, PreparedFacts DEF PolicyAccepts, SimulatorAccepts, SignerAccepts
<1> QED
  BY <1>1, InvariantHolds, PTL

\* A transfer with the default gas limit simulates with success and without a
\* warning about gas.
THEOREM DefaultsFit == Spec => []DefaultGasIsEnough
<1>1. TypeOK /\ IInv => DefaultGasIsEnough
  <2> SUFFICES ASSUME IInv, NEW c \in Clients, NEW o \in order[c], NEW r \in result[c],
                      o.gas_limit = {}
               PROVE  r.success /\ r.warnings \subseteq {"static"}
    BY DEF DefaultGasIsEnough
  <2>1. o \in Order /\ ~IsRejected(o) /\ r = Simulate(Prepared(o))
    BY TransferAssumption DEF IInv, Domains, FromItsOrder, OfItsTransaction
  <2> QED
    BY <2>1, GasFits
<1> QED
  BY <1>1, InvariantHolds, PTL

\* A prepared transfer whose simulation fails comes with a warning about gas.
THEOREM FailuresAreExplained == Spec => []FailureIsExplained
<1>1. TypeOK /\ IInv => FailureIsExplained
  <2> SUFFICES ASSUME IInv, NEW c \in Clients, NEW r \in result[c], NEW o \in order[c],
                      ~r.success
               PROVE  r.warnings \ {"static"} # {}
    BY DEF FailureIsExplained
  <2>1. o \in Order /\ ~IsRejected(o) /\ r = Simulate(Prepared(o))
    BY TransferAssumption DEF IInv, Domains, FromItsOrder, OfItsTransaction
  <2> QED
    BY <2>1, GasFits
<1> QED
  BY <1>1, InvariantHolds, PTL

\* A simulation that was answered is in the audit log with its outcome.
THEOREM AnswersAreAudited == Spec => []AnsweredIsAudited
BY InvariantHolds, PTL DEF IInv
=============================================================================
