------------------------------ MODULE MCTransfer ------------------------------
(* Instances of Transfer for TLC. *)
EXTENDS Transfer, TLC

\* The values on both sides of each bound of the gas arithmetic.
GasLimits == {20999, 21000, 22087, 22088, 49999, 50000}

GoodOrder == [chain_id |-> 1, from_address |-> "good", to_address |-> "good",
              token |-> {}, amount |-> "good", gas_limit |-> {}, fee |-> {}]

\* Native and ERC-20 transfers with every gas limit, and one order for each
\* field that does not parse.
AllOrders ==
  {[GoodOrder EXCEPT !.token = t, !.gas_limit = g] :
     t \in {{}, {"good"}}, g \in Optional(GasLimits)}
  \cup {[GoodOrder EXCEPT !.chain_id = 0], [GoodOrder EXCEPT !.from_address = "bad"],
        [GoodOrder EXCEPT !.to_address = "bad"], [GoodOrder EXCEPT !.token = {"bad"}],
        [GoodOrder EXCEPT !.amount = "bad"], [GoodOrder EXCEPT !.fee = {"bad"}],
        [GoodOrder EXCEPT !.fee = {"good"}]}

GoodTx == [from_address |-> "good", to |-> "good", value_wei |-> "good",
           data_hex |-> "good", data_len |-> 0, gas_limit |-> 21000, fee |-> "good"]

SomeTxs ==
  {GoodTx, [GoodTx EXCEPT !.to = "bad"], [GoodTx EXCEPT !.data_hex = "bad"],
   [GoodTx EXCEPT !.data_len = 1813, !.gas_limit = 50000]}

ClientSymmetry == Permutations(Clients)
=============================================================================
