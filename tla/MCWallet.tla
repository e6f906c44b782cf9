------------------------------- MODULE MCWallet -------------------------------
(* Instances of Wallet for TLC. *)
EXTENDS Wallet

Good == [max_value |-> ReviewThreshold, chain_id |-> 1, names_wallet |-> TRUE,
         operation |-> "TransferNative", has_purpose |-> FALSE,
         payload |-> [kind |-> "Transaction", defect |-> "none", value |-> ReviewThreshold]]

\* An intent that is signed.
OneIntent == {Good}

TwoSigners == [mode : {"local_dev", "remote_mtls"}, keyed : {TRUE}]
=============================================================================
