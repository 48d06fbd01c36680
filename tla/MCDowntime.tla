----------------------------- MODULE MCDowntime -----------------------------
(* Two devices stake during the bootstrap and then produce, or fail to, for *)
(* several epochs; no payments.                                             *)
EXTENDS MCLedger

DowntimeTxs == {Tx("FAUCET", n, f, 0, 1, 0) : n \in {a, b}} \cup
               {Tx("STAKE", n, f, MinStake + 2, 1, 0) : n \in {a, b}}
=============================================================================
