------------------------------ MODULE MCLedger ------------------------------
(* Small instances of the ledger for TLC: a founder and two devices.       *)
EXTENDS Ledger, TLC

CONSTANTS f, a, b

MCNodes == {f, a, b}
MCHash32 == (f :> 2) @@ (a :> 1) @@ (b :> 3)

Tx(type, sender, to, value, gasPrice, gas) ==
    [type |-> type, sender |-> sender, to |-> to,
     value |-> value, gasPrice |-> gasPrice, gas |-> gas]

\* Everyone may join; a leaves and comes back, pays, calls and deploys.
\* Word - 1 makes value + fee wrap around to 0; the call's fee is clipped.
MCTxs ==
    {Tx("FAUCET", n, f, 0, 1, 0) : n \in {a, b}} \cup
    {Tx("STAKE", n, f, MinStake, 1, 0) : n \in {a, b}} \cup
    {Tx("UNSTAKE", a, f, v, 1, 0) : v \in {MinStake, MinStake + 1}} \cup
    {Tx("TRANSFER", a, b, v, 1, 0) : v \in {2, Word - 1}} \cup
    {Tx("TRANSFER", a, a, 2, 1, 0), Tx("CLAIM", a, f, 0, 1, 0), Tx("STAKE", b, f, Word - 1, 1, 0),
     Tx("DATA", b, f, 0, 2, 0), Tx("CALL", b, f, 0, 1, 9), Tx("DEPLOY", a, f, 0, 1, 2)}
=============================================================================
