---------------------------- MODULE MCFullTable ----------------------------
(* More nodes than accounts[] has room for: one of the devices never gets   *)
(* an account, but may be paid, be rewarded, and sign transactions.         *)
EXTENDS MCLedger

FullTableTxs ==
    {Tx("FAUCET", n, f, 0, 1, 0) : n \in {a, b}} \cup
    {Tx("DATA", n, f, 0, 1, 0) : n \in {a, b}} \cup
    {Tx("TRANSFER", a, n, 2, 1, 0) : n \in {a, b}} \cup
    {Tx("STAKE", n, f, MinStake, 1, 0) : n \in {a, b}} \cup
    {Tx("CLAIM", a, f, 0, 1, 0), Tx("UNSTAKE", a, f, MinStake, 1, 0)}
=============================================================================
