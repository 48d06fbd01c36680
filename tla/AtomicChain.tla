----------------------------- MODULE AtomicChain -----------------------------
(***************************************************************************)
(* What a ledger promises to somebody who sees only finished blocks: they  *)
(* come one at a time, each as a whole, each executes so many transactions *)
(* and mints its reward and one grant for every FAUCET among them; nothing *)
(* else creates tokens, and only the slashes at the end of an epoch        *)
(* destroy any.  Ledger implements this with blocks that it executes       *)
(* transaction by transaction and may abandon at any point.                *)
(***************************************************************************)
EXTENDS Integers

CONSTANTS BlockReward, GenesisPerNode, FaucetAmount, MaxTxnPerBlock, BootstrapHeight,
          EpochLength

VARIABLES
    blocks,             \* the height
    supply,             \* the tokens in existence
    executed            \* the transactions in all blocks

Init == blocks = 1 /\ supply = GenesisPerNode /\ executed = 0

\* What a faucet may give; it is generous only while the network starts up.
Grants == {FaucetAmount} \cup IF blocks < BootstrapHeight THEN {GenesisPerNode} ELSE {}

\* All faucets of one block give the same.
Block ==
    /\ blocks' = blocks + 1
    /\ \E n \in 0..MaxTxnPerBlock : \E faucets \in 0..n, grant \in Grants :
         /\ executed' = executed + n
         /\ LET funded == supply + BlockReward + faucets * grant
            IN  IF blocks' % EpochLength = 0 THEN supply' \in 0..funded ELSE supply' = funded

Spec == Init /\ [][Block]_<<blocks, supply, executed>>
=============================================================================
