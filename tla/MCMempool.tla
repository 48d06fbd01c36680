------------------------------ MODULE MCMempool ------------------------------
(* Devices a, b and c, with ids in this order. *)
EXTENDS Mempool

CONSTANTS a, b, c

MCTwo == {a, b}
MCThree == {a, b, c}
MCId == [d \in Senders |-> CASE d = a -> 1 [] d = b -> 2 [] d = c -> 3]
=============================================================================
