------------------------------- MODULE Mempool -------------------------------
(***************************************************************************)
(* The pending transactions of the devices, from the command that builds   *)
(* one to the block that executes it.                                      *)
(*                                                                         *)
(* A transaction is its sender, its nonce and whether it carries a         *)
(* signature.  Devices agree on one chain of which each knows a prefix:    *)
(* forks are left out, and so are blocks without transactions, which       *)
(* change no nonce.  Messages may arrive late, repeatedly or not at all.   *)
(***************************************************************************)
EXTENDS Drain

CONSTANTS
    Producers,          \* the devices that get slots to produce blocks in
    MaxPending,         \* MAX_PENDING_TX
    MaxNonce,           \* bound: no device builds a nonce above this
    Faults              \* what may go wrong: "tx", "block", "restart"

ASSUME MempoolAssumption ==
    /\ Producers \subseteq Senders
    /\ MaxPending \in Nat \ {0}
    /\ MaxNonce \in Nat
    /\ Faults \subseteq {"tx", "block", "restart"}

VARIABLES
    pool,               \* mempool of each device
    txNonce,            \* g_txNonce of each device
    chain,              \* the blocks' transactions
    applied,            \* how many blocks of the chain each device has applied
    sent                \* every TX_GOSSIP message ever broadcast

vars == <<pool, txNonce, chain, applied, sent>>

Txs == [sender : Senders, nonce : 0..MaxNonce, signed : BOOLEAN]

SameTx(t, u) == t.sender = u.sender /\ t.nonce = u.nonce

\* The places of the first k blocks' transactions, and what is there.
Places(k) == UNION {{i} \X DOMAIN chain[i] : i \in 1..k}
At(p) == chain[p[1]][p[2]]
Earlier(p, q) == p[1] < q[1] \/ (p[1] = q[1] /\ p[2] < q[2])
By(s, P) == {p \in P : At(p).sender = s}

\* getNonce on device d.
NonceOf(d, s) == Cardinality(By(s, Places(applied[d])))

Nonces(d) == [s \in Senders |-> NonceOf(d, s)]

OnChain(s, n) ==
    \E p \in Places(Len(chain)) : At(p).sender = s /\ At(p).nonce = n

Init ==
    /\ pool = [d \in Senders |-> {}]
    /\ txNonce = [d \in Senders |-> 0]
    /\ chain = <<>>
    /\ applied = [d \in Senders |-> 0]
    /\ sent = {}
-----------------------------------------------------------------------------
\* Mutant: the counter is incremented before it is read.
BuildNonceLate(d) == 1 + (IF txNonce[d] < NonceOf(d, d) THEN NonceOf(d, d) ELSE txNonce[d])

\* The nonce buildTx gives to the next transaction.
BuildNonce(d) == IF txNonce[d] < NonceOf(d, d) THEN NonceOf(d, d) ELSE txNonce[d]

\* Mutant: the size of the array is not checked.
AcceptsUnbounded(d, t) ==
    /\ t.signed
    /\ t.nonce >= NonceOf(d, t.sender)
    /\ \A u \in pool[d] : ~ SameTx(t, u)

\* addToMempool returns true.
Accepts(d, t) ==
    /\ t.signed
    /\ t.nonce >= NonceOf(d, t.sender)
    /\ Cardinality(pool[d]) < MaxPending
    /\ \A u \in pool[d] : ~ SameTx(t, u)

AddToMempool(d, t) ==
    pool' = [pool EXCEPT ![d] = IF Accepts(d, t) THEN @ \cup {t} ELSE @]

\* What a device broadcasts: addToMempool has signed its own copy.
Broadcast(t) == [t EXCEPT !.signed = FALSE]

\* A command of the user, or autoBootstrap.
Submit(d) ==
    LET t == [sender |-> d, nonce |-> BuildNonce(d), signed |-> TRUE]
    IN  /\ BuildNonce(d) <= MaxNonce
        /\ txNonce' = [txNonce EXCEPT ![d] = BuildNonce(d) + 1]
        /\ AddToMempool(d, t)
        /\ sent' = sent \cup {Broadcast(t)}
        /\ UNCHANGED <<chain, applied>>

GossipTx(d, t) ==
    /\ t \in sent /\ t.sender # d
    /\ AddToMempool(d, t)
    /\ UNCHANGED <<txNonce, chain, applied, sent>>
-----------------------------------------------------------------------------
\* Mutant: createBlock does not compare nonces.
ExecuteUnchecked(d, out, bad) == SelectSeq(out, LAMBDA t : t \notin bad)

\* executeTx of t after the transactions of block: refused for the nonce, or for
\* some reason of its own if t is in bad.
Tried(d, block, t, bad) ==
    LET done == Cardinality({i \in DOMAIN block : block[i].sender = t.sender})
    IN  IF t \notin bad /\ t.nonce = NonceOf(d, t.sender) + done
        THEN Append(block, t) ELSE block

\* createBlock's loop.
Executing(d, out, bad) ==
    LET block[i \in 0..Len(out)] ==
            IF i = 0 THEN <<>> ELSE Tried(d, block[i - 1], out[i], bad)
    IN  block

Execute(d, out, bad) == Executing(d, out, bad)[Len(out)]

\* checkBlockProduction on a device that has the whole chain: the block holds
\* what was executed, and what was drained is gone.
Produce(d) ==
    LET drained == DrainMempool(pool[d], Nonces(d))
    IN  /\ d \in Producers
        /\ applied[d] = Len(chain)
        /\ pool[d] # {}
        /\ pool' = [pool EXCEPT ![d] = @ \ drained.removed]
        /\ \E bad \in IF "tx" \in Faults THEN SUBSET Range(drained.out) ELSE {{}} :
             LET block == Execute(d, drained.out, bad)
             IN  IF block = <<>>
                 THEN UNCHANGED <<chain, applied>>
                 ELSE /\ chain' = Append(chain, block)
                      /\ applied' = [applied EXCEPT ![d] = @ + 1]
        /\ UNCHANGED <<txNonce, sent>>

\* createBlock returns false, after the pool has been drained.
ProduceRefused(d) ==
    /\ "block" \in Faults
    /\ d \in Producers
    /\ applied[d] = Len(chain)
    /\ pool[d] # {}
    /\ pool' = [pool EXCEPT ![d] = @ \ DrainMempool(@, Nonces(d)).removed]
    /\ UNCHANGED <<txNonce, chain, applied, sent>>

\* Mutant: everything the block's senders have pending is removed.
WithoutSendersOf(P, block) == {t \in P : \A i \in DOMAIN block : block[i].sender # t.sender}

\* What BLOCK_FULL leaves of the pool.
Without(P, block) == {t \in P : \A i \in DOMAIN block : ~ SameTx(block[i], t)}

\* BLOCK_FULL with the next block: the pool is cleaned before the block is
\* checked, and applyNetworkBlock may reject it.
GossipBlock(d) ==
    /\ applied[d] < Len(chain)
    /\ pool' = [pool EXCEPT ![d] = Without(@, chain[applied[d] + 1])]
    /\ \/ applied' = [applied EXCEPT ![d] = @ + 1]
       \/ UNCHANGED applied
    /\ UNCHANGED <<txNonce, chain, sent>>

\* trySync applies the next block and leaves the pool alone.
SyncBlock(d) ==
    /\ \E e \in Senders : applied[e] > applied[d]
    /\ applied' = [applied EXCEPT ![d] = @ + 1]
    /\ UNCHANGED <<pool, txNonce, chain, sent>>

\* Some other device keeps the chain.
Kept(d) == \E e \in Senders \ {d} : applied[e] = Len(chain)

\* resetToGenesis, which trySync calls to start over on the network's chain.
ResetToGenesis(d) ==
    /\ "restart" \in Faults /\ Kept(d)
    /\ pool' = [pool EXCEPT ![d] = {}]
    /\ applied' = [applied EXCEPT ![d] = 0]
    /\ UNCHANGED <<txNonce, chain, sent>>

\* Power off and on: setup() begins with empty memory.
Reboot(d) ==
    /\ "restart" \in Faults /\ Kept(d)
    /\ pool' = [pool EXCEPT ![d] = {}]
    /\ txNonce' = [txNonce EXCEPT ![d] = 0]
    /\ applied' = [applied EXCEPT ![d] = 0]
    /\ UNCHANGED <<chain, sent>>

Next ==
    \E d \in Senders :
        \/ Submit(d)
        \/ \E t \in sent : GossipTx(d, t)
        \/ Produce(d)
        \/ ProduceRefused(d)
        \/ GossipBlock(d)
        \/ SyncBlock(d)
        \/ ResetToGenesis(d)
        \/ Reboot(d)

Spec == Init /\ [][Next]_vars

\* loop() runs for ever: slots come, missing blocks are asked for again, and
\* a device that is listening hears each transaction at least once.
Fairness ==
    \A d \in Senders :
        /\ WF_vars(Produce(d))
        /\ WF_vars(SyncBlock(d))
        /\ \A t \in Txs : WF_vars(GossipTx(d, t))

FairSpec == Spec /\ Fairness
-----------------------------------------------------------------------------
\* No pool holds more than MAX_PENDING_TX transactions, nor two for one nonce.
TypeOK ==
    /\ pool \in [Senders -> SUBSET Txs]
    /\ txNonce \in [Senders -> 0..(MaxNonce + 1)]
    /\ chain \in Seq(Seq(Txs))
    /\ applied \in [Senders -> 0..Len(chain)]
    /\ sent \subseteq Txs
    /\ \A d \in Senders :
        /\ Cardinality(pool[d]) <= MaxPending
        /\ \A t, u \in pool[d] : SameTx(t, u) => t = u

\* Whatever fails, restarts or is resent, the chain executes the transactions
\* of a sender once each and in the order of their nonces.
ChainNonces ==
    LET all == Places(Len(chain))
    IN  \A p \in all :
            At(p).nonce = Cardinality({q \in By(At(p).sender, all) : Earlier(q, p)})

\* The transactions d puts into the block it produces now.
Candidates(d) == Range(DrainMempool(pool[d], Nonces(d)).out)

\* A transaction leaves a pool only when its nonce has been executed, unless
\* the device starts over or has just tried it in a block of its own.
PoolLosesNothing ==
    [][\A d \in Senders : \A t \in pool[d] \ pool'[d] :
            \/ OnChain(t.sender, t.nonce)'
            \/ pool'[d] = {} /\ applied'[d] = 0
            \/ d \in Producers /\ applied[d] = Len(chain) /\ t \in Candidates(d)]_vars

Pending(d, n) == \E t \in pool[d] : t.sender = d /\ t.nonce = n

\* What a producer has in its pool, of its own, is executed.
OwnServed == \A d \in Producers : \A n \in 0..MaxNonce : Pending(d, n) ~> OnChain(d, n)

\* The code does not ensure the following.

\* A transaction that is reported as "submitted" (mirkonet.ino:2203) is in the
\* device's pool.
AcknowledgedIsPooled ==
    [][\A d \in Senders :
            txNonce'[d] > txNonce[d] =>
                \E t \in pool'[d] : t.sender = d /\ t.nonce = txNonce'[d] - 1]_vars

\* What any device has submitted and broadcast is executed, whoever produces.
EveryoneServed == \A d \in Senders : \A n \in 0..MaxNonce : Pending(d, n) ~> OnChain(d, n)

\* What a producer has in its pool, of its own, is tried in some block and
\* leaves the pool.
PoolDrains == \A d \in Producers : \A n \in 0..MaxNonce : Pending(d, n) ~> ~ Pending(d, n)
=============================================================================
