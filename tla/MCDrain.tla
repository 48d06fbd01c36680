------------------------------ MODULE MCDrain ------------------------------
(* drainMempool on every small pool, block after block, against what it    *)
(* should return.                                                          *)
EXTENDS Drain

CONSTANTS node1, node2, node3, HighestNonce, PoolSize

VARIABLES waiting, nonce

MCSenders == {node1, node2, node3}
MCId == [s \in Senders |-> CASE s = node1 -> 1 [] s = node2 -> 2 [] s = node3 -> 3]

Submitted == [sender : Senders, nonce : 0..HighestNonce]

DrainInit ==
    /\ waiting \in {P \in SUBSET Submitted : IsFiniteSet(P) /\ Cardinality(P) <= PoolSize}
    /\ nonce \in [Senders -> 0..HighestNonce]

Drained == DrainMempool(waiting, nonce)

\* A block takes what was drained.
DrainNext ==
    /\ waiting' = waiting \ Drained.removed
    /\ nonce' = [s \in Senders |->
                    nonce[s] + Cardinality({i \in DOMAIN Drained.out : Drained.out[i].sender = s})]

DrainSpec == DrainInit /\ [][DrainNext]_<<waiting, nonce>>

\* Every sender's transactions come with consecutive nonces, beginning with
\* the one of its account: executeTx refuses none of them for its nonce.
DrainInOrder ==
    \A i \in DOMAIN Drained.out :
        LET t == Drained.out[i]
        IN  t.nonce = nonce[t.sender]
                      + Cardinality({j \in 1..(i - 1) : Drained.out[j].sender = t.sender})

Stale == {t \in waiting : t.nonce < nonce[t.sender]}

\* What leaves the pool goes into the block or can never be executed.
DrainLosesNothing ==
    /\ Range(Drained.out) \subseteq Drained.removed
    /\ Drained.removed \subseteq Range(Drained.out) \cup Stale

\* The transactions of s that the block could take one after the other.
Ready(s) == {t \in waiting : /\ t.sender = s /\ t.nonce >= nonce[s]
                          /\ \A k \in nonce[s]..t.nonce : [sender |-> s, nonce |-> k] \in waiting}

\* The senders that get a place: the first ones by id with anything to execute.
Served ==
    LET live == {t.sender : t \in waiting \ Stale}
    IN  {s \in live : Cardinality({r \in live : Id[r] < Id[s]}) < MaxTxnPerBlock}

\* A block that is not full contains every transaction that the senders with
\* a place have ready, and nothing else is taken.
DrainMaximal ==
    LET ready == UNION {Ready(s) : s \in Served}
    IN  /\ Range(Drained.out) \subseteq ready
        /\ Len(Drained.out) < MaxTxnPerBlock => Range(Drained.out) = ready
        /\ ready # {} => Drained.out # <<>>
=============================================================================
