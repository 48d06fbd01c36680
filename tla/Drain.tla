-------------------------------- MODULE Drain --------------------------------
(***************************************************************************)
(* BlockchainState::drainMempool (blockchain.h): which pending transactions*)
(* go into the next block.  The pool is a set: the function sorts the array*)
(* before it looks at it, and no two entries have the same sender and      *)
(* nonce.                                                                  *)
(***************************************************************************)
EXTENDS Integers, FiniteSets, SequencesExt

CONSTANTS
    Senders,            \* whoever signs transactions
    Id,                 \* the sender's id bytes, as memcmp orders them
    MaxTxnPerBlock      \* MAX_TXN_PER_BLOCK

ASSUME DrainAssumption ==
    /\ Id \in [Senders -> Nat]
    /\ \A m, n \in Senders : Id[m] = Id[n] => m = n
    /\ MaxTxnPerBlock \in Nat \ {0}

\* Mutant: the nonces of a sender are not ordered.
BeforeBySender(t, u) == Id[t.sender] < Id[u.sender] \/ (t.sender = u.sender /\ t.nonce > u.nonce)

Before(t, u) == Id[t.sender] < Id[u.sender] \/ (t.sender = u.sender /\ t.nonce < u.nonce)

Sorted(pool) ==
    [i \in 1..Cardinality(pool) |->
        CHOOSE t \in pool : Cardinality({u \in pool : Before(u, t)}) = i - 1]

\* Mutant: a transaction that does not fit is thrown away with the stale ones.
VisitDropsGaps(run, t, nonce) ==
    IF Len(run.out) = MaxTxnPerBlock THEN run
    ELSE IF t.nonce # run.next[t.sender] THEN [run EXCEPT !.removed = @ \cup {t}]
    ELSE [run EXCEPT !.out = Append(@, t), !.removed = @ \cup {t}, !.next[t.sender] = @ + 1]

\* Mutant: a gap in the nonces is jumped over.
VisitOverGaps(run, t, nonce) ==
    IF Len(run.out) = MaxTxnPerBlock THEN run
    ELSE IF t.nonce < nonce[t.sender] THEN [run EXCEPT !.removed = @ \cup {t}]
    ELSE [run EXCEPT !.out = Append(@, t), !.removed = @ \cup {t}]

\* One turn of the loop.  The first transaction of a sender takes one of the
\* MAX_TXN_PER_BLOCK places for senders, whether it is selected or not.
Visit(run, t, nonce) ==
    LET seen == run.seen \cup {t.sender}
    IN  IF Len(run.out) = MaxTxnPerBlock THEN run
        ELSE IF t.nonce < nonce[t.sender] THEN [run EXCEPT !.removed = @ \cup {t}]
        ELSE IF Cardinality(seen) > MaxTxnPerBlock THEN run
        ELSE IF t.nonce # run.next[t.sender] THEN [run EXCEPT !.seen = seen]
        ELSE [out |-> Append(run.out, t), removed |-> run.removed \cup {t}, seen |-> seen,
              next |-> [run.next EXCEPT ![t.sender] = @ + 1]]

\* The loop after i turns.  out: the block's candidates in order; removed: what
\* leaves the pool; seen: selectedSenders; next: nextNonce, for those not seen
\* yet the nonce they will begin with.
DrainRun(pool, nonce) ==
    LET sorted == Sorted(pool)
        run[i \in 0..Cardinality(pool)] ==
            IF i = 0 THEN [out |-> <<>>, removed |-> {}, seen |-> {}, next |-> nonce]
            ELSE Visit(run[i - 1], sorted[i], nonce)
    IN  run

DrainMempool(pool, nonce) == DrainRun(pool, nonce)[Cardinality(pool)]
=============================================================================
