---------------------------- MODULE MempoolProofs ----------------------------
(***************************************************************************)
(* Proofs about the mempool: what drainMempool selects (MCDrain, for any   *)
(* senders and pools), and what Mempool keeps, for any number of devices.  *)
(***************************************************************************)
EXTENDS Mempool, MCDrain, Lemmas, SequenceTheorems

(* Sorting *)

\* What drainMempool is called with.
DrainInput(P, nonces) ==
    /\ IsFiniteSet(P)
    /\ \A t \in P : t.sender \in Senders /\ t.nonce \in Nat
    /\ \A t, u \in P : t.sender = u.sender /\ t.nonce = u.nonce => t = u
    /\ nonces \in [Senders -> Nat]

BeforeIn(P) == {e \in P \X P : Before(e[1], e[2])}

\* The pool in order, each transaction once.
LEMMA SortedIs ==
    ASSUME NEW P, NEW nonces, DrainInput(P, nonces)
    PROVE  /\ Cardinality(P) \in Nat
           /\ \A i \in 1..Cardinality(P) : Sorted(P)[i] \in P
           /\ \A t \in P : \E i \in 1..Cardinality(P) : Sorted(P)[i] = t
           /\ \A i, j \in 1..Cardinality(P) :
                 i < j <=> Before(Sorted(P)[i], Sorted(P)[j])
<1> DEFINE R == BeforeIn(P)
           n == Cardinality(P)
           rank(t) == Cardinality(Below(P, R, t))
           s == Sorted(P)
<1>1. IsFiniteSet(P) /\ n \in Nat
  BY FS_CardinalityType DEF DrainInput
<1>2. \A t, u \in P : <<t, u>> \in R <=> Before(t, u)
  BY DEF BeforeIn
<1>3. StrictOrder(P, R)
  <2>1. \A t \in P : Id[t.sender] \in Nat /\ t.nonce \in Nat /\ t.sender \in Senders
    BY DrainAssumption DEF DrainInput
  <2>2. \A t \in P : ~ Before(t, t)
    BY <2>1 DEF Before
  <2>3. \A t, u, v \in P : Before(t, u) /\ Before(u, v) => Before(t, v)
    BY <2>1 DEF Before
  <2>4. \A t, u \in P : t = u \/ Before(t, u) \/ Before(u, t)
    BY <2>1, DrainAssumption DEF Before, DrainInput
  <2> QED
    BY <1>2, <2>2, <2>3, <2>4 DEF StrictOrder
<1>4. \A t \in P : {u \in P : Before(u, t)} = Below(P, R, t)
  BY <1>2 DEF Below
<1>5. /\ \A t \in P : rank(t) \in 0..n - 1
      /\ \A t, u \in P : rank(t) = rank(u) => t = u
      /\ \A t, u \in P : <<t, u>> \in R <=> rank(t) < rank(u)
      /\ \A k \in 0..n - 1 : \E t \in P : rank(t) = k
  BY <1>1, <1>3, Ranks
<1>6. ASSUME NEW i \in 1..n
      PROVE  s[i] \in P /\ rank(s[i]) = i - 1
  <2>1. s[i] = CHOOSE t \in P : Cardinality({u \in P : Before(u, t)}) = i - 1
    BY DEF Sorted
  <2>2. \E t \in P : Cardinality({u \in P : Before(u, t)}) = i - 1
    <3>1. i - 1 \in 0..n - 1
      BY <1>1
    <3> QED
      BY <1>4, <1>5, <3>1
  <2>3. s[i] \in P /\ Cardinality({u \in P : Before(u, s[i])}) = i - 1
    BY <2>1, <2>2
  <2> QED
    BY <1>4, <2>3
<1> HIDE DEF R, s, rank
<1>7. ASSUME NEW t \in P
      PROVE  \E i \in 1..n : s[i] = t
  <2>1. rank(t) + 1 \in 1..n /\ (rank(t) + 1) - 1 = rank(t)
    BY <1>1, <1>5
  <2> QED
    BY <1>5, <1>6, <2>1
<1>8. ASSUME NEW i \in 1..n, NEW j \in 1..n
      PROVE  i < j <=> Before(s[i], s[j])
  <2>1. s[i] \in P /\ s[j] \in P /\ rank(s[i]) = i - 1 /\ rank(s[j]) = j - 1
    BY <1>6
  <2>2. Before(s[i], s[j]) <=> rank(s[i]) < rank(s[j])
    BY <1>2, <1>5, <2>1
  <2>3. Before(s[i], s[j]) <=> i - 1 < j - 1
    BY <2>1, <2>2
  <2> QED
    BY <2>3
<1> QED
  BY <1>1, <1>6, <1>7, <1>8 DEF s
-----------------------------------------------------------------------------
(* Transactions in the order of their nonces *)

\* The first k transactions of out that s sent.
Of(s, out, k) == {i \in 1..k : out[i].sender = s}

\* Each has the nonce that its sender's account has by then.
Numbered(out, nonces) ==
    \A i \in DOMAIN out :
        out[i].nonce = nonces[out[i].sender] + Cardinality(Of(out[i].sender, out, i - 1))

LEMMA OfIs ==
    ASSUME NEW s, NEW out, NEW k \in Nat
    PROVE  IsFiniteSet(Of(s, out, k)) /\ Cardinality(Of(s, out, k)) \in 0..k
<1>1. IsFiniteSet(1..k) /\ Cardinality(1..k) = k
  BY FS_Interval
<1>2. Of(s, out, k) \in SUBSET (1..k)
  BY DEF Of
<1>3. IsFiniteSet(Of(s, out, k)) /\ Cardinality(Of(s, out, k)) <= k
  BY <1>1, <1>2, FS_Subset
<1> QED
  BY <1>3, FS_CardinalityType

LEMMA OfAppend ==
    ASSUME NEW S, NEW out \in Seq(S), NEW t \in S, NEW s
    PROVE  /\ \A k \in 0..Len(out) : Of(s, Append(out, t), k) = Of(s, out, k)
           /\ Cardinality(Of(s, Append(out, t), Len(out) + 1))
                = Cardinality(Of(s, out, Len(out))) + (IF t.sender = s THEN 1 ELSE 0)
<1> DEFINE o == Append(out, t)
           n == Len(out)
<1>1. n \in Nat /\ \A i \in 1..n : o[i] = out[i]
  BY AppendProperties, LenProperties
<1>2. o[n + 1] = t
  BY AppendProperties
<1> HIDE DEF o
<1>3. \A k \in 0..n : Of(s, o, k) = Of(s, out, k)
  BY <1>1 DEF Of
<1>4. /\ n + 1 \notin Of(s, out, n)
      /\ IsFiniteSet(Of(s, out, n)) /\ Cardinality(Of(s, out, n)) \in Nat
  <2>1. n + 1 \notin 1..n
    BY <1>1
  <2>2. IsFiniteSet(Of(s, out, n)) /\ Cardinality(Of(s, out, n)) \in 0..n
    BY <1>1, OfIs
  <2> QED
    BY <1>1, <2>1, <2>2 DEF Of
<1>5. CASE t.sender = s
  <2>1. Of(s, o, n + 1) = Of(s, out, n) \cup {n + 1}
    BY <1>1, <1>2, <1>5 DEF Of
  <2>2. Cardinality(Of(s, out, n) \cup {n + 1}) = Cardinality(Of(s, out, n)) + 1
    BY <1>4, FS_AddElement
  <2> QED
    BY <1>3, <1>5, <2>1, <2>2 DEF o
<1>6. CASE t.sender # s
  <2>1. Of(s, o, n + 1) = Of(s, out, n)
    BY <1>1, <1>2, <1>6 DEF Of
  <2> QED
    BY <1>3, <1>4, <1>6, <2>1 DEF o
<1> QED
  BY <1>5, <1>6

LEMMA NumberedAppend ==
    ASSUME NEW S, NEW out \in Seq(S), NEW t \in S, NEW nonces, Numbered(out, nonces),
           t.nonce = nonces[t.sender] + Cardinality(Of(t.sender, out, Len(out)))
    PROVE  Numbered(Append(out, t), nonces)
<1> DEFINE o == Append(out, t)
           n == Len(out)
<1>1. /\ n \in Nat /\ DOMAIN out = 1..n /\ DOMAIN o = 1..n + 1
      /\ \A i \in 1..n : o[i] = out[i]
      /\ o[n + 1] = t
  BY AppendProperties, LenProperties
<1>2. \A s : \A k \in 0..n : Of(s, o, k) = Of(s, out, k)
  BY OfAppend
<1> HIDE DEF o
<1>3. ASSUME NEW i \in 1..n + 1
      PROVE  o[i].nonce = nonces[o[i].sender] + Cardinality(Of(o[i].sender, o, i - 1))
  <2>1. CASE i \in 1..n
    <3>1. i - 1 \in 0..n
      BY <1>1, <2>1
    <3>2. out[i].nonce = nonces[out[i].sender] + Cardinality(Of(out[i].sender, out, i - 1))
      BY <1>1, <2>1 DEF Numbered
    <3> QED
      BY <1>1, <1>2, <2>1, <3>1, <3>2
  <2>2. CASE i = n + 1
    <3>1. i - 1 = n /\ n \in 0..n
      BY <1>1, <2>2
    <3> QED
      BY <1>1, <1>2, <2>2, <3>1
  <2> QED
    BY <1>1, <2>1, <2>2
<1> QED
  BY <1>1, <1>3 DEF Numbered, o

Runs(P) == [out : Seq(P), removed : SUBSET P, seen : SUBSET Senders, next : [Senders -> Nat]]

\* What holds after each turn of the loop.
RunInv(r, P, nonces) ==
    /\ r \in Runs(P)
    /\ Len(r.out) <= MaxTxnPerBlock
    /\ Numbered(r.out, nonces)
    /\ \A s \in Senders : r.next[s] = nonces[s] + Cardinality(Of(s, r.out, Len(r.out)))
    /\ Range(r.out) \subseteq r.removed
    /\ r.removed \subseteq Range(r.out) \cup {t \in P : t.nonce < nonces[t.sender]}

LEMMA VisitKeeps ==
    ASSUME NEW P, NEW nonces, DrainInput(P, nonces), NEW r, RunInv(r, P, nonces), NEW t \in P
    PROVE  RunInv(Visit(r, t, nonces), P, nonces)
<1> DEFINE seen == r.seen \cup {t.sender}
           v == Visit(r, t, nonces)
<1>1. /\ r.out \in Seq(P) /\ Len(r.out) \in Nat /\ r.removed \subseteq P
      /\ t.sender \in Senders /\ t.nonce \in Nat /\ r.seen \subseteq Senders
      /\ r.next \in [Senders -> Nat] /\ nonces \in [Senders -> Nat]
      /\ MaxTxnPerBlock \in Nat
  BY LenProperties, DrainAssumption DEF RunInv, Runs, DrainInput
<1>2. CASE v = r
  BY <1>2
<1>3. CASE t.nonce < nonces[t.sender] /\ v = [r EXCEPT !.removed = @ \cup {t}]
  <2>0. r \in Runs(P)
    BY DEF RunInv
  <2>1. /\ v.out = r.out /\ v.removed = r.removed \cup {t} /\ v.seen = r.seen /\ v.next = r.next
        /\ v \in Runs(P)
    <3> HIDE DEF v
    <3> QED
      BY <1>1, <1>3, <2>0 DEF Runs
  <2> HIDE DEF v
  <2> QED
    BY <1>3, <2>1 DEF RunInv, v
<1>4. CASE v = [r EXCEPT !.seen = seen]
  <2>0. r \in Runs(P)
    BY DEF RunInv
  <2>1. /\ v.out = r.out /\ v.removed = r.removed /\ v.next = r.next
        /\ v \in Runs(P)
    <3> HIDE DEF v
    <3> QED
      BY <1>1, <1>4, <2>0 DEF Runs
  <2> HIDE DEF v
  <2> QED
    BY <2>1 DEF RunInv, v
<1>5. CASE /\ Len(r.out) # MaxTxnPerBlock /\ t.nonce = r.next[t.sender]
           /\ v = [out |-> Append(r.out, t), removed |-> r.removed \cup {t}, seen |-> seen,
                   next |-> [r.next EXCEPT ![t.sender] = @ + 1]]
  <2> DEFINE o == Append(r.out, t)
             x == [r.next EXCEPT ![t.sender] = @ + 1]
  <2>1. /\ v.out = o /\ v.removed = r.removed \cup {t} /\ v.next = x /\ v.seen = seen
        /\ v = [out |-> v.out, removed |-> v.removed, seen |-> v.seen, next |-> v.next]
    BY <1>5
  <2>2. o \in Seq(P) /\ Len(o) = Len(r.out) + 1 /\ Range(o) = Range(r.out) \cup {t}
    <3>1. /\ o \in Seq(P) /\ Len(o) = Len(r.out) + 1 /\ o[Len(r.out) + 1] = t
          /\ \A i \in 1..Len(r.out) : o[i] = r.out[i]
      BY <1>1, AppendProperties
    <3>2. DOMAIN o = 1..Len(r.out) + 1 /\ DOMAIN r.out = 1..Len(r.out)
      BY <1>1, <3>1, LenProperties
    <3> HIDE DEF o
    <3>3. /\ Len(r.out) + 1 \in DOMAIN o /\ DOMAIN r.out \subseteq DOMAIN o
          /\ \A i \in DOMAIN o : i \in DOMAIN r.out \/ i = Len(r.out) + 1
      BY <1>1, <3>2
    <3>4. ASSUME NEW u \in Range(o)
          PROVE  u \in Range(r.out) \cup {t}
      <4>1. PICK i \in DOMAIN o : u = o[i]
        BY DEF Range
      <4> QED
        BY <3>1, <3>2, <3>3, <4>1 DEF Range
    <3>5. ASSUME NEW u \in Range(r.out)
          PROVE  u \in Range(o)
      <4>1. PICK i \in DOMAIN r.out : u = r.out[i]
        BY DEF Range
      <4> QED
        BY <3>1, <3>2, <3>3, <4>1 DEF Range
    <3>6. t \in Range(o)
      BY <3>1, <3>3 DEF Range
    <3>7. Range(o) = Range(r.out) \cup {t}
      BY <3>4, <3>5, <3>6
    <3> QED
      BY <3>1, <3>7
  <2>3. x \in [Senders -> Nat]
    BY <1>1
  <2>4. Len(o) <= MaxTxnPerBlock
    BY <1>1, <1>5, <2>2 DEF RunInv
  <2>5. Numbered(o, nonces)
    BY <1>1, <1>5, NumberedAppend DEF RunInv
  <2>6. \A s \in Senders : x[s] = nonces[s] + Cardinality(Of(s, o, Len(o)))
    <3> TAKE s \in Senders
    <3>1. Cardinality(Of(s, o, Len(o)))
            = Cardinality(Of(s, r.out, Len(r.out))) + (IF t.sender = s THEN 1 ELSE 0)
      BY <1>1, <2>2, OfAppend
    <3>2. x[s] = r.next[s] + (IF t.sender = s THEN 1 ELSE 0)
      BY <1>1
    <3>3. r.next[s] = nonces[s] + Cardinality(Of(s, r.out, Len(r.out)))
      BY DEF RunInv
    <3>4. Cardinality(Of(s, r.out, Len(r.out))) \in Nat /\ nonces[s] \in Nat
      BY <1>1, OfIs
    <3> HIDE DEF o, x
    <3> QED
      BY <3>1, <3>2, <3>3, <3>4
  <2> HIDE DEF v, o, x, seen
  <2>7. v \in Runs(P)
    BY <1>1, <2>1, <2>2, <2>3 DEF seen, Runs
  <2>8. /\ Range(v.out) \subseteq v.removed
        /\ v.removed \subseteq Range(v.out) \cup {u \in P : u.nonce < nonces[u.sender]}
    BY <2>1, <2>2 DEF RunInv
  <2> QED
    BY <2>1, <2>4, <2>5, <2>6, <2>7, <2>8 DEF RunInv, v
<1> QED
  BY <1>1, <1>2, <1>3, <1>4, <1>5 DEF Visit

LEMMA DrainRunIs ==
    ASSUME NEW P, NEW nonces, DrainInput(P, nonces)
    PROVE  LET run == DrainRun(P, nonces)
           IN  /\ run[0] = [out |-> <<>>, removed |-> {}, seen |-> {}, next |-> nonces]
               /\ \A i \in 1..Cardinality(P) :
                     run[i] = Visit(run[i - 1], Sorted(P)[i], nonces)
               /\ \A i \in 0..Cardinality(P) : RunInv(run[i], P, nonces)
<1> DEFINE s == Sorted(P)
           n == Cardinality(P)
           first == [out |-> <<>>, removed |-> {}, seen |-> {}, next |-> nonces]
           D == {r \in Runs(P) : RunInv(r, P, nonces)}
           step == [e \in D \X (1..n) |-> Visit(e[1], s[e[2]], nonces)]
           Is(f) == f = [i \in 0..n |-> IF i = 0 THEN first ELSE Visit(f[i - 1], s[i], nonces)]
<1>1. n \in Nat /\ \A i \in 1..n : s[i] \in P
  BY SortedIs
<1>2. first \in D
  <2>1. /\ first.out = <<>> /\ first.removed = {} /\ first.seen = {} /\ first.next = nonces
        /\ <<>> \in Seq(P) /\ Len(<<>>) = 0 /\ nonces \in [Senders -> Nat]
    BY EmptySeq DEF DrainInput
  <2>2. first \in Runs(P)
    BY <2>1 DEF Runs
  <2>3. \A q : Cardinality(Of(q, <<>>, 0)) = 0
    <3>1. \A q : Cardinality(Of(q, <<>>, 0)) \in 0..0
      BY OfIs
    <3> QED
      BY <3>1
  <2>4. DOMAIN <<>> = {} /\ Range(<<>>) = {}
    BY DEF Range
  <2>5. Numbered(<<>>, nonces)
    BY <2>4 DEF Numbered
  <2>6. \A q \in Senders : nonces[q] = nonces[q] + 0
    BY <2>1
  <2> HIDE DEF first
  <2> QED
    BY <2>1, <2>2, <2>3, <2>4, <2>5, <2>6, DrainAssumption DEF RunInv
<1> HIDE DEF first, s
<1>3. ASSUME NEW r \in D, NEW i \in 1..n
      PROVE  Visit(r, s[i], nonces) \in D
  <2>1. RunInv(Visit(r, s[i], nonces), P, nonces)
    BY <1>1, VisitKeeps
  <2> QED
    BY <2>1 DEF RunInv
<1>4. step \in [D \X (1..n) -> D]
  <2> HIDE DEF D
  <2> QED
    BY <1>3
<1>5. PICK g \in [0..n -> D] : Iterates(g, first, step, n)
  <2> HIDE DEF step, D, n
  <2> QED
    BY <1>1, <1>2, <1>4, Recursion
<1>6. \A i \in 1..n : g[i] = Visit(g[i - 1], s[i], nonces)
  <2> TAKE i \in 1..n
  <2>1. g[i - 1] \in D
    BY <1>1, <1>5
  <2> HIDE DEF D
  <2> QED
    BY <1>5, <2>1 DEF Iterates
<1>7. Is(g)
  <2>1. g = [i \in 0..n |-> g[i]] /\ g[0] = first
    BY <1>5 DEF Iterates
  <2>2. \A i \in 0..n : g[i] = IF i = 0 THEN first ELSE Visit(g[i - 1], s[i], nonces)
    <3> TAKE i \in 0..n
    <3>1. i = 0 \/ (i # 0 /\ i \in 1..n)
      BY <1>1
    <3> QED
      BY <1>6, <2>1, <3>1
  <2> QED
    BY <2>1, <2>2
<1> DEFINE r == CHOOSE f : Is(f)
<1>8. Is(r) /\ DrainRun(P, nonces) = r
  BY <1>7 DEF DrainRun, first, s
<1> HIDE DEF r
<1>9. r[0] = first /\ \A i \in 1..n : r[i] = Visit(r[i - 1], s[i], nonces)
  BY <1>1, <1>8
<1>10. \A i \in 0..n : r[i] \in D
  <2> HIDE DEF D
  <2> QED
    BY <1>1, <1>2, <1>3, <1>9, LoopStays
<1>11. \A i \in 0..n : RunInv(r[i], P, nonces)
  BY <1>10
<1> QED
  BY <1>8, <1>9, <1>11 DEF first, s

\* What the rest of the system needs to know of drainMempool.
LEMMA DrainIs ==
    ASSUME NEW P, NEW nonces, DrainInput(P, nonces)
    PROVE  RunInv(DrainMempool(P, nonces), P, nonces)
<1>1. Cardinality(P) \in 0..Cardinality(P)
  BY SortedIs
<1> QED
  BY <1>1, DrainRunIs DEF DrainMempool
-----------------------------------------------------------------------------
(* What drainMempool promises *)

DrainInv == DrainInput(waiting, nonce) /\ waiting \subseteq Submitted

LEMMA DrainInvAlways == DrainSpec => []DrainInv
<1>1. DrainInit => DrainInv
  BY DEF DrainInit, DrainInv, DrainInput, Submitted
<1>2. DrainInv /\ [DrainNext]_<<waiting, nonce>> => DrainInv'
  <2>1. ASSUME DrainInv, DrainNext
        PROVE  DrainInv'
    <3>1. IsFiniteSet(waiting') /\ waiting' \subseteq waiting
      BY <2>1, FS_Subset DEF DrainInv, DrainInput, DrainNext
    <3>2. RunInv(Drained, waiting, nonce)
      BY <2>1, DrainIs DEF DrainInv, Drained
    <3>3. \A s : Cardinality({i \in DOMAIN Drained.out : Drained.out[i].sender = s}) \in Nat
      <4> TAKE s
      <4>1. DOMAIN Drained.out = 1..Len(Drained.out) /\ Len(Drained.out) \in Nat
        BY <3>2, LenProperties DEF RunInv, Runs
      <4>2. Cardinality(Of(s, Drained.out, Len(Drained.out))) \in Nat
        BY <4>1, OfIs
      <4> QED
        BY <4>1, <4>2 DEF Of
    <3>4. nonce' \in [Senders -> Nat]
      <4> DEFINE count(s) == Cardinality({i \in DOMAIN Drained.out : Drained.out[i].sender = s})
      <4>1. nonce' = [s \in Senders |-> nonce[s] + count(s)]
        BY <2>1 DEF DrainNext
      <4>2. \A s : count(s) \in Nat
        BY <3>3
      <4> HIDE DEF count
      <4> QED
        BY <2>1, <4>1, <4>2 DEF DrainInv, DrainInput
    <3> QED
      BY <2>1, <3>1, <3>4 DEF DrainInv, DrainInput, Submitted
  <2>2. ASSUME DrainInv, UNCHANGED <<waiting, nonce>>
        PROVE  DrainInv'
    BY <2>2 DEF DrainInv, DrainInput, Submitted
  <2> QED
    BY <2>1, <2>2
<1> QED
  BY <1>1, <1>2, PTL DEF DrainSpec

\* Whatever is in the pool, the transactions of a block have exactly the nonces
\* that the accounts of their senders will have when their turn comes.
THEOREM DrainedInOrder == DrainSpec => []DrainInOrder
<1>1. DrainInv => DrainInOrder
  <2> SUFFICES ASSUME DrainInv
               PROVE  DrainInOrder
    OBVIOUS
  <2>1. Numbered(Drained.out, nonce)
    BY DrainIs DEF DrainInv, Drained, RunInv
  <2> QED
    BY <2>1 DEF Numbered, Of, DrainInOrder
<1> QED
  BY <1>1, DrainInvAlways, PTL

\* A transaction leaves the pool for the block or because it can never be executed.
THEOREM DrainedOrStale == DrainSpec => []DrainLosesNothing
<1>1. DrainInv => DrainLosesNothing
  BY DrainIs DEF DrainInv, Drained, RunInv, DrainLosesNothing, Stale
<1> QED
  BY <1>1, DrainInvAlways, PTL

\* The transactions looked at in the first i turns, and those of them that are
\* not stale have these senders.
Visited(i) == {Sorted(waiting)[j] : j \in 1..i}
Live(i) == {t.sender : t \in Visited(i) \ Stale}

AllReady == UNION {Ready(s) : s \in Served}

\* What holds after each turn until the block is full.  The senders without a
\* place come after those that have one, and there are enough of those.
Selecting(r, i) ==
    /\ Range(r.out) = AllReady \cap Visited(i)
    /\ \A s \in Live(i) \ r.seen :
        /\ s \notin Served
        /\ Cardinality(r.seen) >= MaxTxnPerBlock
        /\ \A q \in r.seen : Id[q] < Id[s]

\* What holds after every turn.
SelectInv(r, i) ==
    /\ Range(r.out) \subseteq AllReady \cap Visited(i)
    /\ r.seen \subseteq Live(i) \cap Served
    /\ Cardinality(r.seen) <= MaxTxnPerBlock
    /\ \A s \in Senders :
        /\ r.next[s] = nonce[s] \/ \E t \in Range(r.out) : t.sender = s /\ t.nonce + 1 = r.next[s]
        /\ \A k \in nonce[s]..r.next[s] - 1 : [sender |-> s, nonce |-> k] \in Range(r.out)
    /\ \A t \in Range(r.out) : t.nonce < r.next[t.sender]
    /\ Len(r.out) # MaxTxnPerBlock => Selecting(r, i)

\* The turn in which t is looked at, when all before it have been.
LEMMA TurnIs ==
    ASSUME DrainInv, NEW i \in 1..Cardinality(waiting)
    PROVE  LET t == Sorted(waiting)[i]
           IN  /\ t \in waiting /\ t \notin Visited(i - 1)
               /\ Visited(i) = Visited(i - 1) \cup {t}
               /\ Visited(i) \subseteq waiting
               /\ \A u \in waiting : u \in Visited(i - 1) <=> Before(u, t)
<1> DEFINE s == Sorted(waiting)
           n == Cardinality(waiting)
           t == s[i]
<1>1. /\ n \in Nat /\ \A j \in 1..n : s[j] \in waiting
      /\ \A u \in waiting : \E j \in 1..n : s[j] = u
      /\ \A j, k \in 1..n : j < k <=> Before(s[j], s[k])
  BY SortedIs DEF DrainInv
<1> HIDE DEF s
<1>2. /\ i - 1 \in 0..n - 1 /\ 1..i - 1 \subseteq 1..n
      /\ 1..i = (1..i - 1) \cup {i} /\ 1..i \subseteq 1..n
  BY <1>1
<1>3. Visited(i) = Visited(i - 1) \cup {t} /\ Visited(i) \subseteq waiting
  BY <1>1, <1>2 DEF Visited, s
<1>4. ASSUME NEW u \in waiting
      PROVE  u \in Visited(i - 1) <=> Before(u, t)
  <2>1. PICK j \in 1..n : s[j] = u
    BY <1>1
  <2>2. ASSUME Before(u, t)
        PROVE  u \in Visited(i - 1)
    <3>1. j < i
      BY <1>1, <2>1, <2>2
    <3>2. j \in 1..i - 1
      BY <3>1
    <3> QED
      BY <2>1, <3>2 DEF Visited, s
  <2>3. ASSUME u \in Visited(i - 1)
        PROVE  Before(u, t)
    <3>1. PICK k \in 1..i - 1 : s[k] = u
      BY <2>3 DEF Visited, s
    <3>2. k \in 1..n /\ k < i
      BY <1>1, <3>1
    <3> QED
      BY <1>1, <3>1, <3>2
  <2> QED
    BY <2>2, <2>3
<1>5. t \in waiting /\ ~ Before(t, t)
  BY <1>1
<1>6. t \notin Visited(i - 1)
  BY <1>4, <1>5
<1> QED
  BY <1>3, <1>4, <1>5, <1>6 DEF s

\* A sender has a place if and only if there is one left when its turn comes.
LEMMA PlaceIs ==
    ASSUME DrainInv, NEW i \in 1..Cardinality(waiting), NEW r, RunInv(r, waiting, nonce),
           SelectInv(r, i - 1), Selecting(r, i - 1), NEW t, t = Sorted(waiting)[i],
           t \notin Stale
    PROVE  /\ IsFiniteSet(r.seen)
           /\ \A q \in r.seen : q = t.sender \/ Id[q] < Id[t.sender]
           /\ Cardinality(r.seen \cup {t.sender}) <= MaxTxnPerBlock <=> t.sender \in Served
<1> DEFINE s == t.sender
           live == {u.sender : u \in waiting \ Stale}
           W == {q \in live : Id[q] < Id[s]}
           m == MaxTxnPerBlock
<1>1. /\ t \in waiting /\ \A u \in waiting : u \in Visited(i - 1) <=> Before(u, t)
      /\ Visited(i - 1) \subseteq waiting
  BY TurnIs
<1>2. /\ m \in Nat \ {0}
      /\ \A u \in waiting : u.sender \in Senders /\ Id[u.sender] \in Nat
      /\ \A p, q \in Senders : Id[p] = Id[q] => p = q
  BY DrainAssumption DEF DrainInv, DrainInput
<1>3. IsFiniteSet(live)
  <2> DEFINE f == [u \in waiting \ Stale |-> u.sender]
  <2>1. f \in Surjection(waiting \ Stale, live)
    BY DEF Surjection
  <2>2. IsFiniteSet(waiting \ Stale)
    BY FS_Difference DEF DrainInv, DrainInput
  <2> QED
    BY <2>1, <2>2, FS_Surjection
<1>4. s \in live /\ (s \in Served <=> Cardinality(W) < m)
  BY <1>1 DEF Served
<1>5. r.seen \subseteq live /\ Live(i - 1) \subseteq live
  BY <1>1 DEF SelectInv, Live
<1>6. IsFiniteSet(r.seen) /\ IsFiniteSet(W) /\ Cardinality(r.seen) \in Nat /\ Cardinality(W) \in Nat
  BY <1>3, <1>5, FS_Subset, FS_CardinalityType
<1>7. ASSUME NEW q \in Live(i - 1)
      PROVE  q = s \/ Id[q] < Id[s]
  <2>1. PICK u \in Visited(i - 1) : u.sender = q
    BY DEF Live
  <2> QED
    BY <1>1, <1>2, <2>1 DEF Before
<1>8. ASSUME NEW q \in W
      PROVE  q \in Live(i - 1)
  <2>1. PICK u \in waiting \ Stale : u.sender = q
    OBVIOUS
  <2>2. Before(u, t)
    BY <2>1 DEF Before
  <2> QED
    BY <1>1, <2>1, <2>2 DEF Live
<1>9. \A q \in r.seen : q = s \/ Id[q] < Id[s]
  BY <1>7 DEF SelectInv
<1>10. r.seen \ {s} \subseteq W
  BY <1>5, <1>9
<1>11. /\ Cardinality(r.seen \cup {s})
            = IF s \in r.seen THEN Cardinality(r.seen) ELSE Cardinality(r.seen) + 1
       /\ Cardinality(r.seen) <= m
  BY <1>6, FS_AddElement DEF SelectInv
<1> HIDE DEF s, live, W, m
<1>12. ASSUME Cardinality(r.seen \cup {s}) <= m
       PROVE  Cardinality(W) < m
  <2>1. CASE W \subseteq r.seen
    <3>1. s \notin W
      BY <1>1, <1>2 DEF W, s
    <3>2. W \cup {s} \subseteq r.seen \cup {s} /\ IsFiniteSet(r.seen \cup {s})
      BY <1>6, <2>1, FS_AddElement
    <3>3. Cardinality(W \cup {s}) = Cardinality(W) + 1
      BY <1>6, <3>1, FS_AddElement
    <3>4. Cardinality(W \cup {s}) <= Cardinality(r.seen \cup {s})
      BY <3>2, FS_Subset
    <3> QED
      BY <1>2, <1>6, <1>11, <1>12, <3>3, <3>4 DEF m
  <2>2. CASE ~ (W \subseteq r.seen)
    <3>1. PICK q \in W : q \notin r.seen
      BY <2>2
    <3>2. q \in Live(i - 1) /\ Id[q] < Id[s]
      BY <1>8, <3>1 DEF W
    <3>3. Cardinality(r.seen) >= m /\ \A p \in r.seen : Id[p] < Id[q]
      BY <3>1, <3>2 DEF Selecting, m
    <3>4. s \notin r.seen
      <4>1. Id[q] \in Nat /\ Id[s] \in Nat
        BY <1>1, <1>2, <3>1 DEF W, live, s
      <4> QED
        BY <3>2, <3>3, <4>1
    <3> QED
      BY <1>2, <1>6, <1>11, <1>12, <3>3, <3>4 DEF m
  <2> QED
    BY <2>1, <2>2
<1>13. ASSUME ~ (Cardinality(r.seen \cup {s}) <= m)
       PROVE  ~ (Cardinality(W) < m)
  <2>1. s \notin r.seen /\ Cardinality(r.seen) >= m
    BY <1>2, <1>6, <1>11, <1>13 DEF m
  <2>2. r.seen \subseteq W
    BY <1>10, <2>1
  <2>3. Cardinality(r.seen) <= Cardinality(W)
    BY <1>6, <2>2, FS_Subset
  <2> QED
    BY <1>2, <1>6, <2>1, <2>3 DEF m
<1> QED
  BY <1>4, <1>6, <1>9, <1>12, <1>13 DEF s, m

\* A transaction that is looked at while there is a place for its sender can be
\* executed in this block if and only if it has the sender's next nonce.
LEMMA NextIs ==
    ASSUME DrainInv, NEW i \in 1..Cardinality(waiting), NEW r, RunInv(r, waiting, nonce),
           SelectInv(r, i - 1), Selecting(r, i - 1), NEW t, t = Sorted(waiting)[i],
           t.sender \in Served
    PROVE  t \in AllReady <=> t.nonce = r.next[t.sender]
<1> DEFINE s == t.sender
           u(k) == [sender |-> s, nonce |-> k]
<1>1. /\ t \in waiting /\ t \notin Visited(i - 1)
      /\ \A v \in waiting : v \in Visited(i - 1) <=> Before(v, t)
  BY TurnIs
<1>2. /\ s \in Senders /\ t.nonce \in Nat /\ t = u(t.nonce)
      /\ nonce[s] \in Nat /\ r.next[s] \in Nat
  BY <1>1 DEF DrainInv, DrainInput, Submitted, RunInv, Runs
<1>3. r.next[s] >= nonce[s]
  <2>1. Cardinality(Of(s, r.out, Len(r.out))) \in Nat
    BY OfIs, LenProperties DEF RunInv, Runs
  <2> QED
    BY <1>2, <2>1 DEF RunInv
<1>4. t \in AllReady <=> /\ t.nonce >= nonce[s]
                         /\ \A k \in nonce[s]..t.nonce : u(k) \in waiting
  BY <1>1 DEF AllReady, Ready
<1>5. \A k \in nonce[s]..r.next[s] - 1 : u(k) \in Range(r.out)
  BY <1>2 DEF SelectInv
<1>6. Range(r.out) \subseteq waiting /\ Range(r.out) \subseteq Visited(i - 1)
  BY DEF SelectInv, AllReady, Ready
<1>7. ASSUME t \in AllReady
      PROVE  t.nonce = r.next[s]
  <2>1. CASE t.nonce < r.next[s]
    BY <1>1, <1>2, <1>4, <1>5, <1>6, <1>7, <2>1
  <2>2. CASE t.nonce > r.next[s]
    <3> DEFINE w == u(r.next[s])
    <3>1. w \in waiting /\ w.sender = s /\ w.nonce = r.next[s]
      BY <1>2, <1>3, <1>4, <1>7, <2>2
    <3>2. w \in Ready(s)
      <4>1. \A k \in nonce[s]..r.next[s] : k \in nonce[s]..t.nonce
        BY <1>2, <2>2
      <4>2. \A k \in nonce[s]..r.next[s] : u(k) \in waiting
        BY <1>4, <1>7, <4>1
      <4> QED
        BY <1>3, <3>1, <4>2 DEF Ready
    <3>3. w \in Visited(i - 1)
      BY <1>1, <2>2, <3>1 DEF Before
    <3>4. w \in Range(r.out)
      BY <3>2, <3>3 DEF AllReady, Selecting
    <3> QED
      BY <1>2, <3>1, <3>4 DEF SelectInv
  <2> QED
    BY <1>2, <2>1, <2>2
<1>8. ASSUME t.nonce = r.next[s]
      PROVE  t \in AllReady
  <2>1. ASSUME NEW k \in nonce[s]..t.nonce
        PROVE  u(k) \in waiting
    <3>1. k = t.nonce \/ k \in nonce[s]..r.next[s] - 1
      BY <1>2, <1>8
    <3> QED
      BY <1>1, <1>2, <1>5, <1>6, <3>1
  <2> QED
    BY <1>3, <1>4, <1>8, <2>1
<1> QED
  BY <1>7, <1>8

LEMMA SelectKeeps ==
    ASSUME DrainInv, NEW i \in 1..Cardinality(waiting), NEW r, RunInv(r, waiting, nonce),
           SelectInv(r, i - 1)
    PROVE  SelectInv(Visit(r, Sorted(waiting)[i], nonce), i)
<1> DEFINE t == Sorted(waiting)[i]
           s == t.sender
           seen == r.seen \cup {s}
           v == Visit(r, t, nonce)
<1>1. /\ t \in waiting /\ t \notin Visited(i - 1)
      /\ Visited(i) = Visited(i - 1) \cup {t}
  BY TurnIs
<1>2. Live(i - 1) \subseteq Live(i) /\ Live(i) \subseteq Live(i - 1) \cup {s}
  BY <1>1 DEF Live
<1>3. /\ r \in Runs(waiting) /\ s \in Senders /\ t.nonce \in Nat /\ nonce[s] \in Nat
      /\ r.next[s] \in Nat /\ MaxTxnPerBlock \in Nat /\ r.next \in [Senders -> Nat]
      /\ r.out \in Seq(waiting) /\ nonce \in [Senders -> Nat]
  BY <1>1, DrainAssumption DEF DrainInv, DrainInput, RunInv, Runs
<1> HIDE DEF t
<1>4. CASE Len(r.out) = MaxTxnPerBlock
  <2>1. v = r
    BY <1>4 DEF Visit
  <2>2. SelectInv(r, i)
    BY <1>1, <1>2, <1>4 DEF SelectInv
  <2> QED
    BY <2>1, <2>2 DEF t
<1>5. CASE Len(r.out) # MaxTxnPerBlock /\ t \in Stale
  <2>1. v = [r EXCEPT !.removed = @ \cup {t}]
    BY <1>5 DEF Visit, Stale
  <2>2. v.out = r.out /\ v.seen = r.seen /\ v.next = r.next
    BY <1>3, <2>1 DEF Runs
  <2>3. t \notin AllReady
    BY <1>3, <1>5 DEF Stale, AllReady, Ready
  <2>4. Live(i) = Live(i - 1) /\ AllReady \cap Visited(i) = AllReady \cap Visited(i - 1)
    BY <1>1, <1>5, <2>3 DEF Live
  <2> HIDE DEF v
  <2> QED
    BY <2>2, <2>4 DEF SelectInv, Selecting, v, t
<1>6. CASE Len(r.out) # MaxTxnPerBlock /\ t \notin Stale
  <2>1. Selecting(r, i - 1)
    BY <1>6 DEF SelectInv
  <2>2. /\ IsFiniteSet(r.seen)
        /\ \A q \in r.seen : q = s \/ Id[q] < Id[s]
        /\ Cardinality(seen) <= MaxTxnPerBlock <=> s \in Served
    BY <1>6, <2>1, PlaceIs DEF t
  <2>3. /\ Cardinality(r.seen) \in Nat /\ Cardinality(seen) \in Nat
        /\ s \in r.seen => seen = r.seen
        /\ s \notin r.seen => Cardinality(seen) = Cardinality(r.seen) + 1
        /\ Cardinality(r.seen) <= MaxTxnPerBlock
    BY <2>2, FS_AddElement, FS_CardinalityType DEF SelectInv
  <2>4. ~ (t.nonce < nonce[s])
    BY <1>1, <1>6 DEF Stale
  <2>5. CASE Cardinality(seen) > MaxTxnPerBlock
    <3>1. v = r
      BY <1>6, <2>4, <2>5 DEF Visit
    <3>2. s \notin Served /\ s \notin r.seen /\ Cardinality(r.seen) >= MaxTxnPerBlock
      <4>1. ~ (Cardinality(seen) <= MaxTxnPerBlock)
        BY <1>3, <2>3, <2>5
      <4>2. seen # r.seen
        BY <2>3, <4>1
      <4> QED
        BY <1>3, <2>2, <2>3, <4>1, <4>2
    <3>3. AllReady \cap Visited(i) = AllReady \cap Visited(i - 1)
      BY <1>1, <3>2 DEF AllReady, Ready
    <3>4. Selecting(r, i)
      BY <1>2, <2>1, <2>2, <3>2, <3>3 DEF Selecting
    <3>5. SelectInv(r, i)
      BY <1>2, <3>3, <3>4 DEF SelectInv
    <3> QED
      BY <3>1, <3>5 DEF t
  <2>6. CASE Cardinality(seen) <= MaxTxnPerBlock
    <3>1. s \in Served /\ s \in Live(i)
      BY <1>1, <1>6, <2>2, <2>6 DEF Live
    <3>2. t \in AllReady <=> t.nonce = r.next[s]
      BY <2>1, <3>1, NextIs DEF t
    <3>3. \A q \in Live(i) \ seen :
            /\ q \notin Served
            /\ Cardinality(seen) >= MaxTxnPerBlock
            /\ \A p \in seen : Id[p] < Id[q]
      <4> TAKE q \in Live(i) \ seen
      <4>1. q \in Live(i - 1) \ r.seen
        BY <1>2
      <4>2. /\ q \notin Served /\ Cardinality(r.seen) >= MaxTxnPerBlock
            /\ \A p \in r.seen : Id[p] < Id[q]
        BY <2>1, <4>1 DEF Selecting
      <4>3. s \in r.seen
        BY <1>3, <2>3, <2>6, <4>2
      <4> QED
        BY <2>3, <4>2, <4>3
    <3>4. seen \subseteq Live(i) \cap Served
      BY <1>2, <3>1 DEF SelectInv
    <3>5. CASE t.nonce # r.next[s]
      <4>1. v = [r EXCEPT !.seen = seen]
        BY <1>3, <1>6, <2>3, <2>4, <2>6, <3>5 DEF Visit
      <4>2. v.out = r.out /\ v.seen = seen /\ v.next = r.next
        BY <1>3, <4>1 DEF Runs
      <4>3. AllReady \cap Visited(i) = AllReady \cap Visited(i - 1)
        BY <1>1, <3>2, <3>5
      <4> HIDE DEF v, seen
      <4>4. Selecting(v, i)
        BY <2>1, <3>3, <4>2, <4>3 DEF Selecting
      <4> QED
        BY <2>6, <3>4, <4>2, <4>3, <4>4 DEF SelectInv, v, t
    <3>6. CASE t.nonce = r.next[s]
      <4> DEFINE o == Append(r.out, t)
                 x == [r.next EXCEPT ![s] = @ + 1]
      <4>1. v = [out |-> o, removed |-> r.removed \cup {t}, seen |-> seen, next |-> x]
        BY <1>3, <1>6, <2>3, <2>4, <2>6, <3>6 DEF Visit
      <4>2. v.out = o /\ v.seen = seen /\ v.next = x
        BY <4>1
      <4>3. Range(o) = Range(r.out) \cup {t}
        <5>1. /\ o \in Seq(waiting) /\ Len(o) = Len(r.out) + 1 /\ o[Len(r.out) + 1] = t
              /\ \A j \in 1..Len(r.out) : o[j] = r.out[j]
          BY <1>1, <1>3, AppendProperties
        <5>2. DOMAIN o = 1..Len(r.out) + 1 /\ DOMAIN r.out = 1..Len(r.out) /\ Len(r.out) \in Nat
          BY <1>3, <5>1, LenProperties
        <5> HIDE DEF o
        <5> QED
          BY <5>1, <5>2 DEF Range
      <4>4. x[s] = r.next[s] + 1 /\ \A q \in Senders : q # s => x[q] = r.next[q]
        BY <1>3
      <4> HIDE DEF v, seen, o, x
      <4>5. t = [sender |-> s, nonce |-> t.nonce]
        BY <1>1 DEF DrainInv, Submitted
      <4>6. /\ Range(o) \subseteq AllReady \cap Visited(i)
            /\ Range(r.out) = AllReady \cap Visited(i - 1)
              => Range(o) = AllReady \cap Visited(i)
        BY <1>1, <3>2, <3>6, <4>3 DEF SelectInv
      <4>7. ASSUME NEW q \in Senders
            PROVE  /\ x[q] = nonce[q] \/ \E w \in Range(o) : w.sender = q /\ w.nonce + 1 = x[q]
                   /\ \A k \in nonce[q]..x[q] - 1 : [sender |-> q, nonce |-> k] \in Range(o)
        <5>1. CASE q = s
          <6>1. \A k \in nonce[s]..x[s] - 1 : k = t.nonce \/ k \in nonce[s]..r.next[s] - 1
            BY <1>3, <3>6, <4>4
          <6>2. \A k \in nonce[s]..r.next[s] - 1 : [sender |-> s, nonce |-> k] \in Range(r.out)
            BY <1>3 DEF SelectInv
          <6> QED
            BY <1>3, <3>6, <4>3, <4>4, <4>5, <5>1, <6>1, <6>2
        <5>2. CASE q # s
          BY <4>3, <4>4, <5>2 DEF SelectInv
        <5> QED
          BY <5>1, <5>2
      <4>8. ASSUME NEW w \in Range(o)
            PROVE  w.nonce < x[w.sender]
        <5>1. CASE w = t
          BY <1>3, <3>6, <4>4, <5>1
        <5>2. CASE w \in Range(r.out)
          <6>1. w.nonce < r.next[w.sender]
            BY <5>2 DEF SelectInv
          <6>2. w \in waiting
            BY <5>2 DEF SelectInv, AllReady, Ready
          <6>3. w.sender \in Senders /\ w.nonce \in Nat
            BY <6>2 DEF DrainInv, DrainInput
          <6>4. PICK z \in Senders : z = w.sender
            BY <6>3
          <6>5. r.next[z] \in Nat /\ x[z] \in {r.next[z], r.next[z] + 1}
            BY <1>3, <4>4
          <6>6. w.nonce < r.next[z]
            BY <6>1, <6>4
          <6>7. w.nonce < x[z]
            BY <6>3, <6>5, <6>6
          <6> QED
            BY <6>4, <6>7
        <5> QED
          BY <4>3, <5>1, <5>2
      <4>9. Selecting(v, i)
        BY <2>1, <3>3, <4>2, <4>6 DEF Selecting
      <4> QED
        BY <2>6, <3>4, <4>2, <4>6, <4>7, <4>8, <4>9 DEF SelectInv, v, t
    <3> QED
      BY <3>5, <3>6
  <2> QED
    BY <1>3, <2>3, <2>5, <2>6
<1> QED
  BY <1>4, <1>5, <1>6

LEMMA DrainSelects ==
    ASSUME DrainInv
    PROVE  SelectInv(Drained, Cardinality(waiting))
<1> DEFINE run == DrainRun(waiting, nonce)
           n == Cardinality(waiting)
           T == {i \in 0..n : ~ SelectInv(run[i], i)}
<1>1. n \in Nat /\ \A i \in 0..n : RunInv(run[i], waiting, nonce)
  BY SortedIs, DrainRunIs DEF DrainInv
<1>2. /\ run[0] = [out |-> <<>>, removed |-> {}, seen |-> {}, next |-> nonce]
      /\ \A i \in 1..n : run[i] = Visit(run[i - 1], Sorted(waiting)[i], nonce)
  BY <1>1, DrainRunIs DEF DrainInv
<1> HIDE DEF run
<1>3. SelectInv(run[0], 0)
  <2>1. run[0].out = <<>> /\ run[0].seen = {} /\ run[0].next = nonce
    BY <1>2
  <2>2. Range(<<>>) = {} /\ Len(<<>>) = 0 /\ Cardinality({}) = 0
    BY FS_EmptySet DEF Range
  <2>3. Visited(0) = {} /\ Live(0) = {}
    BY DEF Visited, Live
  <2>4. nonce \in [Senders -> Nat] /\ MaxTxnPerBlock \in Nat
    BY DrainAssumption DEF DrainInv, DrainInput
  <2>5. \A s \in Senders : nonce[s]..nonce[s] - 1 = {}
    BY <2>4
  <2> QED
    BY <2>1, <2>2, <2>3, <2>4, <2>5 DEF SelectInv, Selecting
<1>4. T = {}
  <2> SUFFICES ASSUME T # {}
               PROVE  FALSE
    OBVIOUS
  <2>1. PICK i \in T : \A k \in T : i <= k
    <3>1. T \in SUBSET Nat
      BY <1>1
    <3> QED
      BY <3>1, Least
  <2>2. i \in 1..n
    BY <1>3, <2>1
  <2>3. RunInv(run[i - 1], waiting, nonce) /\ SelectInv(run[i - 1], i - 1)
    BY <1>1, <2>1, <2>2
  <2>4. SelectInv(run[i], i)
    BY <1>1, <1>2, <2>2, <2>3, SelectKeeps
  <2> QED
    BY <2>1, <2>4
<1>5. n \in 0..n
  BY <1>1
<1> QED
  BY <1>4, <1>5 DEF run, Drained, DrainMempool

\* The senders with a place get everything they have ready into the block, in
\* so far as it has room, and nothing else gets in.
THEOREM DrainedMaximally == DrainSpec => []DrainMaximal
<1>1. DrainInv => DrainMaximal
  <2> SUFFICES ASSUME DrainInv
               PROVE  DrainMaximal
    OBVIOUS
  <2> DEFINE n == Cardinality(waiting)
  <2>1. SelectInv(Drained, n)
    BY DrainSelects
  <2>2. AllReady \subseteq Visited(n)
    <3>1. \A t \in waiting : \E i \in 1..n : Sorted(waiting)[i] = t
      BY SortedIs DEF DrainInv
    <3> QED
      BY <3>1 DEF AllReady, Ready, Visited
  <2>3. Range(Drained.out) \subseteq AllReady
    BY <2>1 DEF SelectInv
  <2>4. Len(Drained.out) # MaxTxnPerBlock => Range(Drained.out) = AllReady
    BY <2>1, <2>2 DEF SelectInv, Selecting
  <2>5. Drained.out = <<>> => Len(Drained.out) # MaxTxnPerBlock /\ Range(Drained.out) = {}
    BY DrainAssumption DEF Range
  <2>6. Len(Drained.out) < MaxTxnPerBlock => Len(Drained.out) # MaxTxnPerBlock
    BY DrainAssumption
  <2> HIDE DEF n
  <2> QED
    BY <2>3, <2>4, <2>5, <2>6 DEF DrainMaximal, AllReady
<1> QED
  BY <1>1, DrainInvAlways, PTL
-----------------------------------------------------------------------------
(* The transactions on the chain *)

Chains == Seq(Seq(Txs))

LEMMA PlacesIs ==
    ASSUME chain \in Chains, NEW k \in 0..Len(chain)
    PROVE  /\ IsFiniteSet(Places(k))
           /\ \A p : p \in Places(k) <=> /\ p = <<p[1], p[2]>>
                                         /\ p[1] \in 1..k
                                         /\ p[2] \in 1..Len(chain[p[1]])
           /\ \A p \in Places(k) : At(p) \in Txs /\ p[1] \in Nat /\ p[2] \in Nat
<1> DEFINE row(i) == {i} \X DOMAIN chain[i]
           rows == {row(i) : i \in 1..k}
<1>1. /\ Len(chain) \in Nat /\ k \in Nat
      /\ \A i \in 1..k : chain[i] \in Seq(Txs)
  BY LenProperties DEF Chains
<1>2. \A i \in 1..k : Len(chain[i]) \in Nat /\ DOMAIN chain[i] = 1..Len(chain[i])
  BY <1>1, LenProperties
<1>3. \A i \in 1..k : IsFiniteSet(row(i))
  <2> TAKE i \in 1..k
  <2>1. IsFiniteSet({i})
    BY FS_Singleton
  <2>2. IsFiniteSet(1..Len(chain[i]))
    BY <1>2, FS_Interval
  <2> QED
    BY <1>2, <2>1, <2>2, FS_Product
<1>4. IsFiniteSet(rows)
  <2> DEFINE f == [i \in 1..k |-> row(i)]
  <2>1. f \in Surjection(1..k, rows)
    BY DEF Surjection
  <2>2. IsFiniteSet(1..k)
    BY <1>1, FS_Interval
  <2> HIDE DEF f, rows
  <2> QED
    BY <2>1, <2>2, FS_Surjection
<1>5. IsFiniteSet(UNION rows)
  <2>1. \A r \in rows : IsFiniteSet(r)
    BY <1>3
  <2> HIDE DEF rows
  <2> QED
    BY <1>4, <2>1, FS_UNION
<1>6. ASSUME NEW p
      PROVE  p \in Places(k) <=> /\ p = <<p[1], p[2]>>
                                 /\ p[1] \in 1..k
                                 /\ p[2] \in 1..Len(chain[p[1]])
  <2>1. p \in Places(k) <=> \E i \in 1..k : p \in {i} \X (1..Len(chain[i]))
    BY <1>2 DEF Places
  <2> QED
    BY <2>1
<1>7. ASSUME NEW p \in Places(k)
      PROVE  At(p) \in Txs /\ p[1] \in Nat /\ p[2] \in Nat
  <2>1. p[1] \in 1..k /\ p[2] \in 1..Len(chain[p[1]])
    BY <1>6
  <2>2. chain[p[1]][p[2]] \in Txs
    BY <1>1, <2>1, ElementOfSeq
  <2> QED
    BY <1>1, <1>2, <2>1, <2>2 DEF At
<1> QED
  BY <1>5, <1>6, <1>7 DEF Places

\* The accounts' nonces are numbers, and no replica is ahead of the chain.
LEMMA NoncesAre ==
    ASSUME chain \in Chains, NEW k \in 0..Len(chain), NEW s
    PROVE  /\ IsFiniteSet(By(s, Places(k))) /\ Cardinality(By(s, Places(k))) \in Nat
           /\ Cardinality(By(s, Places(k))) <= Cardinality(By(s, Places(Len(chain))))
<1>1. Len(chain) \in 0..Len(chain) /\ k \in Nat /\ Len(chain) \in Nat
  BY LenProperties DEF Chains
<1>2. IsFiniteSet(Places(Len(chain))) /\ IsFiniteSet(Places(k))
  BY <1>1, PlacesIs
<1>3. By(s, Places(k)) \subseteq By(s, Places(Len(chain)))
  <2>1. 1..k \subseteq 1..Len(chain)
    BY <1>1
  <2> QED
    BY <2>1 DEF By, Places
<1>4. IsFiniteSet(By(s, Places(Len(chain)))) /\ IsFiniteSet(By(s, Places(k)))
  BY <1>2, FS_Subset DEF By
<1> QED
  BY <1>3, <1>4, FS_Subset, FS_CardinalityType

\* What holds of each pool.
PoolOK(P) ==
    /\ P \subseteq Txs
    /\ IsFiniteSet(P)
    /\ Cardinality(P) <= MaxPending
    /\ \A t, u \in P : SameTx(t, u) => t = u

\* The inductive invariant.
PoolInv ==
    /\ TypeOK
    /\ \A d \in Senders : PoolOK(pool[d])
    /\ ChainNonces

LEMMA PoolInvIs ==
    ASSUME PoolInv, NEW d \in Senders
    PROVE  /\ chain \in Chains /\ Len(chain) \in Nat /\ applied[d] \in 0..Len(chain)
           /\ Nonces(d) \in [Senders -> Nat]
           /\ DrainInput(pool[d], Nonces(d))
           /\ RunInv(DrainMempool(pool[d], Nonces(d)), pool[d], Nonces(d))
<1>1. chain \in Chains /\ Len(chain) \in Nat /\ applied[d] \in 0..Len(chain)
  BY LenProperties DEF PoolInv, TypeOK, Chains
<1>2. \A s \in Senders : NonceOf(d, s) \in Nat
  BY <1>1, NoncesAre DEF NonceOf
<1>3. Nonces(d) \in [Senders -> Nat]
  BY <1>2 DEF Nonces
<1>4. MaxNonce \in Nat /\ \A t \in Txs : t.sender \in Senders /\ t.nonce \in Nat
  BY MempoolAssumption DEF Txs
<1>5. DrainInput(pool[d], Nonces(d))
  BY <1>3, <1>4 DEF PoolInv, PoolOK, DrainInput, SameTx
<1> QED
  BY <1>1, <1>3, <1>5, DrainIs

\* createBlock's loop, too, adds only what has its sender's next nonce.
LEMMA ExecuteIs ==
    ASSUME PoolInv, NEW d \in Senders, NEW out \in Seq(Txs), NEW bad
    PROVE  Execute(d, out, bad) \in Seq(Txs) /\ Numbered(Execute(d, out, bad), Nonces(d))
<1> DEFINE n == Len(out)
           D == {b \in Seq(Txs) : Numbered(b, Nonces(d))}
           step == [e \in D \X (1..n) |-> Tried(d, e[1], out[e[2]], bad)]
           Is(f) == f = [i \in 0..n |-> IF i = 0 THEN <<>> ELSE Tried(d, f[i - 1], out[i], bad)]
<1>1. n \in Nat /\ \A i \in 1..n : out[i] \in Txs
  BY LenProperties, ElementOfSeq
<1>2. <<>> \in D
  BY EmptySeq DEF Numbered
<1>3. ASSUME NEW b \in D, NEW t \in Txs
      PROVE  Tried(d, b, t, bad) \in D
  <2> DEFINE done == {i \in DOMAIN b : b[i].sender = t.sender}
  <2>1. done = Of(t.sender, b, Len(b))
    BY LenProperties DEF Of
  <2>2. t.sender \in Senders
    BY DEF Txs
  <2>3. CASE t \notin bad /\ t.nonce = NonceOf(d, t.sender) + Cardinality(done)
    <3>1. t.nonce = Nonces(d)[t.sender] + Cardinality(Of(t.sender, b, Len(b)))
      BY <2>1, <2>2, <2>3 DEF Nonces
    <3>2. Append(b, t) \in Seq(Txs) /\ Numbered(Append(b, t), Nonces(d))
      BY <3>1, NumberedAppend, AppendProperties
    <3> QED
      BY <2>3, <3>2 DEF Tried
  <2> QED
    BY <2>3 DEF Tried
<1>4. step \in [D \X (1..n) -> D]
  <2> HIDE DEF D
  <2> QED
    BY <1>1, <1>3
<1>5. PICK g \in [0..n -> D] : Iterates(g, <<>>, step, n)
  <2> HIDE DEF step, D, n
  <2> QED
    BY <1>1, <1>2, <1>4, Recursion
<1>6. Is(g)
  <2>1. g = [i \in 0..n |-> g[i]] /\ g[0] = <<>>
    BY <1>5 DEF Iterates
  <2>2. ASSUME NEW i \in 1..n
        PROVE  g[i] = Tried(d, g[i - 1], out[i], bad)
    <3> HIDE DEF D
    <3>1. g[i - 1] \in D
      BY <1>1, <1>5
    <3> QED
      BY <1>5, <3>1 DEF Iterates
  <2>3. \A i \in 0..n : g[i] = IF i = 0 THEN <<>> ELSE Tried(d, g[i - 1], out[i], bad)
    <3> TAKE i \in 0..n
    <3>1. i = 0 \/ (i # 0 /\ i \in 1..n)
      BY <1>1
    <3> QED
      BY <2>1, <2>2, <3>1
  <2> QED
    BY <2>1, <2>3
<1> DEFINE r == CHOOSE f : Is(f)
<1>7. Is(r) /\ Executing(d, out, bad) = r
  BY <1>6 DEF Executing
<1> HIDE DEF r
<1>8. r[0] = <<>> /\ \A i \in 1..n : r[i] = Tried(d, r[i - 1], out[i], bad)
  BY <1>1, <1>7
<1>9. \A i \in 0..n : r[i] \in D
  <2> HIDE DEF D
  <2> QED
    BY <1>1, <1>2, <1>3, <1>8, LoopStays
<1>10. r[n] \in D
  <2> HIDE DEF D
  <2> QED
    BY <1>1, <1>9
<1> QED
  BY <1>7, <1>10 DEF Execute

\* What a new block leaves of the places that there were, and adds.
LEMMA ChainGrows ==
    ASSUME chain \in Chains, NEW block \in Seq(Txs), chain' = Append(chain, block)
    PROVE  LET n == Len(chain)
               Old == Places(n)
               New == {n + 1} \X (1..Len(block))
           IN  /\ chain' \in Chains /\ n \in Nat /\ Len(chain') = n + 1
               /\ Places(Len(chain))' = Old \cup New
               /\ \A p \in Old : At(p)' = At(p) /\ p[1] \in 1..n
               /\ \A p \in New : At(p)' = block[p[2]]
<1> DEFINE n == Len(chain)
           Old == Places(n)
           New == {n + 1} \X (1..Len(block))
<1>1. /\ n \in Nat /\ chain' \in Chains /\ Len(chain') = n + 1
      /\ \A i \in 1..n : chain'[i] = chain[i]
      /\ chain'[n + 1] = block
      /\ DOMAIN block = 1..Len(block)
  BY AppendProperties, LenProperties DEF Chains
<1>2. \A p \in Old : p[1] \in 1..n
  <2>1. n \in 0..n
    BY <1>1
  <2> QED
    BY <2>1, PlacesIs
<1>3. Places(Len(chain))' = Old \cup New
  <2> DEFINE row(i) == {i} \X DOMAIN chain'[i]
  <2>1. Places(Len(chain))' = UNION {row(i) : i \in 1..Len(chain')}
    BY DEF Places
  <2>2. 1..n + 1 = (1..n) \cup {n + 1}
    BY <1>1
  <2>3. UNION {row(i) : i \in 1..n + 1} = (UNION {row(i) : i \in 1..n}) \cup row(n + 1)
    <3> HIDE DEF row
    <3> QED
      BY <2>2
  <2>4. UNION {row(i) : i \in 1..n} = Old /\ row(n + 1) = New
    BY <1>1 DEF Places
  <2> QED
    BY <1>1, <2>1, <2>3, <2>4
<1>4. \A p \in Old : At(p)' = At(p)
  BY <1>1, <1>2 DEF At
<1>5. \A p \in New : At(p)' = block[p[2]]
  BY <1>1 DEF At
<1> QED
  BY <1>1, <1>2, <1>3, <1>4, <1>5

\* A block of the producer's own, which has the whole chain, goes on numbering.
LEMMA BlockKeeps ==
    ASSUME PoolInv, NEW d \in Senders, applied[d] = Len(chain), NEW block \in Seq(Txs),
           Numbered(block, Nonces(d)), chain' = Append(chain, block)
    PROVE  ChainNonces'
<1> DEFINE n == Len(chain)
           Old == Places(n)
           New == {n + 1} \X (1..Len(block))
           All == Old \cup New
           To(p) == {q \in All : At(q)'.sender = At(p)'.sender /\ Earlier(q, p)}
<1>1. /\ chain \in Chains /\ n \in Nat /\ Places(Len(chain))' = All
      /\ \A p \in Old : At(p)' = At(p) /\ p[1] \in 1..n
      /\ \A p \in New : At(p)' = block[p[2]]
  BY PoolInvIs, ChainGrows
<1>2. ChainNonces' <=> \A p \in All : At(p)'.nonce = Cardinality(To(p))
  <2>1. ChainNonces' <=>
            \A p \in All : At(p)'.nonce =
                Cardinality({q \in {x \in All : At(x)'.sender = At(p)'.sender} : Earlier(q, p)})
    BY <1>1 DEF ChainNonces, By
  <2>2. \A p : {q \in {x \in All : At(x)'.sender = At(p)'.sender} : Earlier(q, p)} = To(p)
    OBVIOUS
  <2> QED
    BY <2>1, <2>2
<1>3. ASSUME NEW p \in Old
      PROVE  At(p)'.nonce = Cardinality(To(p))
  <2>1. To(p) = {q \in By(At(p).sender, Old) : Earlier(q, p)}
    <3>1. \A q \in New : ~ Earlier(q, p)
      BY <1>1 DEF Earlier
    <3> QED
      BY <1>1, <3>1 DEF By
  <2>2. At(p).nonce = Cardinality({q \in By(At(p).sender, Old) : Earlier(q, p)})
    BY DEF PoolInv, ChainNonces
  <2> QED
    BY <1>1, <2>1, <2>2
<1>4. ASSUME NEW p \in New
      PROVE  At(p)'.nonce = Cardinality(To(p))
  <2> DEFINE j == p[2]
             s == block[j].sender
             mine == Of(s, block, j - 1)
             new == {n + 1} \X mine
  <2>1. p = <<n + 1, j>> /\ j \in 1..Len(block) /\ Len(block) \in Nat /\ At(p)' = block[j]
    BY <1>1, LenProperties
  <2>2. block[j] \in Txs /\ s \in Senders /\ DOMAIN block = 1..Len(block)
    <3>1. block[j] \in Txs
      BY <2>1, ElementOfSeq
    <3> QED
      BY <3>1, LenProperties DEF Txs
  <2>3. To(p) = By(s, Old) \cup new
    <3>1. \A q \in Old : Earlier(q, p)
      BY <1>1, <2>1 DEF Earlier
    <3>2. \A q \in New : Earlier(q, p) <=> q[2] < j
      BY <1>1, <2>1 DEF Earlier
    <3>3. \A q \in New : q \in new <=> q[2] < j /\ block[q[2]].sender = s
      BY <2>1 DEF Of
    <3>4. new \subseteq New
      BY <2>1 DEF Of
    <3>5. {q \in Old : At(q)'.sender = s /\ Earlier(q, p)} = By(s, Old)
      BY <1>1, <3>1 DEF By
    <3>6. {q \in New : At(q)'.sender = s /\ Earlier(q, p)} = new
      BY <1>1, <3>2, <3>3, <3>4
    <3> QED
      BY <2>1, <3>5, <3>6
  <2>4. /\ IsFiniteSet(By(s, Old)) /\ Cardinality(By(s, Old)) \in Nat
        /\ By(s, Old) \cap new = {}
    <3>1. n \in 0..n
      BY <1>1
    <3>2. By(s, Old) \cap new = {}
      BY <1>1 DEF By
    <3> QED
      BY <1>1, <3>1, <3>2, NoncesAre
  <2>5. IsFiniteSet(new) /\ Cardinality(new) = Cardinality(mine) /\ Cardinality(mine) \in Nat
    <3>1. IsFiniteSet(mine) /\ Cardinality(mine) \in Nat
      BY <2>1, OfIs
    <3>2. IsFiniteSet({n + 1}) /\ Cardinality({n + 1}) = 1
      BY FS_Singleton
    <3>3. IsFiniteSet(new) /\ Cardinality(new) = Cardinality({n + 1}) * Cardinality(mine)
      BY <3>1, <3>2, FS_Product
    <3> HIDE DEF mine, new
    <3> QED
      BY <3>1, <3>2, <3>3
  <2>6. Cardinality(By(s, Old) \cup new) = Cardinality(By(s, Old)) + Cardinality(mine)
    <3>1. Cardinality(By(s, Old) \cup new)
            = Cardinality(By(s, Old)) + Cardinality(new) - Cardinality(By(s, Old) \cap new)
      BY <2>4, <2>5, FS_Union
    <3>2. Cardinality(By(s, Old) \cap new) = 0
      BY <2>4, FS_EmptySet
    <3> HIDE DEF mine, new, s
    <3> QED
      BY <2>4, <2>5, <3>1, <3>2
  <2>7. block[j].nonce = Nonces(d)[s] + Cardinality(mine)
    BY <2>1, <2>2 DEF Numbered
  <2>8. Nonces(d)[s] = Cardinality(By(s, Old))
    BY <2>2 DEF Nonces, NonceOf
  <2> QED
    BY <2>1, <2>3, <2>6, <2>7, <2>8
<1> QED
  BY <1>2, <1>3, <1>4
-----------------------------------------------------------------------------
(* The invariant *)

LEMMA Subpool ==
    ASSUME NEW P, PoolOK(P), NEW Q, Q \subseteq P
    PROVE  PoolOK(Q)
<1>1. IsFiniteSet(Q) /\ Cardinality(Q) <= Cardinality(P)
  BY FS_Subset DEF PoolOK
<1>2. Cardinality(P) \in Nat /\ Cardinality(Q) \in Nat /\ MaxPending \in Nat
  BY <1>1, FS_CardinalityType, MempoolAssumption DEF PoolOK
<1> QED
  BY <1>1, <1>2 DEF PoolOK

LEMMA EmptyPool == PoolOK({})
<1>1. IsFiniteSet({}) /\ Cardinality({}) = 0
  BY FS_EmptySet
<1> QED
  BY <1>1, MempoolAssumption DEF PoolOK

LEMMA AddKeeps ==
    ASSUME PoolInv, NEW d \in Senders, NEW t \in Txs, AddToMempool(d, t)
    PROVE  pool' \in [Senders -> SUBSET Txs] /\ \A e \in Senders : PoolOK(pool'[e])
<1>1. pool \in [Senders -> SUBSET Txs] /\ \A e \in Senders : PoolOK(pool[e])
  BY DEF PoolInv, TypeOK
<1>2. /\ pool' \in [Senders -> SUBSET Txs]
      /\ pool'[d] = IF Accepts(d, t) THEN pool[d] \cup {t} ELSE pool[d]
      /\ \A e \in Senders \ {d} : pool'[e] = pool[e]
  BY <1>1 DEF AddToMempool
<1>3. ASSUME Accepts(d, t)
      PROVE  PoolOK(pool[d] \cup {t})
  <2>1. /\ IsFiniteSet(pool[d] \cup {t})
        /\ Cardinality(pool[d] \cup {t}) <= Cardinality(pool[d]) + 1
        /\ Cardinality(pool[d]) \in Nat
        /\ Cardinality(pool[d] \cup {t}) \in Nat
    <3>1. IsFiniteSet(pool[d])
      BY <1>1 DEF PoolOK
    <3>2. IsFiniteSet(pool[d] \cup {t})
      BY <3>1, FS_AddElement
    <3>3. Cardinality(pool[d]) \in Nat /\ Cardinality(pool[d] \cup {t}) \in Nat
      BY <3>1, <3>2, FS_CardinalityType
    <3>4. \/ Cardinality(pool[d] \cup {t}) = Cardinality(pool[d]) + 1
          \/ Cardinality(pool[d] \cup {t}) = Cardinality(pool[d])
      BY <3>1, FS_AddElement
    <3> QED
      BY <3>2, <3>3, <3>4
  <2>2. Cardinality(pool[d] \cup {t}) <= MaxPending
    BY <1>3, <2>1, MempoolAssumption DEF Accepts
  <2>3. \A u, w \in pool[d] \cup {t} : SameTx(u, w) => u = w
    BY <1>1, <1>3 DEF PoolOK, Accepts, SameTx
  <2> QED
    BY <1>1, <2>1, <2>2, <2>3 DEF PoolOK
<1> QED
  BY <1>1, <1>2, <1>3

\* What the steps that shrink a pool have in common.
LEMMA ShrinkKeeps ==
    ASSUME PoolInv, NEW d \in Senders, NEW Q, Q \subseteq pool[d],
           pool' = [pool EXCEPT ![d] = Q]
    PROVE  pool' \in [Senders -> SUBSET Txs] /\ \A e \in Senders : PoolOK(pool'[e])
<1>1. pool \in [Senders -> SUBSET Txs] /\ \A e \in Senders : PoolOK(pool[e])
  BY DEF PoolInv, TypeOK
<1>2. PoolOK(Q) /\ Q \in SUBSET Txs
  BY <1>1, Subpool DEF PoolOK
<1> QED
  BY <1>1, <1>2

LEMMA SameChain ==
    ASSUME PoolInv, UNCHANGED chain
    PROVE  ChainNonces' /\ chain' \in Chains /\ Len(chain') = Len(chain)
<1>1. ChainNonces'
  BY DEF PoolInv, ChainNonces, Places, At, By
<1> QED
  BY <1>1 DEF PoolInv, TypeOK, Chains

\* The pools, the chain and how far the devices are with it are all that the
\* invariant depends on, besides the counters and the messages.
LEMMA PoolInvNext ==
    ASSUME pool' \in [Senders -> SUBSET Txs], \A e \in Senders : PoolOK(pool'[e]),
           ChainNonces', chain' \in Chains, applied' \in [Senders -> 0..Len(chain')],
           txNonce' \in [Senders -> 0..(MaxNonce + 1)], sent' \subseteq Txs
    PROVE  PoolInv'
BY DEF PoolInv, TypeOK, PoolOK, Chains

LEMMA PoolInvAlways == Spec => []PoolInv
<1>1. Init => PoolInv
  <2> SUFFICES ASSUME Init
               PROVE  PoolInv
    OBVIOUS
  <2>1. \A d \in Senders : PoolOK(pool[d])
    BY EmptyPool DEF Init
  <2>2. chain = <<>> /\ chain \in Seq(Seq(Txs)) /\ Len(chain) = 0
    BY EmptySeq DEF Init
  <2>3. ChainNonces
    BY <2>2 DEF ChainNonces, Places
  <2> QED
    BY <2>1, <2>2, <2>3, MempoolAssumption DEF Init, PoolInv, TypeOK, PoolOK
<1>2. PoolInv /\ [Next]_vars => PoolInv'
  <2> SUFFICES ASSUME PoolInv, [Next]_vars
               PROVE  PoolInv'
    OBVIOUS
  <2>0. /\ pool \in [Senders -> SUBSET Txs] /\ \A e \in Senders : PoolOK(pool[e])
        /\ txNonce \in [Senders -> 0..(MaxNonce + 1)] /\ MaxNonce \in Nat
        /\ chain \in Chains /\ Len(chain) \in Nat
        /\ applied \in [Senders -> 0..Len(chain)]
        /\ sent \subseteq Txs
    BY MempoolAssumption, LenProperties DEF PoolInv, TypeOK, Chains
  <2>1. ASSUME NEW d \in Senders, Submit(d)
        PROVE  PoolInv'
    <3> DEFINE t == [sender |-> d, nonce |-> BuildNonce(d), signed |-> TRUE]
    <3>1. BuildNonce(d) \in 0..MaxNonce
      <4>1. NonceOf(d, d) \in Nat
        BY <2>0, NoncesAre DEF NonceOf
      <4> QED
        BY <2>0, <2>1, <4>1 DEF Submit, BuildNonce
    <3>2. t \in Txs /\ Broadcast(t) \in Txs
      BY <3>1 DEF Txs, Broadcast
    <3>3. /\ AddToMempool(d, t)
          /\ txNonce' = [txNonce EXCEPT ![d] = BuildNonce(d) + 1]
          /\ sent' = sent \cup {Broadcast(t)}
          /\ UNCHANGED <<chain, applied>>
      BY <2>1 DEF Submit
    <3>4. txNonce' \in [Senders -> 0..(MaxNonce + 1)]
      BY <2>0, <3>1, <3>3
    <3> HIDE DEF t
    <3>5. sent' \subseteq Txs /\ applied' \in [Senders -> 0..Len(chain')]
      BY <2>0, <3>2, <3>3
    <3> QED
      BY <3>2, <3>3, <3>4, <3>5, AddKeeps, SameChain, PoolInvNext
  <2>2. ASSUME NEW d \in Senders, NEW t \in sent, GossipTx(d, t)
        PROVE  PoolInv'
    <3>1. t \in Txs /\ AddToMempool(d, t) /\ UNCHANGED <<txNonce, chain, applied, sent>>
      BY <2>0, <2>2 DEF GossipTx
    <3> QED
      BY <2>0, <3>1, AddKeeps, SameChain, PoolInvNext
  <2>3. ASSUME NEW d \in Senders, Produce(d)
        PROVE  PoolInv'
    <3> DEFINE drained == DrainMempool(pool[d], Nonces(d))
    <3>1. /\ applied[d] = Len(chain)
          /\ pool' = [pool EXCEPT ![d] = pool[d] \ drained.removed]
          /\ UNCHANGED <<txNonce, sent>>
          /\ \E bad :
                LET block == Execute(d, drained.out, bad)
                IN  IF block = <<>>
                    THEN UNCHANGED <<chain, applied>>
                    ELSE /\ chain' = Append(chain, block)
                         /\ applied' = [applied EXCEPT ![d] = @ + 1]
      BY <2>0, <2>3 DEF Produce
    <3>2. drained.out \in Seq(Txs)
      <4>1. drained.out \in Seq(pool[d]) /\ pool[d] \subseteq Txs
        BY <2>0, PoolInvIs DEF RunInv, Runs
      <4> HIDE DEF drained
      <4> QED
        BY <4>1, SeqMonotonic
    <3> HIDE DEF drained
    <3>3. PICK bad :
                LET block == Execute(d, drained.out, bad)
                IN  IF block = <<>>
                    THEN UNCHANGED <<chain, applied>>
                    ELSE /\ chain' = Append(chain, block)
                         /\ applied' = [applied EXCEPT ![d] = @ + 1]
      BY <3>1
    <3> DEFINE block == Execute(d, drained.out, bad)
    <3>4. block \in Seq(Txs) /\ Numbered(block, Nonces(d))
      BY <3>2, ExecuteIs
    <3> HIDE DEF block
    <3>5. ChainNonces' /\ chain' \in Chains /\ applied' \in [Senders -> 0..Len(chain')]
      <4>1. CASE block = <<>>
        <5>1. UNCHANGED <<chain, applied>>
          BY <3>3, <4>1 DEF block
        <5> QED
          BY <2>0, <5>1, SameChain
      <4>2. CASE block # <<>>
        <5>1. chain' = Append(chain, block) /\ applied' = [applied EXCEPT ![d] = @ + 1]
          BY <3>3, <4>2 DEF block
        <5>2. chain' \in Chains /\ Len(chain') = Len(chain) + 1
          BY <2>0, <3>4, <5>1, ChainGrows
        <5>3. ChainNonces'
          BY <3>1, <3>4, <5>1, BlockKeeps
        <5> QED
          BY <2>0, <3>1, <5>1, <5>2, <5>3
      <4> QED
        BY <4>1, <4>2
    <3>6. pool' \in [Senders -> SUBSET Txs] /\ \A e \in Senders : PoolOK(pool'[e])
      <4>1. pool[d] \ drained.removed \subseteq pool[d]
        OBVIOUS
      <4> QED
        BY <3>1, <4>1, ShrinkKeeps
    <3> QED
      BY <2>0, <3>1, <3>5, <3>6, PoolInvNext
  <2>4. ASSUME NEW d \in Senders, NEW Q, Q \subseteq pool[d], pool' = [pool EXCEPT ![d] = Q],
               UNCHANGED <<chain, sent>>, applied' \in [Senders -> 0..Len(chain)],
               txNonce' \in [Senders -> 0..(MaxNonce + 1)]
        PROVE  PoolInv'
    <3>1. pool' \in [Senders -> SUBSET Txs] /\ \A e \in Senders : PoolOK(pool'[e])
      BY <2>4, ShrinkKeeps
    <3>2. applied' \in [Senders -> 0..Len(chain')] /\ sent' \subseteq Txs
      BY <2>0, <2>4
    <3> QED
      BY <2>4, <3>1, <3>2, SameChain, PoolInvNext
  <2>5. ASSUME NEW d \in Senders, ProduceRefused(d)
        PROVE  PoolInv'
    BY <2>0, <2>4, <2>5 DEF ProduceRefused
  <2>6. ASSUME NEW d \in Senders, GossipBlock(d)
        PROVE  PoolInv'
    <3>1. applied' \in [Senders -> 0..Len(chain)]
      BY <2>0, <2>6 DEF GossipBlock
    <3>2. Without(pool[d], chain[applied[d] + 1]) \subseteq pool[d]
      BY DEF Without
    <3> QED
      BY <2>0, <2>4, <2>6, <3>1, <3>2 DEF GossipBlock
  <2>7. ASSUME NEW d \in Senders, SyncBlock(d)
        PROVE  PoolInv'
    <3>1. applied' \in [Senders -> 0..Len(chain)]
      BY <2>0, <2>7 DEF SyncBlock
    <3> QED
      BY <2>0, <2>7, <3>1, SameChain, PoolInvNext DEF SyncBlock
  <2>8. ASSUME NEW d \in Senders, ResetToGenesis(d)
        PROVE  PoolInv'
    <3>1. applied' \in [Senders -> 0..Len(chain)]
      BY <2>0, <2>8 DEF ResetToGenesis
    <3>2. {} \subseteq pool[d] /\ pool' = [pool EXCEPT ![d] = {}]
      BY <2>8 DEF ResetToGenesis
    <3> QED
      BY <2>0, <2>4, <2>8, <3>1, <3>2 DEF ResetToGenesis
  <2>9. ASSUME NEW d \in Senders, Reboot(d)
        PROVE  PoolInv'
    <3>1. applied' \in [Senders -> 0..Len(chain)] /\ txNonce' \in [Senders -> 0..(MaxNonce + 1)]
      BY <2>0, <2>9 DEF Reboot
    <3>2. {} \subseteq pool[d] /\ pool' = [pool EXCEPT ![d] = {}]
      BY <2>9 DEF Reboot
    <3> QED
      BY <2>0, <2>4, <2>9, <3>1, <3>2 DEF Reboot
  <2>10. CASE UNCHANGED vars
    BY <2>0, <2>10, SameChain, PoolInvNext DEF vars
  <2> QED
    BY <2>1, <2>2, <2>3, <2>5, <2>6, <2>7, <2>8, <2>9, <2>10 DEF Next
<1> QED
  BY <1>1, <1>2, PTL DEF Spec

\* Every pool keeps within its array and has one transaction for each nonce.
THEOREM PoolTypeCorrect == Spec => []TypeOK
<1>1. PoolInv => TypeOK
  BY DEF PoolInv
<1> QED
  BY <1>1, PoolInvAlways, PTL

\* The chain executes the transactions of a sender once and in order, however
\* many devices produce and resend.
THEOREM ExecutedInOrder == Spec => []ChainNonces
<1>1. PoolInv => ChainNonces
  BY DEF PoolInv
<1> QED
  BY <1>1, PoolInvAlways, PTL
-----------------------------------------------------------------------------
(* What leaves a pool *)

\* The nonces that an account has left behind have all been executed.
LEMMA UsedUp ==
    ASSUME PoolInv, NEW d \in Senders, NEW s \in Senders, NEW n \in Nat, n < NonceOf(d, s)
    PROVE  OnChain(s, n)
<1> DEFINE all == Places(Len(chain))
           S == By(s, all)
           R == {e \in S \X S : Earlier(e[1], e[2])}
<1>1. chain \in Chains /\ Len(chain) \in 0..Len(chain) /\ applied[d] \in 0..Len(chain)
  BY PoolInvIs
<1>2. /\ IsFiniteSet(S) /\ Cardinality(S) \in Nat /\ NonceOf(d, s) \in Nat
      /\ NonceOf(d, s) <= Cardinality(S)
  BY <1>1, NoncesAre DEF NonceOf
<1>3. StrictOrder(S, R)
  <2>1. \A p \in S : p = <<p[1], p[2]>> /\ p[1] \in Nat /\ p[2] \in Nat
    BY <1>1, PlacesIs DEF By
  <2>2. \A p, q \in S : <<p, q>> \in R <=> Earlier(p, q)
    OBVIOUS
  <2>3. \A p \in S : ~ Earlier(p, p)
    BY <2>1 DEF Earlier
  <2>4. \A p, q, r \in S : Earlier(p, q) /\ Earlier(q, r) => Earlier(p, r)
    BY <2>1 DEF Earlier
  <2>5. \A p, q \in S : p = q \/ Earlier(p, q) \/ Earlier(q, p)
    BY <2>1 DEF Earlier
  <2> HIDE DEF S, R
  <2> QED
    BY <2>2, <2>3, <2>4, <2>5 DEF StrictOrder
<1>4. \A p \in S : Below(S, R, p) = {q \in S : Earlier(q, p)}
  BY DEF Below
<1>5. \A p \in S : At(p).sender = s /\ At(p).nonce = Cardinality(Below(S, R, p))
  <2>1. \A p \in S : p \in all /\ At(p).sender = s
    BY DEF By
  <2>2. \A p \in all : At(p).nonce = Cardinality({q \in By(At(p).sender, all) : Earlier(q, p)})
    BY DEF PoolInv, ChainNonces
  <2> HIDE DEF R, all
  <2> QED
    BY <1>4, <2>1, <2>2
<1> HIDE DEF R, S
<1>6. n \in 0..Cardinality(S) - 1
  BY <1>2
<1>7. PICK p \in S : Cardinality(Below(S, R, p)) = n
  BY <1>2, <1>3, <1>6, Ranks
<1>8. p \in all
  BY DEF S, By
<1> QED
  BY <1>5, <1>7, <1>8 DEF OnChain

\* What has been executed stays executed.
LEMMA StaysOnChain ==
    ASSUME PoolInv, NEW s, NEW n, OnChain(s, n),
           UNCHANGED chain \/ \E block \in Seq(Txs) : chain' = Append(chain, block)
    PROVE  OnChain(s, n)'
<1>1. CASE UNCHANGED chain
  BY <1>1 DEF OnChain, Places, At
<1>2. CASE \E block \in Seq(Txs) : chain' = Append(chain, block)
  <2>1. PICK block \in Seq(Txs) : chain' = Append(chain, block)
    BY <1>2
  <2>2. PICK p \in Places(Len(chain)) : At(p).sender = s /\ At(p).nonce = n
    BY DEF OnChain
  <2>3. chain \in Chains
    BY DEF PoolInv, TypeOK, Chains
  <2>4. p \in Places(Len(chain))' /\ At(p)' = At(p)
    BY <2>1, <2>2, <2>3, ChainGrows
  <2> QED
    BY <2>2, <2>4 DEF OnChain
<1> QED
  BY <1>1, <1>2

\* What drainMempool throws away was a candidate for the block, or its nonce had
\* been used.
LEMMA DrainedAway ==
    ASSUME PoolInv, NEW d \in Senders, NEW t \in DrainMempool(pool[d], Nonces(d)).removed
    PROVE  t \in Candidates(d) \/ OnChain(t.sender, t.nonce)
<1> DEFINE drained == DrainMempool(pool[d], Nonces(d))
<1>1. RunInv(drained, pool[d], Nonces(d))
  BY PoolInvIs
<1>2. CASE t \in Range(drained.out)
  BY <1>2 DEF Candidates
<1>3. CASE t \in pool[d] /\ t.nonce < Nonces(d)[t.sender]
  <2>1. t \in Txs
    BY <1>3 DEF PoolInv, TypeOK
  <2>2. t.sender \in Senders /\ t.nonce \in Nat
    BY <2>1, MempoolAssumption DEF Txs
  <2>3. t.nonce < NonceOf(d, t.sender)
    BY <1>3, <2>2 DEF Nonces
  <2> QED
    BY <2>2, <2>3, UsedUp
<1> HIDE DEF drained
<1> QED
  BY <1>1, <1>2, <1>3 DEF RunInv, drained

\* Why t may leave the pool of d.
MayLeave(d, t) ==
    \/ OnChain(t.sender, t.nonce)'
    \/ pool'[d] = {} /\ applied'[d] = 0
    \/ d \in Producers /\ applied[d] = Len(chain) /\ t \in Candidates(d)

LEMMA LeavingIs ==
    ASSUME PoolInv, Next, NEW d \in Senders, NEW t \in pool[d], t \notin pool'[d]
    PROVE  MayLeave(d, t)
<1>0. /\ pool \in [Senders -> SUBSET Txs] /\ t \in Txs /\ applied \in [Senders -> 0..Len(chain)]
      /\ chain \in Chains /\ Len(chain) \in Nat
  BY LenProperties DEF PoolInv, TypeOK, Chains
<1> DEFINE drained == DrainMempool(pool[d], Nonces(d))
<1>1. ASSUME NEW e \in Senders, Submit(e) \/ (\E u \in sent : GossipTx(e, u)) \/ SyncBlock(e)
      PROVE  t \in pool'[d]
  BY <1>0, <1>1 DEF Submit, GossipTx, AddToMempool, SyncBlock
<1>2. ASSUME Produce(d) \/ ProduceRefused(d)
      PROVE  MayLeave(d, t)
  <2>1. /\ d \in Producers /\ applied[d] = Len(chain)
        /\ pool'[d] = pool[d] \ drained.removed
    BY <1>0, <1>2 DEF Produce, ProduceRefused
  <2>2. UNCHANGED chain \/ \E block \in Seq(Txs) : chain' = Append(chain, block)
    <3>1. CASE ProduceRefused(d)
      BY <3>1 DEF ProduceRefused
    <3>2. CASE Produce(d)
      <4>1. drained.out \in Seq(Txs)
        <5>1. drained.out \in Seq(pool[d]) /\ pool[d] \subseteq Txs
          BY <1>0, PoolInvIs DEF RunInv, Runs
        <5> HIDE DEF drained
        <5> QED
          BY <5>1, SeqMonotonic
      <4>2. \E bad : \/ UNCHANGED chain
                     \/ chain' = Append(chain, Execute(d, drained.out, bad))
        BY <3>2 DEF Produce
      <4>3. \A bad : Execute(d, drained.out, bad) \in Seq(Txs)
        BY <4>1, ExecuteIs
      <4> HIDE DEF drained
      <4> QED
        BY <4>2, <4>3
    <3> QED
      BY <1>2, <3>1, <3>2
  <2>3. t \in Candidates(d) \/ OnChain(t.sender, t.nonce)
    BY <2>1, DrainedAway
  <2> QED
    BY <2>1, <2>2, <2>3, StaysOnChain DEF MayLeave
<1>3. ASSUME GossipBlock(d)
      PROVE  MayLeave(d, t)
  <2> DEFINE k == applied[d] + 1
  <2>1. /\ k \in 1..Len(chain) /\ UNCHANGED chain
        /\ pool'[d] = Without(pool[d], chain[k])
    BY <1>0, <1>3 DEF GossipBlock
  <2> HIDE DEF k
  <2>2. PICK i \in DOMAIN chain[k] : SameTx(chain[k][i], t)
    BY <2>1 DEF Without
  <2>3. <<k, i>> \in Places(Len(chain))
    BY <2>1 DEF Places
  <2>4. At(<<k, i>>).sender = t.sender /\ At(<<k, i>>).nonce = t.nonce
    BY <2>2 DEF At, SameTx
  <2>5. OnChain(t.sender, t.nonce)
    BY <2>3, <2>4 DEF OnChain
  <2> QED
    BY <2>1, <2>5, StaysOnChain DEF MayLeave
<1>4. ASSUME ResetToGenesis(d) \/ Reboot(d)
      PROVE  MayLeave(d, t)
  BY <1>0, <1>4 DEF ResetToGenesis, Reboot, MayLeave
<1>5. PICK e \in Senders :
        \/ Submit(e) \/ (\E u \in sent : GossipTx(e, u)) \/ SyncBlock(e)
        \/ Produce(e) \/ ProduceRefused(e)
        \/ GossipBlock(e)
        \/ ResetToGenesis(e) \/ Reboot(e)
  BY DEF Next
<1>6. CASE Submit(e) \/ (\E u \in sent : GossipTx(e, u)) \/ SyncBlock(e)
  BY <1>1, <1>6
<1>7. CASE /\ Produce(e) \/ ProduceRefused(e) \/ GossipBlock(e) \/ ResetToGenesis(e) \/ Reboot(e)
           /\ e # d
  <2>1. \E Q : pool' = [pool EXCEPT ![e] = Q]
    BY <1>7 DEF Produce, ProduceRefused, GossipBlock, ResetToGenesis, Reboot
  <2>2. pool'[d] = pool[d]
    BY <1>0, <1>7, <2>1
  <2> QED
    BY <2>2
<1> QED
  BY <1>2, <1>3, <1>4, <1>5, <1>6, <1>7

\* No pool loses a transaction that can still be executed, except one that the
\* device has just tried in a block of its own, or when it starts over.
THEOREM PoolKeepsWhatCounts == Spec => PoolLosesNothing
<1> DEFINE Step == \A d \in Senders : \A t \in pool[d] \ pool'[d] : MayLeave(d, t)
<1>1. PoolInv /\ [Next]_vars => [Step]_vars
  BY LeavingIs
<1>2. [Step]_vars
        <=> [\A d \in Senders : \A t \in pool[d] \ pool'[d] :
               \/ OnChain(t.sender, t.nonce)'
               \/ pool'[d] = {} /\ applied'[d] = 0
               \/ d \in Producers /\ applied[d] = Len(chain) /\ t \in Candidates(d)]_vars
  BY DEF MayLeave
<1> QED
  BY <1>1, <1>2, PoolInvAlways, PTL DEF Spec, PoolLosesNothing
=============================================================================
