----------------------------- MODULE ClockProofs -----------------------------
(***************************************************************************)
(* Proofs of the safety properties of SlotClock: the types, that two       *)
(* devices which know each other never have the same turn, that a new      *)
(* device hears the clock of the network before it makes a block, and,     *)
(* for parameters that relate to each other as those of config.h do, that  *)
(* the blocks of the bootstrap keep coming and that a new device has its   *)
(* stake in time.                                                          *)
(***************************************************************************)
EXTENDS SlotClock, Lemmas, SequenceTheorems

Block == [slot : Nat, by : Devices, txs : SUBSET Txs]

\* The domains that TypeOK leaves out.
Domains ==
    /\ boot \in [Devices -> Nat] /\ start \in [Devices -> Nat]
    /\ genesis \in [Devices -> Nat]
    /\ peers \in [Devices -> SUBSET Devices]
    /\ announced \in [Devices -> Int] /\ lastSlot \in [Devices -> Int]
    /\ chain \in Seq(Block) /\ view \in [Devices -> Nat]
    /\ pool \in [Devices -> SUBSET Txs] /\ pending \in [Devices -> SUBSET Txs]

Typed == Domains /\ TypeOK

\* The time of a slot: it has begun, and nobody counts faster than time goes.
LEMMA Division ==
    ASSUME NEW x \in Nat, NEW n \in Nat \ {0}
    PROVE  x \div n \in 0..x /\ (x \div n) * n <= x
<1>1. x \div n \in Nat
  OBVIOUS
<1>2. x \div n <= x
  OBVIOUS
<1>3. (x \div n) * n <= x
  OBVIOUS
<1> QED
  BY <1>1, <1>2, <1>3

LEMMA SlotIs ==
    ASSUME Typed, NEW d \in Devices, now >= genesis[d]
    PROVE  Slot(d) \in 0..now /\ Slot(d) * BlockInterval <= now - genesis[d]
<1> DEFINE x == now - genesis[d]
<1>1. x \in Nat /\ x <= now /\ now \in Nat /\ BlockInterval \in Nat \ {0}
  BY ClockAssumption DEF Typed, TypeOK, Domains
<1>2. Slot(d) = x \div BlockInterval
  BY DEF Slot
<1> HIDE DEF x
<1>3. x \div BlockInterval \in 0..x /\ (x \div BlockInterval) * BlockInterval <= x
  BY <1>1, Division
<1>4. Slot(d) \in 0..now /\ Slot(d) * BlockInterval <= x
  BY <1>1, <1>2, <1>3
<1> QED
  BY <1>4 DEF x

LEMMA InitTyped ==
    ASSUME Init
    PROVE  Typed
<1>1. PICK setup \in [Devices -> SetupTimes] : start = [d \in Devices |-> boot[d] + setup[d]]
  BY DEF Init
<1>2. boot \in [Devices -> Nat] /\ \A d \in Devices : setup[d] \in Nat \ {0}
  BY <1>1, ClockAssumption DEF Init
<1>3. start \in [Devices -> Nat] /\ \A d \in Devices : boot[d] < start[d]
  BY <1>1, <1>2
<1>4. chain \in Seq(Block) /\ Len(chain) = 0 /\ DOMAIN chain = {}
  BY EmptySeq DEF Init
<1>5. Domains
  BY <1>2, <1>3, <1>4 DEF Domains, Init, Never
<1>6. \A d \in Devices : genesis[d] \in boot[d] + 1..start[d]
  BY <1>2, <1>3 DEF Init
<1>7. TypeOK
  <2>1. now \in 0..MaxTime /\ checked \subseteq Devices /\ lost \in BOOLEAN
    <3>1. MaxTime \in Nat
      BY ClockAssumption
    <3>2. now = 0 /\ checked = {}
      BY DEF Init
    <3>3. now \in 0..MaxTime
      BY <3>1, <3>2
    <3>4. lost \in BOOLEAN
      BY DEF Init
    <3> QED
      BY <3>2, <3>3, <3>4
  <2>2. ASSUME NEW d \in Devices
        PROVE  /\ peers[d] \subseteq Devices \ {d}
               /\ announced[d] \in Never..now /\ lastSlot[d] \in Never..MaxTime
               /\ view[d] \in 1..Len(chain) + 1
               /\ pool[d] \subseteq Txs /\ pending[d] \subseteq {d} \X {"faucet", "stake"}
    BY <1>4, ClockAssumption DEF Init, Never
  <2> QED
    BY <1>3, <1>4, <1>6, <2>1, <2>2 DEF TypeOK
<1> QED
  BY <1>5, <1>7 DEF Typed
-----------------------------------------------------------------------------
(* One step *)

LEMMA AnnounceTyped ==
    ASSUME Typed, NEW p \in Devices, Announce(p)
    PROVE  Typed' /\ \A d \in Devices : genesis'[d] \in {genesis[d], genesis[p]}
<1>1. PICK heard \in SUBSET {d \in Devices \ {p} : Running(d)} :
        /\ peers' = [d \in Devices |-> IF d \in heard THEN peers[d] \cup {p} ELSE peers[d]]
        /\ genesis' = [d \in Devices |-> IF d \in heard /\ Adopts(d, p)
                                         THEN genesis[p] ELSE genesis[d]]
        /\ lost' = (lost \/ heard # {d \in Devices \ {p} : Running(d)})
  BY DEF Announce
<1>2. /\ announced' = [announced EXCEPT ![p] = now]
      /\ UNCHANGED <<now, boot, start, checked, lastSlot, chain, view, pool, pending>>
  BY DEF Announce, clockVars
<1>3. genesis' \in [Devices -> Nat] /\ peers' \in [Devices -> SUBSET Devices]
  BY <1>1 DEF Typed, Domains
<1>4. announced' \in [Devices -> Int] /\ \A d \in Devices : announced'[d] \in Never..now
  <2>1. now \in Never..now /\ now \in Int
    BY DEF Typed, TypeOK, Never
  <2> QED
    BY <1>2, <2>1 DEF Typed, Domains, TypeOK
<1>5. Domains'
  BY <1>2, <1>3, <1>4 DEF Typed, Domains
<1>6. ASSUME NEW d \in Devices
      PROVE  genesis'[d] \in boot[d] + 1..start[d]
  <2>1. CASE d \in heard /\ Adopts(d, p)
    <3>1. genesis'[d] = genesis[p]
      BY <1>1, <2>1
    <3>2. now - genesis[p] < now - boot[d] /\ genesis[p] < genesis[d] /\ genesis[d] <= start[d]
      BY <2>1 DEF Adopts, Typed, TypeOK
    <3>3. genesis[p] \in Nat /\ genesis[d] \in Nat /\ boot[d] \in Nat /\ start[d] \in Nat
          /\ now \in Nat
      BY DEF Typed, Domains, TypeOK
    <3> QED
      BY <3>1, <3>2, <3>3
  <2>2. CASE ~ (d \in heard /\ Adopts(d, p))
    BY <1>1, <2>2 DEF Typed, TypeOK
  <2> QED
    BY <2>1, <2>2
<1>7. \A d \in Devices : peers'[d] \subseteq Devices \ {d}
  BY <1>1 DEF Typed, TypeOK
<1>8. lost' \in BOOLEAN
  BY <1>1 DEF Typed, TypeOK
<1>9. TypeOK'
  BY <1>2, <1>4, <1>6, <1>7, <1>8 DEF Typed, TypeOK
<1> QED
  BY <1>1, <1>5, <1>9 DEF Typed

LEMMA TickTyped ==
    ASSUME Typed, Tick
    PROVE  Typed'
<1>1. /\ now' = now + 1 /\ now < MaxTime /\ checked' = {}
      /\ UNCHANGED <<boot, start, genesis, peers, announced, lastSlot, chain, view, pool,
                     pending, lost>>
  BY DEF Tick, clockVars
<1>2. Domains'
  BY <1>1 DEF Typed, Domains
<1>3. \A d \in Devices : announced'[d] \in Never..now'
  BY <1>1, ClockAssumption DEF Typed, TypeOK, Never
<1>4. now' \in 0..MaxTime
  BY <1>1, ClockAssumption DEF Typed, TypeOK
<1>5. TypeOK'
  BY <1>1, <1>3, <1>4 DEF Typed, TypeOK
<1> QED
  BY <1>2, <1>5 DEF Typed

LEMMA TrySyncTyped ==
    ASSUME Typed, NEW d \in Devices, TrySync(d)
    PROVE  Typed'
<1>1. /\ view[d] <= Len(chain)
      /\ view' = [view EXCEPT ![d] = view[d] + 1]
      /\ UNCHANGED <<now, boot, start, genesis, peers, announced, checked, lastSlot, chain,
                     pool, pending, lost>>
  BY DEF TrySync, clockVars
<1>2. Domains'
  BY <1>1 DEF Typed, Domains
<1>3. \A e \in Devices : view'[e] \in 1..Len(chain) + 1
  <2>1. view \in [Devices -> Nat] /\ Len(chain) \in Nat
    BY LenProperties DEF Typed, Domains
  <2>2. \A e \in Devices : view[e] \in 1..Len(chain) + 1
    BY DEF Typed, TypeOK
  <2> QED
    BY <1>1, <2>1, <2>2
<1>4. TypeOK'
  BY <1>1, <1>3 DEF Typed, TypeOK
<1> QED
  BY <1>2, <1>4 DEF Typed

\* What checkBlockProduction submits and remembers.
LEMMA Bootstrapped ==
    ASSUME Typed, NEW d \in Devices, NEW new,
           new \in {AutoBootstrap(d), {}}
    PROVE  /\ new \subseteq {d} \X {"faucet", "stake"} /\ new \subseteq Txs
           /\ Pending(d, new) \subseteq {d} \X {"faucet", "stake"}
           /\ Submitted(d, new) \in [Devices -> SUBSET Txs]
<1>1. new \subseteq {d} \X {"faucet", "stake"}
  BY DEF AutoBootstrap
<1>2. new \subseteq Txs
  BY <1>1 DEF Txs
<1>3. Pending(d, new) \subseteq {d} \X {"faucet", "stake"}
  BY <1>1 DEF Pending, Typed, TypeOK
<1>4. Submitted(d, new) \in [Devices -> SUBSET Txs]
  BY <1>2 DEF Submitted, Typed, Domains
<1> QED
  BY <1>1, <1>2, <1>3, <1>4

\* Whatever production does with the pools it is given, it appends at most one
\* block, and nobody gets ahead of the chain.
LEMMA Produced ==
    ASSUME Typed, NEW d \in Devices, Running(d), GraceOver(d), view[d] > Len(chain),
           NEW before \in [Devices -> SUBSET Txs], NEW heard \in SUBSET Devices,
           Produce(d, before, heard)
    PROVE  /\ lastSlot' \in [Devices -> Int] /\ \A e \in Devices : lastSlot'[e] \in Never..MaxTime
           /\ chain' \in Seq(Block)
           /\ view' \in [Devices -> Nat] /\ \A e \in Devices : view'[e] \in 1..Len(chain') + 1
           /\ pool' \in [Devices -> SUBSET Txs]
<1> DEFINE b == [slot |-> Slot(d), by |-> d, txs |-> Included(view[d], before[d])]
           cleaned == [before EXCEPT ![d] = {}]
           applied == {d} \cup {e \in heard : Hears(e, b)}
<1>1. Slot(d) \in Nat /\ Slot(d) \in Never..MaxTime
  <2>1. now >= genesis[d]
    BY ClockAssumption DEF GraceOver, Typed, TypeOK, Domains
  <2>2. Slot(d) \in 0..now
    BY <2>1, SlotIs
  <2> QED
    BY <2>2, ClockAssumption DEF Typed, TypeOK, Never
<1>2. Included(view[d], before[d]) \subseteq before[d]
  BY DEF Included
<1>3. b \in Block
  BY <1>1, <1>2 DEF Block
<1>4. cleaned \in [Devices -> SUBSET Txs]
  OBVIOUS
<1>5. /\ Append(chain, b) \in Seq(Block)
      /\ Len(Append(chain, b)) = Len(chain) + 1 /\ Len(chain) \in Nat
  BY <1>3, AppendProperties, LenProperties DEF Typed, Domains
<1>6. /\ lastSlot \in [Devices -> Int] /\ \A e \in Devices : lastSlot[e] \in Never..MaxTime
      /\ view \in [Devices -> Nat] /\ \A e \in Devices : view[e] \in 1..Len(chain) + 1
      /\ chain \in Seq(Block)
  BY DEF Typed, TypeOK, Domains
<1>7. ASSUME lastSlot' \in {lastSlot, [lastSlot EXCEPT ![d] = Slot(d)]},
             UNCHANGED <<chain, view>>, pool' \in {before, cleaned}
      PROVE  /\ lastSlot' \in [Devices -> Int]
             /\ \A e \in Devices : lastSlot'[e] \in Never..MaxTime
             /\ chain' \in Seq(Block)
             /\ view' \in [Devices -> Nat]
             /\ \A e \in Devices : view'[e] \in 1..Len(chain') + 1
             /\ pool' \in [Devices -> SUBSET Txs]
  <2>1. [lastSlot EXCEPT ![d] = Slot(d)] \in [Devices -> Int]
        /\ \A e \in Devices : [lastSlot EXCEPT ![d] = Slot(d)][e] \in Never..MaxTime
    BY <1>1, <1>6
  <2>2. lastSlot' \in [Devices -> Int] /\ \A e \in Devices : lastSlot'[e] \in Never..MaxTime
    BY <1>6, <1>7, <2>1
  <2>3. pool' \in [Devices -> SUBSET Txs]
    BY <1>4, <1>7
  <2> QED
    BY <1>6, <1>7, <2>2, <2>3
<1>8. ASSUME chain' = Append(chain, b),
             view' = [e \in Devices |-> IF e \in applied THEN view[e] + 1 ELSE view[e]],
             lastSlot' = [e \in Devices |-> IF e \in applied THEN b.slot ELSE lastSlot[e]],
             pool' = cleaned
      PROVE  /\ lastSlot' \in [Devices -> Int]
             /\ \A e \in Devices : lastSlot'[e] \in Never..MaxTime
             /\ chain' \in Seq(Block)
             /\ view' \in [Devices -> Nat]
             /\ \A e \in Devices : view'[e] \in 1..Len(chain') + 1
             /\ pool' \in [Devices -> SUBSET Txs]
  <2>1. b.slot = Slot(d)
    OBVIOUS
  <2>2. lastSlot' \in [Devices -> Int] /\ \A e \in Devices : lastSlot'[e] \in Never..MaxTime
    <3> HIDE DEF b, applied
    <3> QED
      BY <1>1, <1>6, <1>8, <2>1
  <2>3. pool' \in [Devices -> SUBSET Txs]
    BY <1>4, <1>8
  <2>4. view' \in [Devices -> Nat] /\ \A e \in Devices : view'[e] \in 1..Len(chain) + 2
    <3> HIDE DEF applied
    <3> QED
      BY <1>5, <1>6, <1>8
  <2> HIDE DEF b
  <2> QED
    BY <1>5, <1>8, <2>2, <2>3, <2>4
<1> QED
  BY <1>7, <1>8 DEF Produce, Rest

LEMMA CheckTyped ==
    ASSUME Typed, NEW d \in Devices, Check(d)
    PROVE  /\ Typed'
           /\ UNCHANGED <<now, boot, start, genesis, peers, announced>>
           /\ lost => lost'
           /\ chain' = chain \/ GraceOver(d)
<1>1. /\ Running(d) /\ checked' = checked \cup {d}
      /\ UNCHANGED <<now, boot, start, genesis, peers, announced>>
  BY DEF Check, clockVars
<1>2. CASE ~ GraceOver(d) \/ view[d] <= Len(chain)
  <2>1. UNCHANGED <<lastSlot, chain, view, pool, pending, lost>>
    BY <1>2 DEF Check
  <2>2. Domains' /\ TypeOK'
    BY <1>1, <2>1 DEF Typed, Domains, TypeOK
  <2> QED
    BY <1>1, <2>1, <2>2 DEF Typed
<1>3. CASE GraceOver(d) /\ ~ (view[d] <= Len(chain))
  <2> DEFINE others == {e \in Devices \ {d} : Running(e)}
             new == IF IsBootstrap(view[d]) THEN AutoBootstrap(d) ELSE {}
  <2>1. PICK heard \in SUBSET others :
          /\ pending' = [pending EXCEPT ![d] = Pending(d, new)]
          /\ Produce(d, Submitted(d, new), heard)
          /\ lost' = (lost \/ (chain' # chain /\ heard # others))
    BY <1>3 DEF Check
  <2>2. new \in {AutoBootstrap(d), {}}
    OBVIOUS
  <2> HIDE DEF new
  <2>3. /\ Pending(d, new) \subseteq {d} \X {"faucet", "stake"}
        /\ Submitted(d, new) \in [Devices -> SUBSET Txs]
    BY <2>2, Bootstrapped
  <2>4. view[d] > Len(chain) /\ heard \in SUBSET Devices
    BY <1>3, LenProperties DEF Typed, Domains
  <2>5. /\ lastSlot' \in [Devices -> Int] /\ \A e \in Devices : lastSlot'[e] \in Never..MaxTime
        /\ chain' \in Seq(Block)
        /\ view' \in [Devices -> Nat] /\ \A e \in Devices : view'[e] \in 1..Len(chain') + 1
        /\ pool' \in [Devices -> SUBSET Txs]
    BY <1>1, <1>3, <2>1, <2>3, <2>4, Produced
  <2>6. /\ pending' \in [Devices -> SUBSET Txs]
        /\ \A e \in Devices : pending'[e] \subseteq {e} \X {"faucet", "stake"}
    BY <2>1, <2>3 DEF Typed, Domains, TypeOK, Txs
  <2>7. lost' \in BOOLEAN /\ (lost => lost')
    BY <2>1 DEF Typed, TypeOK
  <2>8. \A i \in DOMAIN chain' : chain'[i].by \in Devices /\ chain'[i].txs \subseteq Txs
    <3> SUFFICES ASSUME NEW i \in DOMAIN chain'
                 PROVE  chain'[i].by \in Devices /\ chain'[i].txs \subseteq Txs
      OBVIOUS
    <3>1. chain'[i] \in Block
      BY <2>5, ElementOfSeq, LenProperties
    <3> QED
      BY <3>1 DEF Block
  <2>9. Domains'
    BY <1>1, <2>5, <2>6 DEF Typed, Domains
  <2>10. TypeOK'
    <3>1. /\ now' \in 0..MaxTime /\ checked' \subseteq Devices
          /\ \A e \in Devices :
              /\ boot'[e] < start'[e] /\ genesis'[e] \in boot'[e] + 1..start'[e]
              /\ peers'[e] \subseteq Devices \ {e}
              /\ announced'[e] \in Never..now'
      BY <1>1 DEF Typed, TypeOK
    <3> QED
      BY <3>1, <2>5, <2>6, <2>7, <2>8 DEF TypeOK, Domains
  <2> QED
    BY <1>1, <1>3, <2>7, <2>9, <2>10 DEF Typed
<1> QED
  BY <1>2, <1>3

LEMMA NextTyped ==
    ASSUME Typed, [Next]_vars
    PROVE  Typed'
<1>1. CASE UNCHANGED vars
  BY <1>1 DEF vars, clockVars, Typed, TypeOK, Domains
<1> QED
  BY <1>1, AnnounceTyped, TickTyped, TrySyncTyped, CheckTyped DEF Next

LEMMA TypedAlways == Spec => []Typed
<1>1. Typed /\ [Next]_vars => Typed'
  BY NextTyped
<1> QED
  BY <1>1, InitTyped, PTL DEF Spec

\* Every clock runs from a moment after its device was switched on, nobody
\* gets ahead of the chain, and what is pending is the device's own.
THEOREM ClockTypeCorrect == Spec => []TypeOK
<1>1. Typed => TypeOK
  BY DEF Typed
<1> QED
  BY <1>1, TypedAlways, PTL
-----------------------------------------------------------------------------
(* Turns *)

\* A slot is not left before a time has passed in which nobody begins a block:
\* two devices in the windows of their slots are in the same slot when their
\* clocks differ by no more than that.
LEMMA NoLaterSlot ==
    ASSUME Typed, NEW d \in Devices, NEW e \in Devices, now >= genesis[d], now >= genesis[e],
           InWindow(e), genesis[e] - genesis[d] <= BlockInterval - SlotTolerance
    PROVE  Slot(d) <= Slot(e)
<1> DEFINE s == Slot(d)
           r == Slot(e)
<1>1. /\ s \in Nat /\ s * BlockInterval <= now - genesis[d]
      /\ r \in Nat
  BY SlotIs DEF Typed, TypeOK
<1>2. now - (genesis[e] + r * BlockInterval) < SlotTolerance
  BY DEF InWindow
<1>3. /\ now \in Nat /\ genesis[d] \in Nat /\ genesis[e] \in Nat
      /\ BlockInterval \in Nat \ {0} /\ SlotTolerance \in Nat
  BY ClockAssumption DEF Typed, TypeOK, Domains
<1> HIDE DEF s, r
<1>4. SUFFICES ASSUME r < s
               PROVE  FALSE
  BY <1>1 DEF s, r
<1>5. r * BlockInterval + BlockInterval <= s * BlockInterval
  BY <1>1, <1>3, <1>4
<1>6. r * BlockInterval \in Nat /\ s * BlockInterval \in Nat
  BY <1>1, <1>3
<1> QED
  BY <1>1, <1>2, <1>3, <1>5, <1>6

\* Two devices of the same group have different places in it.
LEMMA RanksDiffer ==
    ASSUME Typed, NEW d \in Devices, NEW e \in Devices, d < e,
           peers[d] \cup {d} = peers[e] \cup {e}
    PROVE  /\ Cardinality(peers[d]) = Cardinality(peers[e])
           /\ Rank(d) # Rank(e)
<1>1. /\ d \in Nat /\ e \in Nat
      /\ peers[d] \subseteq Devices \ {d} /\ peers[e] \subseteq Devices \ {e}
      /\ IsFiniteSet(Devices) /\ Devices \subseteq Nat
  BY ClockAssumption DEF Typed, TypeOK
<1>2. IsFiniteSet(peers[d]) /\ IsFiniteSet(peers[e])
  BY <1>1, FS_Subset
<1>3. Cardinality(peers[d]) = Cardinality(peers[e])
  <2>1. /\ Cardinality(peers[d] \cup {d}) = Cardinality(peers[d]) + 1
        /\ Cardinality(peers[e] \cup {e}) = Cardinality(peers[e]) + 1
    BY <1>1, <1>2, FS_AddElement
  <2>2. Cardinality(peers[d]) \in Nat /\ Cardinality(peers[e]) \in Nat
    BY <1>2, FS_CardinalityType
  <2>3. Cardinality(peers[d] \cup {d}) = Cardinality(peers[e] \cup {e})
    OBVIOUS
  <2> QED
    BY <2>1, <2>2, <2>3
<1> DEFINE L == {p \in peers[d] : p < d}
           M == {p \in peers[e] : p < e}
<1>4. d \in M /\ L \subseteq M \ {d}
  <2>1. d # e /\ d \in peers[e]
    <3>1. d # e
      BY <1>1
    <3>2. d \in peers[e] \cup {e}
      OBVIOUS
    <3> QED
      BY <3>1, <3>2
  <2>2. ASSUME NEW p \in L
        PROVE  p \in M /\ p # d
    <3>1. p \in Nat /\ p < d /\ p \in peers[d] \cup {d}
      BY <1>1
    <3>2. p # e /\ p < e /\ p # d
      BY <1>1, <3>1
    <3>3. p \in peers[e] \cup {e}
      BY <3>1
    <3> QED
      BY <3>2, <3>3
  <2> QED
    BY <2>1, <2>2
<1>5. IsFiniteSet(L) /\ IsFiniteSet(M)
  <2>1. L \subseteq peers[d] /\ M \subseteq peers[e]
    OBVIOUS
  <2> QED
    BY <1>2, <2>1, FS_Subset
<1>6. Rank(d) = Cardinality(L) /\ Rank(e) = Cardinality(M)
  BY DEF Rank
<1> HIDE DEF L, M
<1>7. L \subseteq M /\ L # M
  BY <1>4
<1>8. Cardinality(L) # Cardinality(M)
  <2>1. IsFiniteSet(M \ {d}) /\ Cardinality(M \ {d}) = Cardinality(M) - 1
    BY <1>4, <1>5, FS_RemoveElement
  <2>2. Cardinality(L) <= Cardinality(M \ {d})
    BY <1>4, <2>1, FS_Subset
  <2>3. Cardinality(L) \in Nat /\ Cardinality(M) \in Nat
    BY <1>5, FS_CardinalityType
  <2> QED
    BY <2>1, <2>2, <2>3
<1> QED
  BY <1>3, <1>6, <1>8

\* shouldProd is true on at most one of two devices which know each other,
\* whatever the clocks' difference within the idle part of a slot, in the
\* bootstrap (places among the peers) and after it (places in the active set).
THEOREM TurnsExclusive == Spec => []OneProducer
<1>1. ASSUME Typed
      PROVE  OneProducer
  <2> SUFFICES ASSUME NEW d \in Devices, NEW e \in Devices,
                      d < e, Running(d), Running(e),
                      peers[d] \cup {d} = peers[e] \cup {e},
                      view[d] = view[e],
                      genesis[d] - genesis[e] <= BlockInterval - SlotTolerance,
                      genesis[e] - genesis[d] <= BlockInterval - SlotTolerance,
                      ShouldProduce(d), ShouldProduce(e)
               PROVE  FALSE
    BY DEF OneProducer
  <2>1. now >= genesis[d] /\ now >= genesis[e] /\ d \in Nat /\ e \in Nat
    <3>1. /\ genesis[d] <= start[d] /\ start[d] <= now /\ genesis[e] <= start[e]
          /\ start[e] <= now
      BY <1>1 DEF Typed, TypeOK, Domains, Running
    <3>2. /\ genesis[d] \in Nat /\ start[d] \in Nat /\ genesis[e] \in Nat /\ start[e] \in Nat
          /\ now \in Nat
      BY <1>1 DEF Typed, TypeOK, Domains
    <3> QED
      BY <3>1, <3>2, ClockAssumption
  <2>2. Slot(d) = Slot(e)
    <3>1. Slot(d) <= Slot(e) /\ Slot(e) <= Slot(d)
      BY <1>1, <2>1, NoLaterSlot DEF ShouldProduce
    <3>2. Slot(d) \in Int /\ Slot(e) \in Int
      BY <1>1, <2>1, SlotIs DEF Typed, TypeOK
    <3> QED
      BY <3>1, <3>2
  <2>3. CASE IsBootstrap(view[d])
    <3>1. BootstrapTurn(d) /\ BootstrapTurn(e)
      BY <2>3 DEF ShouldProduce
    <3>2. Rank(d) = Rank(e)
      BY <1>1, <2>2, <3>1, RanksDiffer DEF BootstrapTurn
    <3> QED
      BY <1>1, <3>2, RanksDiffer
  <2>4. CASE ~ IsBootstrap(view[d])
    <3>1. ValidatorTurn(d) /\ ValidatorTurn(e)
      BY <2>4 DEF ShouldProduce
    <3>2. d = e
      BY <2>2, <3>1 DEF ValidatorTurn
    <3> QED
      BY <2>1, <3>2
  <2> QED
    BY <2>3, <2>4
<1>2. Typed => OneProducer
  BY <1>1
<1> QED
  BY <1>2, TypedAlways, PTL
-----------------------------------------------------------------------------
(* The common clock *)

\* A device that the grace period lets hear the network in time.
InTime(d) == /\ boot[d] < OldestStart
             /\ start[d] - boot[d] + DiscoveryInterval <= BootGrace

\* p has announced itself, last no longer ago than it may be.
Heard(p) == announced[p] # Never /\ now - announced[p] <= DiscoveryInterval

\* Clocks only move to older ones, and none is older than the oldest; blocks
\* come after the grace period of the oldest; a device that was announced to by
\* the holder of the oldest clock has taken it.
ClockInv ==
    /\ Typed
    /\ \A d \in Devices : genesis[d] >= OldestStart
    /\ chain = <<>> \/ now >= OldestStart + BootGrace
    /\ \A p \in Devices : now > start[p] => Heard(p)
    /\ \A d, p \in Devices :
          ~ lost /\ InTime(d) /\ start[p] = OldestStart /\ announced[p] >= start[d]
          => genesis[d] = OldestStart

\* The oldest start is that of a device.
LEMMA OldestIs ==
    ASSUME Typed, Devices # {}
    PROVE  /\ OldestStart \in Nat
           /\ \E p \in Devices : start[p] = OldestStart
           /\ \A p \in Devices : OldestStart <= start[p]
<1> DEFINE T == {start[d] : d \in Devices}
<1>1. T \in SUBSET Nat /\ T # {}
  BY DEF Typed, Domains
<1>2. \E n \in T : \A m \in T : n <= m
  BY <1>1, Least
<1>3. OldestStart = CHOOSE n \in T : \A m \in T : n <= m
  BY DEF OldestStart, Min
<1>4. OldestStart \in T /\ \A m \in T : OldestStart <= m
  BY <1>2, <1>3
<1> QED
  BY <1>1, <1>4

\* When the grace period of the oldest clock is over, its holder has announced
\* itself to every device that is in time.
LEMMA AnnouncedBefore ==
    ASSUME ClockInv, NEW d \in Devices, NEW p \in Devices, InTime(d),
           start[p] = OldestStart, now >= OldestStart + BootGrace
    PROVE  announced[p] >= start[d]
<1>1. /\ now \in Nat /\ start[p] \in Nat /\ start[d] \in Nat /\ boot[d] \in Nat
      /\ announced[p] \in Int /\ boot[d] < start[d]
  BY DEF ClockInv, Typed, TypeOK, Domains
<1>2. DiscoveryInterval \in Nat \ {0} /\ BootGrace \in Nat
  BY ClockAssumption
<1>3. boot[d] < start[p] /\ start[d] - boot[d] + DiscoveryInterval <= BootGrace
  BY DEF InTime
<1>4. now > start[p]
  BY <1>1, <1>2, <1>3
<1>5. now - announced[p] <= DiscoveryInterval
  BY <1>4 DEF ClockInv, Heard
<1> QED
  BY <1>1, <1>2, <1>3, <1>5

LEMMA ClockInit ==
    ASSUME Init
    PROVE  ClockInv
<1>1. Typed
  BY InitTyped
<1>2. CASE Devices = {}
  BY <1>1, <1>2 DEF ClockInv, Init
<1>3. CASE Devices # {}
  <2>1. \A d \in Devices : genesis[d] >= OldestStart
    BY <1>1, <1>3, OldestIs DEF Init, Typed, Domains
  <2>2. ASSUME NEW d \in Devices
        PROVE  ~ (now > start[d]) /\ ~ (announced[d] >= start[d])
               /\ \A e \in Devices : ~ (announced[e] >= start[d])
    <3>1. start[d] \in Nat /\ now = 0 /\ \A e \in Devices : announced[e] = -1
      BY <1>1 DEF Init, Typed, Domains, Never
    <3> QED
      BY <3>1
  <2>3. chain = <<>>
    BY DEF Init
  <2> QED
    BY <1>1, <2>1, <2>2, <2>3 DEF ClockInv
<1> QED
  BY <1>2, <1>3

\* Where neither the clocks nor the announcements change.
LEMMA ClocksKept ==
    ASSUME ClockInv, Typed',
           UNCHANGED <<boot, start, genesis, announced>>, lost => lost',
           now' = now, chain' = chain \/ now >= OldestStart + BootGrace
    PROVE  ClockInv'
<1>1. OldestStart' = OldestStart
  BY DEF OldestStart
<1>2. \A d \in Devices : InTime(d)' <=> InTime(d)
  BY <1>1 DEF InTime
<1>3. \A p \in Devices : Heard(p)' <=> Heard(p)
  BY DEF Heard
<1> QED
  BY <1>1, <1>2, <1>3 DEF ClockInv

LEMMA ClockTick ==
    ASSUME ClockInv, Tick
    PROVE  ClockInv'
<1>1. /\ now' = now + 1 /\ now \in Nat
      /\ UNCHANGED <<boot, start, genesis, announced, chain, lost>>
      /\ \A p \in Devices : Running(p) => announced[p] # Never
                                          /\ now - announced[p] < DiscoveryInterval
  BY DEF Tick, clockVars, ClockInv, Typed, TypeOK
<1>2. OldestStart' = OldestStart /\ \A d \in Devices : InTime(d)' <=> InTime(d)
  BY <1>1 DEF OldestStart, InTime
<1>3. Typed'
  BY TickTyped DEF ClockInv
<1>4. ASSUME NEW p \in Devices, now' > start[p]
      PROVE  Heard(p)'
  <2>1. start[p] \in Nat /\ announced[p] \in Int /\ DiscoveryInterval \in Nat
    BY ClockAssumption DEF ClockInv, Typed, Domains
  <2>2. Running(p)
    BY <1>1, <1>4, <2>1 DEF Running
  <2> QED
    BY <1>1, <2>1, <2>2 DEF Heard, Never
<1>5. chain' = <<>> \/ now' >= OldestStart + BootGrace
  <2>1. CASE chain = <<>>
    BY <1>1, <2>1
  <2>2. CASE chain # <<>>
    <3>1. Devices # {}
      <4>1. chain \in Seq(Block) /\ Len(chain) # 0
        BY <2>2, EmptySeq DEF ClockInv, Typed, Domains
      <4>2. chain[1] \in Block
        BY <4>1, ElementOfSeq, LenProperties
      <4> QED
        BY <4>2 DEF Block
    <3>2. OldestStart \in Nat /\ BootGrace \in Nat
      BY <3>1, OldestIs, ClockAssumption DEF ClockInv
    <3> QED
      BY <1>1, <2>2, <3>2 DEF ClockInv
  <2> QED
    BY <2>1, <2>2
<1> QED
  BY <1>1, <1>2, <1>3, <1>4, <1>5 DEF ClockInv

\* A device in time takes the oldest clock at its holder's first announcement:
\* it has no block yet, or it has taken that clock before.
LEMMA ClockAnnounce ==
    ASSUME ClockInv, NEW p \in Devices, Announce(p)
    PROVE  ClockInv'
<1>1. /\ UNCHANGED <<now, boot, start, chain, view>> /\ Running(p)
      /\ announced' = [announced EXCEPT ![p] = now]
  BY DEF Announce, clockVars
<1>2. Typed /\ Typed' /\ \A d \in Devices : genesis'[d] \in {genesis[d], genesis[p]}
  BY AnnounceTyped DEF ClockInv
<1>3. OldestStart' = OldestStart /\ \A d \in Devices : InTime(d)' <=> InTime(d)
  BY <1>1 DEF OldestStart, InTime
<1>4. \A d \in Devices : genesis'[d] >= OldestStart
  BY <1>2 DEF ClockInv
<1>5. ASSUME NEW q \in Devices, now > start[q]
      PROVE  Heard(q)'
  <2>1. announced \in [Devices -> Int] /\ now \in Nat /\ DiscoveryInterval \in Nat
    BY <1>2, ClockAssumption DEF Typed, Domains, TypeOK
  <2>2. CASE q = p
    BY <1>1, <2>1, <2>2 DEF Heard, Never
  <2>3. CASE q # p
    BY <1>1, <1>5, <2>1, <2>3 DEF Heard, ClockInv
  <2> QED
    BY <2>2, <2>3
<1>6. ASSUME NEW d \in Devices, NEW q \in Devices, ~ lost', InTime(d),
             start[q] = OldestStart, announced'[q] >= start[d]
      PROVE  genesis'[d] = OldestStart
  <2>1. PICK heard \in SUBSET {e \in Devices \ {p} : Running(e)} :
          /\ genesis' = [e \in Devices |-> IF e \in heard /\ Adopts(e, p)
                                           THEN genesis[p] ELSE genesis[e]]
          /\ lost' = (lost \/ heard # {e \in Devices \ {p} : Running(e)})
    BY DEF Announce
  <2>2. ~ lost /\ heard = {e \in Devices \ {p} : Running(e)}
    BY <1>6, <2>1
  <2>3. /\ OldestStart \in Nat /\ genesis \in [Devices -> Nat] /\ genesis' \in [Devices -> Nat]
        /\ start \in [Devices -> Nat] /\ boot \in [Devices -> Nat]
        /\ announced \in [Devices -> Int] /\ now \in Nat
    <3>1. OldestStart \in Nat
      BY <1>2, OldestIs
    <3>2. /\ genesis \in [Devices -> Nat] /\ start \in [Devices -> Nat]
          /\ boot \in [Devices -> Nat] /\ announced \in [Devices -> Int]
      BY <1>2 DEF Typed, Domains
    <3>3. genesis' \in [Devices -> Nat]
      BY <1>2 DEF Typed, Domains
    <3>4. now \in Nat
      BY <1>2 DEF Typed, TypeOK
    <3> QED
      BY <3>1, <3>2, <3>3, <3>4
  <2>4. genesis[q] = OldestStart
    <3>1. genesis[q] <= start[q] /\ genesis[q] >= OldestStart
      BY <1>2 DEF ClockInv, Typed, TypeOK
    <3> QED
      BY <1>6, <2>3, <3>1
  <2>5. CASE genesis[d] = OldestStart
    <3>1. ~ Adopts(d, p)
      BY <2>3, <2>5 DEF Adopts, ClockInv
    <3> QED
      BY <2>1, <2>5, <3>1
  <2>6. CASE genesis[d] # OldestStart
    <3>1. ~ (announced[q] >= start[d])
      BY <1>6, <2>2, <2>6 DEF ClockInv
    <3>2. q = p /\ now >= start[d]
      BY <1>1, <1>6, <2>3, <3>1
    <3>3. d # p
      BY <2>4, <2>6, <3>2
    <3>4. chain = <<>>
      BY <1>6, <3>1, AnnouncedBefore DEF ClockInv
    <3>5. InMemory(d) <= 1
      <4>1. view[d] = 1
        <5>1. Len(chain) = 0 /\ view[d] \in 1..Len(chain) + 1
          BY <1>2, <3>4 DEF Typed, TypeOK
        <5> QED
          BY <5>1
      <4>2. PruneTrigger \in Nat \ {0, 1}
        BY ClockAssumption
      <4>3. 1 % PruneTrigger = 1
        BY <4>2
      <4> QED
        BY <4>1, <4>3 DEF InMemory
    <3>6. Adopts(d, p)
      <4>1. genesis[p] < genesis[d] /\ boot[d] < genesis[p]
        BY <1>6, <2>3, <2>4, <2>6, <3>2 DEF InTime, ClockInv
      <4> QED
        BY <2>3, <3>5, <4>1 DEF Adopts
    <3>7. d \in heard
      BY <2>2, <3>2, <3>3 DEF Running
    <3> QED
      BY <2>1, <2>4, <3>2, <3>6, <3>7
  <2> QED
    BY <2>5, <2>6
<1> QED
  BY <1>1, <1>2, <1>3, <1>4, <1>5, <1>6 DEF ClockInv

LEMMA ClockNext ==
    ASSUME ClockInv, [Next]_vars
    PROVE  ClockInv'
<1>1. Typed /\ Typed'
  BY NextTyped DEF ClockInv
<1>2. CASE UNCHANGED vars
  BY <1>1, <1>2, ClocksKept DEF vars, clockVars
<1>3. ASSUME NEW d \in Devices, TrySync(d)
      PROVE  ClockInv'
  BY <1>1, <1>3, ClocksKept DEF TrySync, clockVars
<1>4. ASSUME NEW d \in Devices, Check(d)
      PROVE  ClockInv'
  <2>1. /\ UNCHANGED <<now, boot, start, genesis, announced>> /\ (lost => lost')
        /\ chain' = chain \/ GraceOver(d)
    BY <1>1, <1>4, CheckTyped
  <2>2. GraceOver(d) => now >= OldestStart + BootGrace
    <3>1. now \in Nat /\ genesis[d] \in Nat /\ OldestStart \in Nat /\ BootGrace \in Nat
      <4>1. Typed /\ OldestStart \in Nat /\ BootGrace \in Nat
        BY <1>1, OldestIs, ClockAssumption
      <4> QED
        BY <4>1 DEF Typed, TypeOK, Domains
    <3> QED
      BY <3>1 DEF GraceOver, ClockInv
  <2> QED
    BY <1>1, <2>1, <2>2, ClocksKept
<1> QED
  BY <1>2, <1>3, <1>4, ClockTick, ClockAnnounce DEF Next

\* A device switched on before the first clock started hears that clock within
\* its grace period, because its holder announces itself in every interval and
\* nobody makes a block sooner: no device begins to produce by its own clock.
THEOREM ClocksAgree == Spec => []CommonClock
<1>1. ASSUME ClockInv
      PROVE  CommonClock
  <2> SUFFICES ASSUME NEW d \in Devices, GraceOver(d), ~ lost, boot[d] < OldestStart,
                      start[d] - boot[d] + DiscoveryInterval <= BootGrace
               PROVE  genesis[d] = OldestStart
    BY DEF CommonClock
  <2>1. PICK p \in Devices : start[p] = OldestStart
    BY <1>1, OldestIs DEF ClockInv
  <2>2. now >= OldestStart + BootGrace
    <3>1. now \in Nat /\ genesis[d] \in Nat /\ OldestStart \in Nat /\ BootGrace \in Nat
      <4>1. Typed /\ OldestStart \in Nat /\ BootGrace \in Nat
        BY <1>1, OldestIs, ClockAssumption DEF ClockInv
      <4> QED
        BY <4>1 DEF Typed, TypeOK, Domains
    <3> QED
      BY <1>1, <3>1 DEF GraceOver, ClockInv
  <2>3. InTime(d)
    BY DEF InTime
  <2>4. announced[p] >= start[d]
    BY <1>1, <2>1, <2>2, <2>3, AnnouncedBefore
  <2> QED
    BY <1>1, <2>1, <2>3, <2>4 DEF ClockInv
<1>2. ClockInv /\ [Next]_vars => ClockInv'
  BY ClockNext
<1>3. ClockInv => CommonClock
  BY <1>1
<1> QED
  BY <1>2, <1>3, ClockInit, PTL DEF Spec
-----------------------------------------------------------------------------
(* Slots and times *)

\* Multiplication and division, for times and slots.
LEMMA Ahead ==
    ASSUME NEW a \in Nat, NEW b \in Nat, NEW n \in Nat, a < b
    PROVE  a * n + n <= b * n
<1>1. PICK k \in Nat : b = a + k + 1
  <2>1. b - a - 1 \in Nat /\ b = a + (b - a - 1) + 1
    OBVIOUS
  <2> QED
    BY <2>1
<1>2. (a + k + 1) * n = a * n + k * n + n /\ k * n \in Nat /\ a * n \in Nat
  OBVIOUS
<1> QED
  BY <1>1, <1>2

LEMMA Quotient ==
    ASSUME NEW x \in Nat, NEW n \in Nat \ {0}
    PROVE  x \div n \in Nat /\ (x \div n) * n <= x /\ x < (x \div n) * n + n
OBVIOUS

\* A slot has begun when the time since the start of the clock says so.
LEMMA QuotientIs ==
    ASSUME NEW x \in Nat, NEW n \in Nat \ {0}, NEW s \in Nat
    PROVE  s <= x \div n <=> s * n <= x
<1> DEFINE q == x \div n
<1>1. q \in Nat /\ q * n \in Nat /\ s * n \in Nat /\ q * n <= x /\ x < q * n + n
  BY Quotient
<1> HIDE DEF q
<1>2. CASE s <= q
  <2>1. s = q \/ s * n + n <= q * n
    BY <1>1, <1>2, Ahead
  <2> QED
    BY <1>1, <1>2, <2>1
<1>3. CASE ~ (s <= q)
  <2>1. q * n + n <= s * n
    BY <1>1, <1>3, Ahead
  <2> QED
    BY <1>1, <1>3, <2>1
<1> QED
  BY <1>2, <1>3 DEF q
-----------------------------------------------------------------------------
(* The regime *)

\* Nothing was lost and every device heard the first clock in time.
Calm == Devices # {} /\ ~ lost /\ \A d \in Devices : InTime(d)

GraceEnd == OldestStart + BootGrace
Begin(s) == OldestStart + s * BlockInterval
First == BootGrace \div BlockInterval       \* the slot in which the grace period ends

\* The slot of all devices, and that of the last block.
Present == (now - OldestStart) \div BlockInterval
Top == TipSlot(Len(chain) + 1)

\* A device's place among all of them, and whose turn a slot is.
Place(d) == Cardinality({p \in Devices : p < d})
Turn(d, s) == s % Cardinality(Devices) = Place(d)

\* Whoever's turn s is has had it; d has had that of the time t.
Passed(s) == now > Begin(s) \/ (now = Begin(s) /\ \E d \in checked : Turn(d, s))
After(t, d) == now > t \/ (now = t /\ d \in checked)

\* Every slot is somebody's turn.
LEMMA SomeTurn ==
    ASSUME NEW s \in Nat, Devices # {}
    PROVE  \E d \in Devices : Turn(d, s)
<1> DEFINE R == {r \in Nat \X Nat : r[1] < r[2]}
           n == Cardinality(Devices)
<1>1. IsFiniteSet(Devices) /\ Devices \subseteq Nat
  BY ClockAssumption
<1>2. StrictOrder(Devices, R)
  BY <1>1 DEF StrictOrder
<1>3. \A d \in Devices : Below(Devices, R, d) = {p \in Devices : p < d}
  BY <1>1 DEF Below
<1>4. n \in Nat \ {0}
  BY <1>1, FS_CardinalityType, FS_EmptySet
<1>5. s % n \in 0..Cardinality(Devices) - 1
  BY <1>4
<1> DEFINE k == s % n
<1> HIDE DEF R, k
<1>6. PICK d \in Devices : Cardinality(Below(Devices, R, d)) = k
  <2>1. k \in 0..Cardinality(Devices) - 1
    BY <1>5 DEF k
  <2>2. IsFiniteSet(Devices)
    BY <1>1
  <2> HIDE DEF n
  <2> QED
    BY <1>2, <2>1, <2>2, Ranks
<1> QED
  BY <1>3, <1>6 DEF Turn, Place, k

\* The types that the arithmetic below needs.
LEMMA Numbers ==
    ASSUME Typed, Devices # {}
    PROVE  /\ now \in Nat /\ OldestStart \in Nat /\ BootGrace \in Nat /\ GraceEnd \in Nat
           /\ BlockInterval \in Nat \ {0} /\ DiscoveryInterval \in Nat \ {0}
           /\ First \in Nat /\ \A s \in Nat : Begin(s) \in Nat
<1>1. now \in Nat /\ BootGrace \in Nat /\ BlockInterval \in Nat \ {0}
      /\ DiscoveryInterval \in Nat \ {0}
  BY ClockAssumption DEF Typed, TypeOK
<1>2. OldestStart \in Nat
  BY OldestIs
<1>3. First \in Nat
  BY <1>1, Quotient DEF First
<1>4. \A s \in Nat : s * BlockInterval \in Nat
  BY <1>1
<1> QED
  BY <1>1, <1>2, <1>3, <1>4 DEF GraceEnd, Begin

\* A slot is present or past exactly when it has begun.
LEMMA Reached ==
    ASSUME Typed, Devices # {}, now >= OldestStart
    PROVE  /\ Present \in Nat
           /\ \A s \in Nat : s <= Present <=> Begin(s) <= now
<1> DEFINE x == now - OldestStart
<1>1. /\ now \in Nat /\ OldestStart \in Nat /\ BlockInterval \in Nat \ {0}
  BY Numbers
<1>2. x \in Nat
  BY <1>1
<1>3. Present = x \div BlockInterval
  BY DEF Present
<1>4. x \div BlockInterval \in Nat
  <2> HIDE DEF x
  <2> QED
    BY <1>1, <1>2, Quotient
<1>5. ASSUME NEW s \in Nat
      PROVE  s <= x \div BlockInterval <=> Begin(s) <= now
  <2>1. s <= x \div BlockInterval <=> s * BlockInterval <= x
    <3> HIDE DEF x
    <3> QED
      BY <1>1, <1>2, QuotientIs
  <2>2. s * BlockInterval \in Nat
    BY <1>1
  <2>3. s * BlockInterval <= x <=> OldestStart + s * BlockInterval <= now
    BY <1>1, <2>2
  <2> QED
    BY <2>1, <2>3 DEF Begin
<1> HIDE DEF x
<1> QED
  BY <1>3, <1>4, <1>5

\* Slots and the end of the grace period.
LEMMA Grace ==
    ASSUME Typed, Devices # {}
    PROVE  /\ \A s \in Nat : s <= First <=> Begin(s) <= GraceEnd
           /\ \A s \in Nat : Begin(s + 1) = Begin(s) + BlockInterval
<1>1. /\ BootGrace \in Nat /\ OldestStart \in Nat /\ BlockInterval \in Nat \ {0}
  BY Numbers
<1>2. ASSUME NEW s \in Nat
      PROVE  s <= First <=> Begin(s) <= GraceEnd
  <2>1. s <= First <=> s * BlockInterval <= BootGrace
    BY <1>1, QuotientIs DEF First
  <2>2. s * BlockInterval \in Nat
    BY <1>1
  <2>3. s * BlockInterval <= BootGrace
        <=> OldestStart + s * BlockInterval <= OldestStart + BootGrace
    BY <1>1, <2>2
  <2> QED
    BY <2>1, <2>3 DEF Begin, GraceEnd
<1>3. ASSUME NEW s \in Nat
      PROVE  Begin(s + 1) = Begin(s) + BlockInterval
  <2>1. (s + 1) * BlockInterval = s * BlockInterval + BlockInterval
        /\ s * BlockInterval \in Nat
    BY <1>1
  <2> QED
    BY <1>1, <2>1 DEF Begin
<1> QED
  BY <1>2, <1>3

\* Every announcement after a device's start was heard by it.
Known == \A d, p \in Devices : d # p /\ announced[p] >= start[d] => p \in peers[d]

\* All devices run when the first grace period ends.
LEMMA InTimeRuns ==
    ASSUME Typed, Calm, NEW d \in Devices, now >= GraceEnd
    PROVE  Running(d) /\ now > start[d] /\ start[d] + DiscoveryInterval < GraceEnd
<1>1. /\ now \in Nat /\ OldestStart \in Nat /\ BootGrace \in Nat
      /\ DiscoveryInterval \in Nat \ {0} /\ GraceEnd = OldestStart + BootGrace
  BY Numbers DEF GraceEnd
<1>2. start[d] \in Nat /\ boot[d] \in Nat
  BY DEF Typed, Domains
<1>3. boot[d] < OldestStart /\ start[d] - boot[d] + DiscoveryInterval <= BootGrace
  BY DEF Calm, InTime
<1>4. now > start[d] /\ start[d] + DiscoveryInterval < GraceEnd
  BY <1>1, <1>2, <1>3
<1> QED
  BY <1>1, <1>2, <1>4 DEF Running

\* After it the devices have one clock and know each other.
LEMMA Regime ==
    ASSUME ClockInv, Known, Calm, now >= GraceEnd, NEW d \in Devices
    PROVE  /\ Running(d) /\ GraceOver(d) /\ genesis[d] = OldestStart
           /\ peers[d] = Devices \ {d} /\ Slot(d) = Present
           /\ BootstrapTurn(d) <=> Turn(d, Present)
<1>1. Typed /\ Devices # {}
  BY DEF ClockInv, Calm
<1>2. /\ now \in Nat /\ OldestStart \in Nat /\ BootGrace \in Nat
      /\ DiscoveryInterval \in Nat \ {0} /\ GraceEnd = OldestStart + BootGrace
  BY <1>1, Numbers DEF GraceEnd
<1>3. \A e \in Devices : Running(e) /\ now > start[e] /\ start[e] + DiscoveryInterval < GraceEnd
  BY <1>1, InTimeRuns
<1>4. ASSUME NEW p \in Devices
      PROVE  announced[p] >= start[d]
  <2>1. start[d] \in Nat /\ announced[p] \in Int
    BY <1>1 DEF Typed, Domains
  <2>2. now - announced[p] <= DiscoveryInterval
    BY <1>3 DEF ClockInv, Heard
  <2>3. start[d] + DiscoveryInterval < GraceEnd
    BY <1>3
  <2> QED
    BY <1>2, <2>1, <2>2, <2>3
<1>5. genesis[d] = OldestStart
  <2>1. PICK p \in Devices : start[p] = OldestStart
    BY <1>1, OldestIs
  <2>2. ~ lost /\ InTime(d)
    BY DEF Calm
  <2> QED
    BY <1>4, <2>1, <2>2 DEF ClockInv
<1>6. peers[d] = Devices \ {d}
  <2>1. peers[d] \subseteq Devices \ {d}
    BY <1>1 DEF Typed, TypeOK
  <2> QED
    BY <1>4, <2>1 DEF Known
<1>7. GraceOver(d)
  BY <1>2, <1>3, <1>5 DEF GraceOver
<1>8. Slot(d) = Present
  BY <1>5 DEF Slot, Present
<1>9. BootstrapTurn(d) <=> Turn(d, Present)
  <2>1. IsFiniteSet(Devices) /\ Devices \subseteq Nat
    BY ClockAssumption
  <2>2. Cardinality(Devices \ {d}) + 1 = Cardinality(Devices)
    <3>1. Cardinality(Devices \ {d}) = Cardinality(Devices) - 1 /\ Cardinality(Devices) \in Nat
      BY <2>1, FS_RemoveElement, FS_CardinalityType
    <3> QED
      BY <3>1
  <2>3. Rank(d) = Place(d)
    <3>1. {p \in peers[d] : p < d} = {p \in Devices : p < d}
      BY <1>6, <2>1
    <3> QED
      BY <3>1 DEF Rank, Place
  <2> QED
    BY <1>6, <1>8, <2>2, <2>3 DEF BootstrapTurn, Turn
<1> QED
  BY <1>3, <1>5, <1>6, <1>7, <1>8, <1>9
-----------------------------------------------------------------------------
(* What a check for production does when nothing is lost *)

\* Every device has every block.
Together == \A d \in Devices : view[d] = Len(chain) + 1

\* Nothing is produced or submitted before the grace period of the first clock
\* is over.
Fresh == now < GraceEnd =>
            \A d \in Devices : lastSlot[d] = Never /\ pool[d] = {} /\ pending[d] = {}

\* The slots of the blocks, each later than the one before, and what a device
\* knows of the last one.  A slot that was used without a block was one in
\* which no empty block is due.
SlotsInv == now >= GraceEnd =>
    /\ Top <= Present /\ Len(chain) <= Top
    /\ Len(chain) > 0 => First + Len(chain) <= Top + 1
    /\ \A d \in Devices :
        /\ lastSlot[d] <= Present
        /\ Len(chain) > 0 => Top <= lastSlot[d]
        /\ lastSlot[d] = Present /\ Top # Present =>
              Present % EmptyInterval # 0 /\ (d \in checked \/ now > Begin(Present))

\* In the bootstrap a block is made in every slot in which an empty one is due.
Beats ==
    \A s \in Nat :
        s % EmptyInterval = 0 /\ Begin(s) >= GraceEnd /\ IsBootstrap(Len(chain) + 1) /\ Passed(s)
        => Top >= s

BeatInv == Calm => Known /\ Together /\ Fresh /\ SlotsInv /\ Beats

\* What d submits, and the pools after that.
Offered(d) == IF IsBootstrap(Len(chain) + 1) THEN AutoBootstrap(d) ELSE {}
Stocked(d) == Submitted(d, Offered(d))
NewBlock(d) == [slot |-> Present, by |-> d, txs |-> Included(Len(chain) + 1, Stocked(d)[d])]

\* The ways in which it ends.
Waits(d) ==
    /\ ~ (ShouldProduce(d) /\ Len(chain) < Present)
    /\ UNCHANGED <<lastSlot, chain, view>> /\ pool' = Stocked(d)

Skips(d) ==
    /\ Stocked(d)[d] = {} /\ Present % EmptyInterval # 0
    /\ lastSlot' = [lastSlot EXCEPT ![d] = Present] /\ pool' = Stocked(d)
    /\ UNCHANGED <<chain, view>>

Appends(d) ==
    /\ ShouldProduce(d) /\ Top < Present /\ Len(chain) < Present
    /\ chain' = Append(chain, NewBlock(d))
    /\ view' = [e \in Devices |-> view[e] + 1]
    /\ lastSlot' = [e \in Devices |-> Present]
    /\ pool' = [Stocked(d) EXCEPT ![d] = {}]

LEMMA TopIs ==
    ASSUME Typed
    PROVE  /\ Top \in Nat /\ Len(chain) \in Nat
           /\ Len(chain) = 0 => Top = 0
<1>1. chain \in Seq(Block) /\ Len(chain) \in Nat
  BY LenProperties DEF Typed, Domains
<1>2. CASE Len(chain) = 0
  BY <1>1, <1>2 DEF Top, TipSlot
<1>3. CASE Len(chain) > 0
  <2>1. Len(chain) + 1 # 1 /\ (Len(chain) + 1) - 1 = Len(chain) /\ Len(chain) \in 1..Len(chain)
    BY <1>1, <1>3
  <2>2. Top = chain[Len(chain)].slot
    BY <2>1 DEF Top, TipSlot
  <2>3. chain[Len(chain)] \in Block
    BY <1>1, <2>1, ElementOfSeq
  <2> QED
    BY <1>1, <1>3, <2>2, <2>3 DEF Block
<1> QED
  BY <1>1, <1>2, <1>3

LEMMA CalmProduces ==
    ASSUME ClockInv, BeatInv, Calm, now >= GraceEnd, NEW d \in Devices,
           NEW heard \in SUBSET Devices, Produce(d, Stocked(d), heard),
           chain' # chain => heard = Devices \ {d}
    PROVE  Waits(d) \/ Skips(d) \/ Appends(d)
<1> DEFINE before == Stocked(d)
           b == [slot |-> Slot(d), by |-> d, txs |-> Included(view[d], before[d])]
           cleaned == [before EXCEPT ![d] = {}]
           applied == {d} \cup {e \in heard : Hears(e, b)}
<1>1. Typed /\ Devices # {} /\ Known /\ Together /\ SlotsInv
  BY DEF ClockInv, Calm, BeatInv
<1>2. Slot(d) = Present /\ \A e \in Devices : Slot(e) = Present
  BY <1>1, Regime
<1>3. view[d] = Len(chain) + 1 /\ \A e \in Devices : view[e] = Len(chain) + 1
  BY <1>1 DEF Together
<1>4. Top \in Nat /\ Len(chain) \in Nat /\ (Len(chain) = 0 => Top = 0)
  BY <1>1, TopIs
<1>5. Present \in Nat
  <2>1. now >= OldestStart
    BY <1>1, Numbers DEF GraceEnd
  <2> QED
    BY <1>1, <2>1, Reached
<1>6. b = NewBlock(d) /\ b.slot = Present
  BY <1>2, <1>3 DEF NewBlock
<1>7. CASE ~ (ShouldProduce(d) /\ Len(chain) < Present)
  <2>1. ~ ShouldProduce(d) \/ Slot(d) < view[d]
    BY <1>2, <1>3, <1>4, <1>5, <1>7
  <2> QED
    BY <1>7, <2>1 DEF Produce, Rest, Waits
<1>8. CASE ShouldProduce(d) /\ Len(chain) < Present
  <2>1. ~ (~ ShouldProduce(d) \/ Slot(d) < view[d])
    BY <1>2, <1>3, <1>4, <1>5, <1>8
  <2>2. Top < Present
    <3>1. lastSlot[d] # Present /\ Top <= Present
      BY <1>1, <1>2, <1>8 DEF ShouldProduce, NotYet, SlotsInv
    <3>2. CASE Len(chain) = 0
      BY <1>4, <1>5, <1>8, <3>2
    <3>3. CASE Len(chain) > 0
      <4>1. Top <= lastSlot[d] /\ lastSlot[d] <= Present /\ lastSlot[d] \in Int
        BY <1>1, <3>3 DEF SlotsInv, Typed, Domains
      <4> QED
        BY <1>4, <1>5, <3>1, <4>1
    <3> QED
      BY <1>4, <3>2, <3>3
  <2>3. ~ Refused(d)
    <3>1. TipSlot(view[d]) = Top
      BY <1>3 DEF Top
    <3> QED
      BY <1>2, <1>4, <1>5, <2>2, <3>1 DEF Refused
  <2>4. CASE before[d] = {} /\ Present % EmptyInterval # 0
    BY <1>2, <2>1, <2>4 DEF Produce, Skips
  <2>5. CASE ~ (before[d] = {} /\ Present % EmptyInterval # 0)
    <3>1. /\ chain' = Append(chain, b)
          /\ view' = [e \in Devices |-> IF e \in applied THEN view[e] + 1 ELSE view[e]]
          /\ lastSlot' = [e \in Devices |-> IF e \in applied THEN b.slot ELSE lastSlot[e]]
          /\ pool' = cleaned
      BY <1>2, <2>1, <2>3, <2>5 DEF Produce
    <3>2. heard = Devices \ {d}
      <4>1. Len(Append(chain, b)) = Len(chain) + 1
        <5> HIDE DEF b
        <5> QED
          BY <1>1, AppendProperties DEF Typed, Domains
      <4>2. chain' # chain
        BY <1>4, <3>1, <4>1
      <4> QED
        BY <4>2
    <3>3. applied = Devices
      <4>1. \A e \in Devices : Hears(e, b)
        BY <1>2, <1>3, <1>5, <1>6 DEF Hears
      <4> QED
        BY <3>2, <4>1
    <3>4. view' = [e \in Devices |-> view[e] + 1] /\ lastSlot' = [e \in Devices |-> Present]
      <4> HIDE DEF b, applied
      <4> QED
        BY <1>6, <3>1, <3>3
    <3> QED
      BY <1>6, <1>8, <2>2, <3>1, <3>4 DEF Appends
  <2> QED
    BY <2>4, <2>5
<1> QED
  BY <1>7, <1>8

\* A device checks for production: nothing before the grace period is over,
\* then its own submission, and one of the three.
LEMMA CalmChecks ==
    ASSUME ClockInv, BeatInv, Calm', NEW d \in Devices, Check(d)
    PROVE  /\ Calm /\ checked' = checked \cup {d} /\ d \notin checked
           /\ UNCHANGED <<now, boot, start, genesis, peers, announced>>
           /\ now < GraceEnd => UNCHANGED <<lastSlot, chain, view, pool, pending>>
           /\ now >= GraceEnd => /\ pending' = [pending EXCEPT ![d] = Pending(d, Offered(d))]
                                 /\ Waits(d) \/ Skips(d) \/ Appends(d)
<1>1. /\ Running(d) /\ d \notin checked /\ checked' = checked \cup {d}
      /\ UNCHANGED <<now, boot, start, genesis, peers, announced>>
  BY DEF Check, clockVars
<1>2. Typed /\ ~ lost'
  BY DEF ClockInv, Calm
<1>3. Calm
  <2>1. ~ lost
    BY <1>2, CheckTyped
  <2>2. OldestStart' = OldestStart
    BY <1>1 DEF OldestStart
  <2>3. \A e \in Devices : InTime(e)
    BY <1>1, <2>2 DEF Calm, InTime
  <2> QED
    BY <2>1, <2>3 DEF Calm
<1>4. Devices # {} /\ Known /\ Together
  BY <1>3 DEF Calm, BeatInv
<1>5. /\ now \in Nat /\ GraceEnd \in Nat /\ OldestStart \in Nat /\ BootGrace \in Nat
      /\ genesis[d] \in Nat
  BY <1>2, <1>4, Numbers DEF Typed, Domains
<1>6. view[d] = Len(chain) + 1 /\ Len(chain) \in Nat
  BY <1>2, <1>4, TopIs DEF Together
<1>7. CASE now < GraceEnd
  <2>1. ~ GraceOver(d)
    BY <1>5, <1>7 DEF GraceOver, GraceEnd, ClockInv
  <2> QED
    BY <1>1, <1>3, <1>5, <1>7, <2>1 DEF Check
<1>8. CASE now >= GraceEnd
  <2> DEFINE others == {e \in Devices \ {d} : Running(e)}
             new == IF IsBootstrap(view[d]) THEN AutoBootstrap(d) ELSE {}
  <2>1. GraceOver(d) /\ others = Devices \ {d}
    BY <1>3, <1>4, <1>8, Regime
  <2>2. ~ (view[d] <= Len(chain))
    BY <1>6
  <2>3. PICK heard \in SUBSET others :
          /\ pending' = [pending EXCEPT ![d] = Pending(d, new)]
          /\ Produce(d, Submitted(d, new), heard)
          /\ lost' = (lost \/ (chain' # chain /\ heard # others))
    BY <2>1, <2>2 DEF Check
  <2>4. new = Offered(d)
    BY <1>6 DEF Offered
  <2>5. chain' # chain => heard = Devices \ {d}
    <3> HIDE DEF others, new
    <3> QED
      BY <1>2, <2>1, <2>3
  <2>6. Submitted(d, new) = Stocked(d)
    <3> HIDE DEF new
    <3> QED
      BY <2>4 DEF Stocked
  <2>7. heard \in SUBSET Devices
    BY <2>3
  <2>8. Waits(d) \/ Skips(d) \/ Appends(d)
    <3> HIDE DEF new, others
    <3> QED
      BY <1>3, <1>8, <2>3, <2>5, <2>6, <2>7, CalmProduces
  <2> HIDE DEF new
  <2> QED
    BY <1>1, <1>3, <1>5, <1>8, <2>3, <2>4, <2>8
<1> QED
  BY <1>5, <1>7, <1>8
-----------------------------------------------------------------------------
(* The beat: one step *)

LEMMA SameClock ==
    ASSUME start' = start
    PROVE  /\ OldestStart' = OldestStart /\ GraceEnd' = GraceEnd /\ First' = First
           /\ \A s : Begin(s)' = Begin(s)
           /\ \A d, s : Turn(d, s)' <=> Turn(d, s)
           /\ now' = now => Present' = Present
<1>1. OldestStart' = OldestStart
  BY DEF OldestStart
<1>2. \A d, s : Turn(d, s)' <=> Turn(d, s)
  BY DEF Turn, Place
<1> QED
  BY <1>1, <1>2 DEF GraceEnd, First, Begin, Present

LEMMA SameCalm ==
    ASSUME UNCHANGED <<boot, start>>, lost => lost', Calm'
    PROVE  Calm
<1>1. OldestStart' = OldestStart
  BY DEF OldestStart
<1> QED
  BY <1>1 DEF Calm, InTime

LEMMA BeatInit ==
    ASSUME Init
    PROVE  BeatInv
<1> SUFFICES ASSUME Calm
             PROVE  Known /\ Together /\ Fresh /\ SlotsInv /\ Beats
  BY DEF BeatInv
<1>1. Typed /\ Devices # {}
  BY InitTyped DEF Calm
<1>2. GraceEnd \in Nat /\ GraceEnd > 0 /\ now = 0
  <2>1. PICK p \in Devices : start[p] = OldestStart
    BY <1>1, OldestIs
  <2>2. boot[p] \in Nat /\ start[p] \in Nat /\ boot[p] < start[p]
    BY <1>1 DEF Typed, Domains, TypeOK
  <2>3. OldestStart \in Nat /\ OldestStart > 0
    BY <2>1, <2>2
  <2>4. BootGrace \in Nat
    BY ClockAssumption
  <2> QED
    BY <2>3, <2>4 DEF GraceEnd, Init
<1>3. Known
  <2>1. \A d, p \in Devices : start[d] \in Nat /\ announced[p] = -1
    BY <1>1 DEF Init, Typed, Domains, Never
  <2>2. \A d, p \in Devices : ~ (announced[p] >= start[d])
    BY <2>1
  <2> QED
    BY <2>2 DEF Known
<1>4. Together
  <2>1. Len(chain) = 0 /\ view = [d \in Devices |-> 1]
    BY DEF Init
  <2> QED
    BY <2>1 DEF Together
<1>5. Fresh
  BY DEF Init, Fresh
<1>6. SlotsInv
  BY <1>2 DEF SlotsInv
<1>7. Beats
  <2>1. ASSUME NEW s \in Nat, Begin(s) >= GraceEnd
        PROVE  ~ Passed(s)
    <3>1. Begin(s) \in Nat
      BY <1>1, Numbers
    <3> QED
      BY <1>2, <2>1, <3>1 DEF Passed
  <2> QED
    BY <2>1 DEF Beats
<1> QED
  BY <1>3, <1>4, <1>5, <1>6, <1>7

\* Where no time passes and nothing is produced or submitted.
LEMMA BeatKept ==
    ASSUME UNCHANGED <<now, start, lastSlot, chain, view, pool, pending>>,
           checked \subseteq checked', Together, Fresh, SlotsInv, Beats,
           \A s \in Nat : Begin(s) >= GraceEnd /\ Passed(s)' => Passed(s)
    PROVE  Together' /\ Fresh' /\ SlotsInv' /\ Beats'
<1>1. /\ GraceEnd' = GraceEnd /\ First' = First /\ Present' = Present
      /\ \A s : Begin(s)' = Begin(s)
  BY SameClock
<1>2. Top' = Top
  BY DEF Top, TipSlot
<1>3. Together'
  BY DEF Together
<1>4. Fresh'
  BY <1>1 DEF Fresh
<1>5. SlotsInv'
  BY <1>1, <1>2 DEF SlotsInv
<1>6. Beats'
  BY <1>1, <1>2 DEF Beats, IsBootstrap
<1> QED
  BY <1>3, <1>4, <1>5, <1>6

LEMMA BeatAnnounce ==
    ASSUME ClockInv, BeatInv, NEW p \in Devices, Announce(p)
    PROVE  BeatInv'
<1> SUFFICES ASSUME Calm'
             PROVE  Known' /\ Together' /\ Fresh' /\ SlotsInv' /\ Beats'
  BY DEF BeatInv
<1>1. PICK heard \in SUBSET {d \in Devices \ {p} : Running(d)} :
        /\ peers' = [d \in Devices |-> IF d \in heard THEN peers[d] \cup {p} ELSE peers[d]]
        /\ lost' = (lost \/ heard # {d \in Devices \ {p} : Running(d)})
  BY DEF Announce
<1>2. /\ announced' = [announced EXCEPT ![p] = now]
      /\ UNCHANGED <<now, boot, start, checked, lastSlot, chain, view, pool, pending>>
  BY DEF Announce, clockVars
<1>3. Calm /\ ~ lost'
  BY <1>1, <1>2, SameCalm DEF Calm
<1>4. Known /\ Together /\ Fresh /\ SlotsInv /\ Beats
  BY <1>3 DEF BeatInv
<1>5. \A s \in Nat : Passed(s)' => Passed(s)
  BY <1>2, SameClock DEF Passed
<1>6. Known'
  <2> SUFFICES ASSUME NEW d \in Devices, NEW q \in Devices, d # q, announced'[q] >= start[d]
               PROVE  q \in peers'[d]
    BY <1>2 DEF Known
  <2>1. CASE q = p
    <3>1. announced'[p] = now
      BY <1>2 DEF ClockInv, Typed, Domains
    <3>2. d \in heard
      BY <1>1, <1>3, <2>1, <3>1 DEF Running
    <3> QED
      BY <1>1, <2>1, <3>2
  <2>2. CASE q # p
    <3>1. announced'[q] = announced[q]
      BY <1>2, <2>2 DEF ClockInv, Typed, Domains
    <3> QED
      BY <1>1, <1>4, <3>1 DEF Known
  <2> QED
    BY <2>1, <2>2
<1> QED
  BY <1>2, <1>4, <1>5, <1>6, BeatKept

\* Nobody leaves a tick without having had its turn.
LEMMA TickAfterAll ==
    ASSUME Typed, Calm, Tick, now >= GraceEnd
    PROVE  now' = now + 1 /\ now \in Nat /\ \A d \in Devices : d \in checked
<1>1. \A d \in Devices : Running(d)
  BY InTimeRuns
<1> QED
  BY <1>1 DEF Tick, Typed, TypeOK

LEMMA PassedTick ==
    ASSUME Typed, Calm, Tick, NEW s \in Nat, Begin(s) >= GraceEnd, Passed(s)'
    PROVE  Passed(s)
<1>1. Devices # {} /\ start' = start /\ checked' = {} /\ now' = now + 1
  BY DEF Calm, Tick, clockVars
<1>2. now \in Nat /\ GraceEnd \in Nat /\ Begin(s) \in Nat
  BY <1>1, Numbers
<1>3. now' > Begin(s)
  BY <1>1, SameClock DEF Passed
<1>4. CASE now = Begin(s)
  <2>1. \A d \in Devices : d \in checked
    BY <1>4, TickAfterAll
  <2> QED
    BY <1>1, <1>4, <2>1, SomeTurn DEF Passed
<1>5. CASE now # Begin(s)
  BY <1>1, <1>2, <1>3, <1>5 DEF Passed
<1> QED
  BY <1>4, <1>5

\* The slot of all devices only grows.
LEMMA PresentGrows ==
    ASSUME Typed, Devices # {}, now >= OldestStart, now' = now + 1, start' = start
    PROVE  /\ Present \in Nat /\ Present' \in Nat /\ Present <= Present'
           /\ Begin(Present) <= now
<1>1. /\ now \in Nat /\ OldestStart \in Nat /\ BlockInterval \in Nat \ {0}
      /\ OldestStart' = OldestStart
  BY Numbers, SameClock
<1>2. Present \in Nat /\ Begin(Present) <= now
  <2>1. Present \in Nat /\ (Present <= Present <=> Begin(Present) <= now)
    BY Reached
  <2> QED
    BY <2>1
<1> DEFINE x == now + 1 - OldestStart
<1>3. x \in Nat /\ Present' = x \div BlockInterval
  BY <1>1 DEF Present
<1>4. Present * BlockInterval <= x
  <2>1. Present * BlockInterval \in Nat
    BY <1>1, <1>2
  <2> QED
    BY <1>1, <1>2, <2>1 DEF Begin
<1> HIDE DEF x
<1>5. x \div BlockInterval \in Nat
  BY <1>1, <1>3, Quotient
<1>6. Present <= x \div BlockInterval
  BY <1>1, <1>2, <1>3, <1>4, QuotientIs
<1> QED
  BY <1>2, <1>3, <1>5, <1>6

LEMMA BeatTick ==
    ASSUME ClockInv, BeatInv, Tick
    PROVE  BeatInv'
<1> SUFFICES ASSUME Calm'
             PROVE  Known' /\ Together' /\ Fresh' /\ SlotsInv' /\ Beats'
  BY DEF BeatInv
<1>1. /\ now' = now + 1 /\ checked' = {}
      /\ UNCHANGED <<boot, start, genesis, peers, announced, lastSlot, chain, view, pool,
                     pending, lost>>
  BY DEF Tick, clockVars
<1>2. Calm /\ Typed /\ Devices # {}
  BY <1>1, SameCalm DEF Calm, ClockInv
<1>3. Known /\ Together /\ Fresh /\ SlotsInv /\ Beats
  BY <1>2 DEF BeatInv
<1>4. /\ now \in Nat /\ OldestStart \in Nat /\ BootGrace \in Nat /\ GraceEnd \in Nat
      /\ First \in Nat /\ GraceEnd = OldestStart + BootGrace
  BY <1>2, Numbers DEF GraceEnd
<1>5. /\ GraceEnd' = GraceEnd /\ First' = First
      /\ \A s : Begin(s)' = Begin(s)
  BY <1>1, SameClock
<1>6. Top' = Top /\ Top \in Nat /\ Len(chain) \in Nat /\ (Len(chain) = 0 => Top = 0)
  <2>1. Top' = Top
    BY <1>1 DEF Top, TipSlot
  <2> QED
    BY <1>2, <2>1, TopIs
<1>7. Known' /\ Together'
  BY <1>1, <1>3 DEF Known, Together
<1>8. Fresh'
  BY <1>1, <1>3, <1>4, <1>5 DEF Fresh
<1>9. SlotsInv'
  <2> SUFFICES ASSUME now' >= GraceEnd
               PROVE  /\ Top <= Present' /\ Len(chain) <= Top
                      /\ Len(chain) > 0 => First + Len(chain) <= Top + 1
                      /\ \A d \in Devices :
                          /\ lastSlot[d] <= Present'
                          /\ Len(chain) > 0 => Top <= lastSlot[d]
                          /\ lastSlot[d] = Present' /\ Top # Present' =>
                                Present' % EmptyInterval # 0 /\ now' > Begin(Present')
    BY <1>1, <1>5, <1>6 DEF SlotsInv
  <2>1. CASE now < GraceEnd
    <3>1. Len(chain) = 0 /\ Top = 0
      BY <1>4, <1>6, <2>1 DEF ClockInv
    <3>2. \A d \in Devices : lastSlot[d] = -1
      BY <1>3, <2>1 DEF Fresh, Never
    <3>3. Present' \in Nat
      <4> DEFINE x == now + 1 - OldestStart
      <4>1. x \in Nat /\ Present' = x \div BlockInterval /\ BlockInterval \in Nat \ {0}
        BY <1>1, <1>2, <1>4, <1>5, Numbers, SameClock DEF Present
      <4> HIDE DEF x
      <4> QED
        BY <4>1, Quotient
    <3> QED
      BY <3>1, <3>2, <3>3
  <2>2. CASE now >= GraceEnd
    <3>1. /\ Present \in Nat /\ Present' \in Nat /\ Present <= Present' /\ Begin(Present) <= now
          /\ Begin(Present) \in Nat
      <4>1. now >= OldestStart
        BY <1>4, <2>2
      <4> QED
        BY <1>1, <1>2, <4>1, PresentGrows, Numbers
    <3>2. /\ Top <= Present /\ Len(chain) <= Top
          /\ Len(chain) > 0 => First + Len(chain) <= Top + 1
      BY <1>3, <2>2 DEF SlotsInv
    <3>3. ASSUME NEW d \in Devices
          PROVE  /\ lastSlot[d] <= Present'
                 /\ Len(chain) > 0 => Top <= lastSlot[d]
                 /\ lastSlot[d] = Present' /\ Top # Present' =>
                       Present' % EmptyInterval # 0 /\ now' > Begin(Present')
      <4>1. /\ lastSlot[d] <= Present /\ lastSlot[d] \in Int
            /\ Len(chain) > 0 => Top <= lastSlot[d]
            /\ lastSlot[d] = Present /\ Top # Present => Present % EmptyInterval # 0
        BY <1>2, <1>3, <2>2 DEF SlotsInv, Typed, Domains
      <4>2. CASE Present' = Present
        BY <1>1, <1>4, <3>1, <4>1, <4>2
      <4>3. CASE Present' # Present
        BY <3>1, <4>1, <4>3
      <4> QED
        BY <4>2, <4>3
    <3> QED
      BY <1>6, <3>1, <3>2, <3>3
  <2> QED
    BY <1>4, <2>1, <2>2
<1>10. Beats'
  <2>1. \A s \in Nat : Begin(s) >= GraceEnd /\ Passed(s)' => Passed(s)
    BY <1>2, PassedTick
  <2> QED
    BY <1>1, <1>3, <1>5, <1>6, <2>1 DEF Beats, IsBootstrap
<1> QED
  BY <1>7, <1>8, <1>9, <1>10

\* Whoever's turn it is at the begin of a slot without a block takes it.
LEMMA Served ==
    ASSUME ClockInv, BeatInv, Calm, NEW d \in Devices, d \notin checked,
           Waits(d) \/ Skips(d) \/ Appends(d),
           NEW s \in Nat, Begin(s) >= GraceEnd, now = Begin(s), Turn(d, s),
           IsBootstrap(Len(chain) + 1), Top # s
    PROVE  Present = s /\ (Skips(d) \/ Appends(d))
<1>1. Typed /\ Devices # {} /\ Known /\ Together /\ SlotsInv
  BY DEF ClockInv, Calm, BeatInv
<1>2. /\ now \in Nat /\ OldestStart \in Nat /\ BootGrace \in Nat /\ GraceEnd \in Nat
      /\ BlockInterval \in Nat \ {0} /\ GraceEnd = OldestStart + BootGrace
      /\ SlotTolerance \in Nat \ {0}
  BY <1>1, Numbers, ClockAssumption DEF GraceEnd
<1>3. now >= OldestStart /\ now >= GraceEnd
  BY <1>2
<1>4. Present = s
  <2>1. Present \in Nat /\ \A t \in Nat : t <= Present <=> Begin(t) <= now
    BY <1>1, <1>3, Reached
  <2>2. Begin(s + 1) = now + BlockInterval /\ s + 1 \in Nat
    BY <1>1, Grace
  <2>3. s <= Present /\ ~ (s + 1 <= Present)
    BY <1>2, <2>1, <2>2
  <2> QED
    BY <2>1, <2>3
<1>5. /\ Slot(d) = Present /\ genesis[d] = OldestStart
      /\ BootstrapTurn(d) <=> Turn(d, Present)
  BY <1>1, <1>3, Regime
<1>6. Top \in Nat /\ Len(chain) \in Nat /\ Top <= Present /\ Len(chain) <= Top
  BY <1>1, <1>3, TopIs DEF SlotsInv
<1>7. ShouldProduce(d)
  <2>1. NotYet(d)
    <3>1. ~ (now > Begin(Present))
      BY <1>2, <1>4
    <3> QED
      BY <1>1, <1>3, <1>4, <1>5, <3>1 DEF SlotsInv, NotYet
  <2>2. InWindow(d)
    <3>1. genesis[d] + Slot(d) * BlockInterval = now
      BY <1>4, <1>5 DEF Begin
    <3> QED
      BY <1>2, <3>1 DEF InWindow
  <2>3. IsBootstrap(view[d])
    BY <1>1 DEF Together
  <2> QED
    BY <1>4, <1>5, <2>1, <2>2, <2>3 DEF ShouldProduce
<1>8. Len(chain) < Present
  BY <1>4, <1>6
<1> QED
  BY <1>4, <1>7, <1>8 DEF Waits

\* What each of the three does to the slots.
LEMMA TopMoves ==
    ASSUME Typed, NEW d \in Devices, Waits(d) \/ Skips(d) \/ Appends(d)
    PROVE  \/ Top' = Top /\ chain' = chain /\ view' = view /\ ~ Appends(d)
           \/ /\ Appends(d) /\ Top' = Present /\ Len(chain') = Len(chain) + 1
<1>1. CASE Appends(d)
  <2> DEFINE b == NewBlock(d)
  <2>1. chain' = Append(chain, b) /\ chain \in Seq(Block) /\ Len(chain) \in Nat
    BY <1>1, LenProperties DEF Appends, Typed, Domains
  <2>2. b.slot = Present
    BY DEF NewBlock
  <2> HIDE DEF b
  <2>3. /\ Len(Append(chain, b)) = Len(chain) + 1
        /\ Append(chain, b)[Len(chain) + 1] = b
    BY <2>1, AppendProperties
  <2>4. Len(chain') = Len(chain) + 1 /\ chain'[Len(chain')] = b
    BY <2>1, <2>3
  <2>5. Top' = Present
    <3>1. Len(chain') + 1 # 1 /\ (Len(chain') + 1) - 1 = Len(chain')
      BY <2>1, <2>4
    <3> QED
      BY <2>2, <2>4, <3>1 DEF Top, TipSlot
  <2> QED
    BY <1>1, <2>4, <2>5
<1>2. CASE ~ Appends(d)
  <2>1. chain' = chain /\ view' = view
    BY <1>2 DEF Waits, Skips
  <2> QED
    BY <1>2, <2>1 DEF Top, TipSlot
<1> QED
  BY <1>1, <1>2

LEMMA BeatCheck ==
    ASSUME ClockInv, BeatInv, NEW d \in Devices, Check(d)
    PROVE  BeatInv'
<1> SUFFICES ASSUME Calm'
             PROVE  Known' /\ Together' /\ Fresh' /\ SlotsInv' /\ Beats'
  BY DEF BeatInv
<1>1. /\ Calm /\ checked' = checked \cup {d} /\ d \notin checked
      /\ UNCHANGED <<now, boot, start, genesis, peers, announced>>
      /\ now < GraceEnd => UNCHANGED <<lastSlot, chain, view, pool, pending>>
      /\ now >= GraceEnd => Waits(d) \/ Skips(d) \/ Appends(d)
  BY CalmChecks
<1>2. Typed /\ Devices # {} /\ Known /\ Together /\ Fresh /\ SlotsInv /\ Beats
  BY <1>1 DEF Calm, ClockInv, BeatInv
<1>3. /\ now \in Nat /\ OldestStart \in Nat /\ BootGrace \in Nat /\ GraceEnd \in Nat
      /\ First \in Nat /\ GraceEnd = OldestStart + BootGrace
      /\ \A s \in Nat : Begin(s) \in Nat
  BY <1>2, Numbers DEF GraceEnd
<1>4. /\ GraceEnd' = GraceEnd /\ First' = First /\ Present' = Present
      /\ \A s : Begin(s)' = Begin(s)
      /\ \A e, s : Turn(e, s)' <=> Turn(e, s)
  BY <1>1, SameClock
<1>5. Known'
  BY <1>1, <1>2 DEF Known
<1>6. ASSUME NEW s \in Nat, Passed(s)'
      PROVE  Passed(s) \/ (now = Begin(s) /\ Turn(d, s))
  BY <1>1, <1>4, <1>6 DEF Passed
<1>7. CASE now < GraceEnd
  <2>1. \A s \in Nat : Begin(s) >= GraceEnd /\ Passed(s)' => Passed(s)
    BY <1>3, <1>6, <1>7
  <2> QED
    BY <1>1, <1>2, <1>5, <1>7, <2>1, BeatKept
<1>8. CASE now >= GraceEnd
  <2>1. Present \in Nat /\ \A t \in Nat : t <= Present <=> Begin(t) <= now
    BY <1>2, <1>3, <1>8, Reached
  <2>2. /\ Top \in Nat /\ Len(chain) \in Nat /\ (Len(chain) = 0 => Top = 0)
        /\ Top <= Present /\ Len(chain) <= Top
        /\ Len(chain) > 0 => First + Len(chain) <= Top + 1
    BY <1>2, <1>8, TopIs DEF SlotsInv
  <2>3. Waits(d) \/ Skips(d) \/ Appends(d)
    BY <1>1, <1>8
  <2>4. \/ Top' = Top /\ chain' = chain /\ view' = view /\ ~ Appends(d)
        \/ Appends(d) /\ Top' = Present /\ Len(chain') = Len(chain) + 1
    BY <1>2, <2>3, TopMoves
  <2>5. Together'
    <3>1. CASE Appends(d)
      BY <1>2, <2>4, <3>1 DEF Together, Appends
    <3>2. CASE ~ Appends(d)
      BY <1>2, <2>4, <3>2 DEF Together
    <3> QED
      BY <3>1, <3>2
  <2>6. Fresh'
    BY <1>1, <1>3, <1>4, <1>8 DEF Fresh
  <2>7. SlotsInv'
    <3>1. CASE Waits(d)
      <4>1. lastSlot' = lastSlot /\ chain' = chain /\ Top' = Top
        BY <3>1 DEF Waits, Top, TipSlot
      <4> QED
        BY <1>1, <1>2, <1>4, <1>8, <4>1 DEF SlotsInv
    <3>2. CASE Skips(d)
      <4>1. /\ lastSlot' = [lastSlot EXCEPT ![d] = Present] /\ chain' = chain /\ Top' = Top
            /\ Present % EmptyInterval # 0
        BY <3>2 DEF Skips, Top, TipSlot
      <4>2. lastSlot \in [Devices -> Int]
        BY <1>2 DEF Typed, Domains
      <4>3. ASSUME NEW e \in Devices
            PROVE  /\ lastSlot'[e] <= Present
                   /\ Len(chain) > 0 => Top <= lastSlot'[e]
                   /\ lastSlot'[e] = Present /\ Top # Present =>
                         Present % EmptyInterval # 0
                         /\ (e \in checked' \/ now > Begin(Present))
        <5>1. CASE e = d
          BY <1>1, <2>1, <2>2, <4>1, <4>2, <5>1
        <5>2. CASE e # d
          BY <1>1, <1>2, <1>8, <4>1, <4>2, <5>2 DEF SlotsInv
        <5> QED
          BY <5>1, <5>2
      <4> QED
        BY <1>1, <1>4, <2>2, <4>1, <4>3 DEF SlotsInv
    <3>3. CASE Appends(d)
      <4>1. /\ Top < Present /\ Len(chain) < Present /\ lastSlot' = [e \in Devices |-> Present]
            /\ Top' = Present /\ Len(chain') = Len(chain) + 1
        BY <2>4, <3>3 DEF Appends
      <4>2. First + Len(chain) <= Present
        <5>1. CASE Len(chain) = 0
          <6>1. Begin(First) <= GraceEnd
            BY <1>2, <1>3, Grace
          <6>2. First <= Present
            BY <1>3, <1>8, <2>1, <6>1
          <6> QED
            BY <1>3, <5>1, <6>2
        <5>2. CASE Len(chain) > 0
          BY <1>3, <2>1, <2>2, <4>1, <5>2
        <5> QED
          BY <2>2, <5>1, <5>2
      <4>3. /\ Top' <= Present /\ Len(chain') <= Top'
            /\ First + Len(chain') <= Top' + 1
        <5>1. Top' = Present /\ Len(chain') = Len(chain) + 1 /\ Len(chain) < Present
          BY <4>1
        <5>2. Present \in Nat /\ Len(chain) \in Nat /\ First \in Nat
          BY <1>3, <2>1, <2>2
        <5>3. Present <= Present /\ Len(chain) + 1 <= Present
              /\ First + (Len(chain) + 1) <= Present + 1
          BY <4>2, <5>1, <5>2
        <5> QED
          BY <5>1, <5>3
      <4>4. \A e \in Devices : lastSlot'[e] = Present
        BY <4>1
      <4> QED
        BY <1>4, <2>1, <4>1, <4>3, <4>4 DEF SlotsInv
    <3> QED
      BY <2>3, <3>1, <3>2, <3>3
  <2>8. Beats'
    <3> SUFFICES ASSUME NEW s \in Nat, s % EmptyInterval = 0, Begin(s) >= GraceEnd,
                        IsBootstrap(Len(chain') + 1), Passed(s)'
                 PROVE  Top' >= s
      BY <1>4 DEF Beats, IsBootstrap
    <3>1. IsBootstrap(Len(chain) + 1)
      <4>1. Len(chain') = Len(chain) \/ Len(chain') = Len(chain) + 1
        BY <2>4
      <4> QED
        BY <2>2, <4>1, ClockAssumption DEF IsBootstrap
    <3>2. Top' \in Nat /\ Top <= Top'
      BY <2>1, <2>2, <2>4
    <3>3. CASE Passed(s)
      <4>1. Top >= s
        BY <1>2, <3>1, <3>3 DEF Beats
      <4> QED
        BY <2>2, <3>2, <4>1
    <3>4. CASE Top = s
      BY <3>2, <3>4
    <3>5. CASE ~ Passed(s) /\ Top # s
      <4>1. now = Begin(s) /\ Turn(d, s)
        BY <1>6, <3>5
      <4>2. Present = s /\ (Skips(d) \/ Appends(d))
        BY <1>1, <2>3, <3>1, <3>5, <4>1, Served
      <4>3. Appends(d)
        BY <4>2 DEF Skips
      <4> QED
        BY <2>1, <2>4, <4>2, <4>3
    <3> QED
      BY <3>3, <3>4, <3>5
  <2> QED
    BY <1>5, <2>5, <2>6, <2>7, <2>8
<1> QED
  BY <1>3, <1>7, <1>8

LEMMA BeatNext ==
    ASSUME ClockInv, BeatInv, [Next]_vars
    PROVE  BeatInv'
<1>1. CASE UNCHANGED vars
  <2>1. UNCHANGED <<now, boot, start, peers, announced, checked, lastSlot, chain, view, pool,
                    pending, lost>>
    BY <1>1 DEF vars, clockVars
  <2>2. ASSUME Calm'
        PROVE  Known' /\ Together' /\ Fresh' /\ SlotsInv' /\ Beats'
    <3>1. Calm
      BY <2>1, <2>2, SameCalm
    <3>2. Known /\ Together /\ Fresh /\ SlotsInv /\ Beats
      BY <3>1 DEF BeatInv
    <3>3. \A s \in Nat : Passed(s)' => Passed(s)
      BY <2>1, SameClock DEF Passed
    <3>4. Known'
      BY <2>1, <3>2 DEF Known
    <3> QED
      BY <2>1, <3>2, <3>3, <3>4, BeatKept
  <2> QED
    BY <2>2 DEF BeatInv
<1>2. ASSUME NEW d \in Devices, TrySync(d)
      PROVE  BeatInv'
  <2>1. UNCHANGED <<boot, start, lost>> /\ view[d] <= Len(chain)
    BY <1>2 DEF TrySync, clockVars
  <2>2. Typed
    BY DEF ClockInv
  <2>3. ~ Calm
    <3>1. Len(chain) \in Nat
      BY <2>2, TopIs
    <3> QED
      BY <2>1, <3>1 DEF BeatInv, Together
  <2> QED
    BY <2>1, <2>3, SameCalm DEF BeatInv
<1> QED
  BY <1>1, <1>2, BeatTick, BeatAnnounce, BeatCheck DEF Next
-----------------------------------------------------------------------------
(* The beat: what it means for the blocks *)

\* setup() leaves time to hear an announcement before a grace period is over
\* that began when the device was switched on: with a DISCOVERY_INTERVAL of 5 s
\* and a BOOT_GRACE_PERIOD of 15 s it takes at most 10 s, most of them to
\* connect.  WIFI_CONNECT_TIMEOUT allows for more: this is a condition on the
\* network, as CommonClock has it for each device.
QuickSetup == \A s \in SetupTimes : s + DiscoveryInterval <= BootGrace

\* How long setup() took on each device.
SetupIs == \A d \in Devices : start[d] - boot[d] \in SetupTimes

LEMMA SetupInit ==
    ASSUME Init
    PROVE  SetupIs
<1>1. PICK setup \in [Devices -> SetupTimes] : start = [d \in Devices |-> boot[d] + setup[d]]
  BY DEF Init
<1>2. ASSUME NEW d \in Devices
      PROVE  start[d] - boot[d] \in SetupTimes
  <2>1. boot[d] \in Nat /\ setup[d] \in Nat /\ start[d] = boot[d] + setup[d]
    BY <1>1, ClockAssumption DEF Init
  <2>2. start[d] - boot[d] = setup[d]
    BY <2>1
  <2> QED
    BY <2>2
<1> QED
  BY <1>2 DEF SetupIs

LEMMA SetupNext ==
    ASSUME SetupIs, [Next]_vars
    PROVE  SetupIs'
<1>1. UNCHANGED <<boot, start>>
  BY DEF Next, vars, clockVars, Tick, Announce, Check, TrySync
<1> QED
  BY <1>1 DEF SetupIs

\* Where all devices go by the first clock they heard it in time.
LEMMA OneClockCalm ==
    ASSUME QuickSetup, Typed, SetupIs, Devices # {}, ~ lost,
           \A e \in Devices : genesis[e] = OldestStart
    PROVE  Calm
<1>1. ASSUME NEW e \in Devices
      PROVE  InTime(e)
  <2>1. boot[e] \in Nat /\ genesis[e] \in boot[e] + 1..start[e] /\ start[e] \in Nat
    BY DEF Typed, TypeOK, Domains
  <2>2. boot[e] < OldestStart
    BY <2>1
  <2>3. start[e] - boot[e] + DiscoveryInterval <= BootGrace
    BY DEF QuickSetup, SetupIs
  <2> QED
    BY <2>2, <2>3 DEF InTime
<1> QED
  BY <1>1 DEF Calm

LEMMA LargerOfTwo ==
    ASSUME NEW a \in Nat, NEW b \in Nat
    PROVE  Max({a, b}) \in Nat /\ a <= Max({a, b}) /\ b <= Max({a, b})
<1>1. \E x \in {a, b} : \A y \in {a, b} : x >= y
  OBVIOUS
<1> QED
  BY <1>1 DEF Max

\* The last of the slots before x in which an empty block is due.
LEMMA LastDue ==
    ASSUME NEW x \in Nat
    PROVE  \E s \in Nat : s % EmptyInterval = 0 /\ s <= x /\ x < s + EmptyInterval
<1> DEFINE n == EmptyInterval
<1>1. n \in Nat \ {0}
  BY ClockAssumption
<1> HIDE DEF n
<1> DEFINE q == x \div n
<1>2. q \in Nat /\ q * n <= x /\ x < q * n + n
  BY <1>1, Quotient
<1> HIDE DEF q
<1>3. q * n \in Nat /\ (q * n) % n = 0
  BY <1>1, <1>2
<1> QED
  BY <1>2, <1>3 DEF n

\* Where devices set themselves up quickly and nothing is lost, a slot in which
\* an empty block is due does not pass without a block in the bootstrap:
\* checkBlockProduction of the device whose turn it is finds the slot unused and
\* in its window, and every device counts the same peers and slots.  So the last
\* block is never older than EMPTY_BLOCK_INTERVAL slots.
THEOREM BlocksKeepComing ==
    ASSUME QuickSetup
    PROVE  Spec => []NeverIdle
<1>1. ASSUME ClockInv, BeatInv, SetupIs
      PROVE  NeverIdle
  <2> SUFFICES ASSUME NEW d \in Devices, ~ lost, \A e \in Devices : genesis[e] = OldestStart,
                      GraceOver(d), IsBootstrap(view[d])
               PROVE  Slot(d) <= Max({TipSlot(view[d]), BootGrace \div BlockInterval})
                                 + EmptyInterval
    BY DEF NeverIdle
  <2>1. Typed /\ Devices # {} /\ Calm
    BY <1>1, OneClockCalm DEF ClockInv
  <2>2. Known /\ Together /\ Beats
    BY <1>1, <2>1 DEF BeatInv
  <2>3. /\ now \in Nat /\ OldestStart \in Nat /\ BootGrace \in Nat /\ GraceEnd \in Nat
        /\ BlockInterval \in Nat \ {0} /\ GraceEnd = OldestStart + BootGrace
        /\ First \in Nat /\ EmptyInterval \in Nat \ {0}
    BY <2>1, Numbers, ClockAssumption DEF GraceEnd
  <2>4. now >= GraceEnd /\ now >= OldestStart
    <3>1. now - OldestStart >= BootGrace
      BY DEF GraceOver
    <3> QED
      BY <2>3, <3>1
  <2>5. Slot(d) = Present /\ TipSlot(view[d]) = Top /\ IsBootstrap(Len(chain) + 1)
    BY <2>2, <2>1 DEF Slot, Present, Together, Top
  <2> DEFINE m == Max({Top, First})
  <2>6. Top \in Nat /\ m \in Nat /\ Top <= m /\ First <= m
    BY <2>1, <2>3, TopIs, LargerOfTwo
  <2> HIDE DEF m
  <2>7. Present \in Nat /\ \A s \in Nat : s <= Present <=> Begin(s) <= now
    BY <2>1, <2>4, Reached
  <2>8. Present <= m + EmptyInterval
    <3>1. CASE Present = 0
      BY <2>3, <2>6, <3>1
    <3>2. CASE Present # 0
      <4>1. PICK x \in Nat : Present = x + 1
        <5>1. Present - 1 \in Nat /\ Present = (Present - 1) + 1
          BY <2>7, <3>2
        <5> QED
          BY <5>1
      <4>2. PICK s \in Nat : s % EmptyInterval = 0 /\ s <= x /\ x < s + EmptyInterval
        BY LastDue
      <4>3. CASE s <= First
        BY <2>3, <2>6, <2>7, <4>1, <4>2, <4>3
      <4>4. CASE ~ (s <= First)
        <5>1. /\ Begin(s) \in Nat /\ s + 1 \in Nat
              /\ Begin(s + 1) = Begin(s) + BlockInterval
              /\ s <= First <=> Begin(s) <= GraceEnd
          BY <2>1, Numbers, Grace
        <5>2. Begin(s) >= GraceEnd
          BY <2>3, <4>4, <5>1
        <5>3. now > Begin(s)
          <6>1. s + 1 <= Present
            BY <4>1, <4>2
          <6>2. Begin(s + 1) <= now
            BY <2>7, <5>1, <6>1
          <6> QED
            BY <2>3, <5>1, <6>2
        <5>4. Top >= s
          BY <2>2, <2>5, <4>2, <5>2, <5>3 DEF Beats, Passed
        <5> QED
          BY <2>3, <2>6, <4>1, <4>2, <5>4
      <4> QED
        BY <4>3, <4>4
    <3> QED
      BY <3>1, <3>2
  <2> QED
    BY <2>5, <2>8 DEF m, First
<1>2. ClockInv /\ BeatInv /\ [Next]_vars => (ClockInv /\ BeatInv)'
  BY ClockNext, BeatNext
<1>3. ClockInv /\ BeatInv /\ SetupIs => NeverIdle
  BY <1>1
<1>4. SetupIs /\ [Next]_vars => SetupIs'
  BY SetupNext
<1>5. Init => ClockInv /\ BeatInv /\ SetupIs
  BY ClockInit, BeatInit, SetupInit
<1> QED
  BY <1>2, <1>3, <1>4, <1>5, PTL DEF Spec
-----------------------------------------------------------------------------
(* Tokens and stakes *)

Faucet(d) == <<d, "faucet">>
Stake(d) == <<d, "stake">>

\* What has been executed.
Done == Executed(Len(chain) + 1)

\* The turns of d after the grace period in which the bootstrap still lasts.
Early(s) == s + 1 < First + EpochLength
Own(d, s) == Turn(d, s) /\ Begin(s) >= GraceEnd /\ Early(s)

\* The last block of the bootstrap was made by whoever's turn its slot is: a device
\* finds the slot of its turn without one.
Reserved == Len(chain) > 0 /\ IsBootstrap(Len(chain)) => Passed(Top)

\* A pool holds what its device asked for, what was not executed and can be; what
\* is pending is there; and a device that made a block had asked for tokens in it.
Pools == \A d \in Devices :
    /\ pool[d] \subseteq {Faucet(d), Stake(d)} /\ pool[d] \cap Done = {}
    /\ Stake(d) \in pool[d] => Faucet(d) \in Done
    /\ pending[d] \subseteq pool[d] \cup Done
    /\ d \in Earned(Len(chain) + 1) => Faucet(d) \in Done

\* With its first turn a device has its tokens, with the second one its stake.
Progress == \A d \in Devices, s \in Nat :
    Own(d, s) /\ After(Begin(s), d) =>
        /\ Faucet(d) \in Done
        /\ \A r \in Nat : r < s /\ Own(d, r) => Stake(d) \in Done

StakeInv == Calm => Reserved /\ (IsBootstrap(Len(chain) + 1) => Pools) /\ Progress

LEMMA DoneGrows ==
    ASSUME Typed, NEW b, chain' = Append(chain, b), b \in Block
    PROVE  /\ Done' = Done \cup b.txs
           /\ (Earned(Len(chain) + 1))' = Earned(Len(chain) + 1) \cup {b.by}
<1>1. chain \in Seq(Block) /\ Len(chain) \in Nat
  BY LenProperties DEF Typed, Domains
<1>2. /\ Len(chain') = Len(chain) + 1 /\ chain'[Len(chain) + 1] = b
      /\ \A i \in 1..Len(chain) : chain'[i] = chain[i]
  BY <1>1, AppendProperties
<1> DEFINE n == Len(chain)
<1>3. /\ Done = UNION {chain[i].txs : i \in 1..n}
      /\ Earned(Len(chain) + 1) = {chain[i].by : i \in 1..n}
  <2>1. (Len(chain) + 1) - 1 = n
    BY <1>1
  <2> QED
    BY <2>1 DEF Done, Executed, Earned
<1>4. /\ Done' = UNION {chain'[i].txs : i \in 1..n + 1}
      /\ (Earned(Len(chain) + 1))' = {chain'[i].by : i \in 1..n + 1}
  <2>1. (Len(chain') + 1) - 1 = n + 1
    BY <1>1, <1>2
  <2> QED
    BY <2>1 DEF Done, Executed, Earned
<1>5. 1..n + 1 = (1..n) \cup {n + 1}
  BY <1>1
<1>6. \A i \in 1..n : chain'[i] = chain[i]
  BY <1>2
<1>7. chain'[n + 1] = b
  BY <1>2
<1> HIDE DEF n
<1>8. {chain'[i].txs : i \in 1..n + 1} = {chain[i].txs : i \in 1..n} \cup {b.txs}
  BY <1>5, <1>6, <1>7
<1>9. {chain'[i].by : i \in 1..n + 1} = {chain[i].by : i \in 1..n} \cup {b.by}
  BY <1>5, <1>6, <1>7
<1>10. \A S, x : UNION (S \cup {x}) = (UNION S) \cup x
  OBVIOUS
<1>11. Done' = Done \cup b.txs
  BY <1>3, <1>4, <1>8, <1>10
<1> QED
  BY <1>3, <1>4, <1>9, <1>11

\* Everything in such a pool succeeds.
LEMMA AllIncluded ==
    ASSUME NEW txs \in SUBSET Txs, txs \cap Done = {},
           \A e \in Devices : Stake(e) \in txs => Faucet(e) \in Done
    PROVE  Included(Len(chain) + 1, txs) = txs
<1> DEFINE n == Len(chain) + 1
           faucets == {t \in txs \ Executed(n) : t[2] = "faucet"}
           funded == {t[1] : t \in {t \in Executed(n) \cup faucets : t[2] = "faucet"}}
           stakes == {t \in txs \ Executed(n) : t[2] = "stake" /\ t[1] \in funded}
<1>1. Included(n, txs) = faucets \cup stakes
  BY DEF Included
<1>2. Done = Executed(n)
  BY DEF Done
<1>3. ASSUME NEW t \in txs
      PROVE  t \in faucets \cup stakes
  <2>1. t = <<t[1], t[2]>> /\ t[1] \in Devices /\ t[2] \in {"faucet", "stake"}
    BY DEF Txs
  <2>2. t \notin Executed(n)
    BY <1>2
  <2>3. CASE t[2] = "faucet"
    BY <2>2, <2>3
  <2>4. CASE t[2] = "stake"
    <3>1. Faucet(t[1]) \in Executed(n)
      BY <1>2, <2>1, <2>4 DEF Stake
    <3>2. Faucet(t[1])[1] = t[1] /\ Faucet(t[1])[2] = "faucet"
      BY DEF Faucet
    <3>3. t[1] \in funded
      BY <3>1, <3>2
    <3> QED
      BY <2>2, <2>4, <3>3
  <2> QED
    BY <2>1, <2>3, <2>4
<1>4. faucets \cup stakes \subseteq txs
  OBVIOUS
<1> QED
  BY <1>1, <1>3, <1>4

\* What autoBootstrap submits, by what was executed.
LEMMA OfferedIs ==
    ASSUME Together, NEW d \in Devices
    PROVE  /\ Offered(d) \subseteq {Faucet(d), Stake(d)}
           /\ Faucet(d) \in Offered(d) => Faucet(d) \notin Done
           /\ Stake(d) \in Offered(d) => Stake(d) \notin Done /\ Faucet(d) \in Done
           /\ IsBootstrap(Len(chain) + 1) =>
                /\ d \notin Earned(Len(chain) + 1)
                      => Faucet(d) \in Offered(d) \cup pending[d] \cup Done
                /\ Faucet(d) \in Done => Stake(d) \in Offered(d) \cup pending[d] \cup Done
           /\ Pending(d, Offered(d)) \subseteq pending[d] \cup Offered(d)
<1> DEFINE n == Len(chain) + 1
<1>1. view[d] = n
  BY DEF Together
<1>2. /\ d \in Funded(n) <=> Faucet(d) \in Done
      /\ d \in Staked(n) <=> Stake(d) \in Done
  BY DEF Funded, Staked, Done, Faucet, Stake
<1>3. AutoBootstrap(d) =
        IF Faucet(d) \in Done /\ Stake(d) \notin Done THEN {Stake(d)} \ pending[d]
        ELSE IF Faucet(d) \in Done \/ d \in Earned(n) THEN {}
        ELSE {Faucet(d)} \ pending[d]
  BY <1>1, <1>2 DEF AutoBootstrap, Stake, Faucet
<1>4. Faucet(d) # Stake(d)
  BY DEF Faucet, Stake
<1>5. Pending(d, Offered(d)) \subseteq pending[d] \cup Offered(d)
  BY DEF Pending
<1> DEFINE new == Offered(d)
           boots == IsBootstrap(n)
           has == Faucet(d) \in Done
           in == Stake(d) \in Done
           earned == d \in Earned(n)
<1>6. \/ new = {}
      \/ boots /\ has /\ ~ in /\ new = {Stake(d)} \ pending[d]
      \/ boots /\ ~ has /\ ~ earned /\ new = {Faucet(d)} \ pending[d]
  BY <1>3 DEF Offered
<1>7. boots /\ has /\ ~ in => new = {Stake(d)} \ pending[d]
  BY <1>3 DEF Offered
<1>8. boots /\ ~ has /\ ~ earned => new = {Faucet(d)} \ pending[d]
  BY <1>3 DEF Offered
<1>9. new \subseteq {Faucet(d), Stake(d)}
  <2> HIDE DEF new, boots, has, in, earned
  <2> QED
    BY <1>6
<1>10. Faucet(d) \in new => ~ has
  <2> HIDE DEF new, boots, has, in, earned
  <2> QED
    BY <1>4, <1>6
<1>11. Stake(d) \in new => ~ in /\ has
  <2> HIDE DEF new, boots, has, in, earned
  <2> QED
    BY <1>4, <1>6
<1>12. boots /\ ~ earned => Faucet(d) \in new \/ Faucet(d) \in pending[d] \/ has
  <2> HIDE DEF new, boots, has, in, earned
  <2> QED
    BY <1>8
<1>13. boots /\ has => Stake(d) \in new \/ Stake(d) \in pending[d] \/ in
  <2> HIDE DEF new, boots, has, in, earned
  <2> QED
    BY <1>7
<1> QED
  BY <1>5, <1>9, <1>10, <1>11, <1>12, <1>13, Zenon

\* A check after the grace period takes nothing from what was executed.
LEMMA DoneKept ==
    ASSUME Typed, NEW d \in Devices, Waits(d) \/ Skips(d) \/ Appends(d), Present \in Nat
    PROVE  /\ Done \subseteq Done' /\ Len(chain) \in Nat /\ Len(chain') \in Nat
           /\ Len(chain') >= Len(chain)
           /\ ~ Appends(d) => /\ chain' = chain /\ Done' = Done
                              /\ (Earned(Len(chain) + 1))' = Earned(Len(chain) + 1)
           /\ Appends(d) => /\ Done' = Done \cup NewBlock(d).txs
                            /\ (Earned(Len(chain) + 1))' = Earned(Len(chain) + 1) \cup {d}
<1>1. Len(chain) \in Nat
  BY TopIs
<1>2. CASE Appends(d)
  <2> DEFINE b == NewBlock(d)
             before == Stocked(d)[d]
  <2>1. before \in SUBSET Txs
    <3>1. Offered(d) \subseteq Txs
      BY DEF Offered, AutoBootstrap, Txs
    <3> QED
      BY <3>1 DEF Stocked, Submitted, Typed, Domains
  <2>2. b.txs \subseteq Txs
    <3>1. Included(Len(chain) + 1, before) \subseteq before
      BY DEF Included
    <3> QED
      BY <2>1, <3>1 DEF NewBlock
  <2>3. b \in Block /\ b.by = d
    <3>1. b = [slot |-> Present, by |-> d, txs |-> b.txs]
      BY DEF NewBlock
    <3> HIDE DEF b, before
    <3> QED
      BY <2>2, <3>1 DEF Block
  <2>4. chain' = Append(chain, b)
    BY <1>2 DEF Appends
  <2> HIDE DEF b
  <2>5. /\ Done' = Done \cup b.txs
        /\ (Earned(Len(chain) + 1))' = Earned(Len(chain) + 1) \cup {d}
    BY <2>3, <2>4, DoneGrows
  <2>6. Len(chain') = Len(chain) + 1
    BY <1>2, TopMoves
  <2> QED
    BY <1>1, <1>2, <2>5, <2>6 DEF b
<1>3. CASE ~ Appends(d)
  <2>1. chain' = chain
    BY <1>3 DEF Waits, Skips
  <2>2. Done' = Done /\ (Earned(Len(chain) + 1))' = Earned(Len(chain) + 1)
    BY <2>1 DEF Done, Executed, Earned
  <2> QED
    BY <1>1, <1>3, <2>1, <2>2
<1> QED
  BY <1>2, <1>3

\* What a check in the bootstrap does to the pools: the submission goes into the
\* own one, and a block takes everything out of it.
LEMMA PoolsMove ==
    ASSUME Typed, Together, Pools, NEW d \in Devices,
           Waits(d) \/ Skips(d) \/ Appends(d), Present \in Nat
    PROVE  /\ pool'[d] \cup Done' = pool[d] \cup Done \cup Offered(d)
           /\ pool'[d] \subseteq {Faucet(d), Stake(d)} /\ pool'[d] \cap Done' = {}
           /\ Stake(d) \in pool'[d] => Faucet(d) \in Done'
           /\ Done' \subseteq Done \cup {Faucet(d), Stake(d)}
           /\ Appends(d) \/ Skips(d) => pool'[d] = {}
           /\ \A e \in Devices \ {d} : pool'[e] = pool[e]
<1> DEFINE new == Offered(d)
           before == pool[d] \cup new
           own == {Faucet(d), Stake(d)}
<1>1. /\ new \subseteq own
      /\ Faucet(d) \in new => Faucet(d) \notin Done
      /\ Stake(d) \in new => Stake(d) \notin Done /\ Faucet(d) \in Done
  BY OfferedIs
<1>2. Stocked(d)[d] = before /\ (\A e \in Devices \ {d} : Stocked(d)[e] = pool[e])
      /\ DOMAIN Stocked(d) = Devices
  BY DEF Stocked, Submitted, Typed, Domains
<1>3. /\ pool[d] \subseteq own /\ pool[d] \cap Done = {}
      /\ Stake(d) \in pool[d] => Faucet(d) \in Done
  BY DEF Pools
<1> HIDE DEF new
<1>4. before \subseteq own /\ before \cap Done = {} /\ (Stake(d) \in before => Faucet(d) \in Done)
  <2>1. before \subseteq own
    BY <1>1, <1>3
  <2>2. before \cap Done = {}
    BY <1>1, <1>3
  <2>3. Stake(d) \in before => Faucet(d) \in Done
    <3> HIDE DEF own
    <3> QED
      BY <1>1, <1>3
  <2> QED
    BY <2>1, <2>2, <2>3
<1>5. before \in SUBSET Txs
  <2>1. Faucet(d) \in Txs /\ Stake(d) \in Txs
    BY DEF Txs, Faucet, Stake
  <2> HIDE DEF before
  <2> QED
    BY <1>4, <2>1
<1>6. \A e \in Devices : Stake(e) \in before => Faucet(e) \in Done
  <2> SUFFICES ASSUME NEW e \in Devices, Stake(e) \in before
               PROVE  Faucet(e) \in Done
    OBVIOUS
  <2>1. Stake(e) # Faucet(d) /\ (Stake(e) = Stake(d) => e = d)
    BY DEF Stake, Faucet
  <2> HIDE DEF before
  <2>2. Stake(e) \in own
    BY <1>4
  <2>3. e = d
    BY <2>1, <2>2
  <2> QED
    BY <1>4, <2>3
<1>7. CASE Appends(d)
  <2>1. NewBlock(d).txs = before
    <3>1. Included(Len(chain) + 1, before) = before
      <4> HIDE DEF before
      <4> QED
        BY <1>4, <1>5, <1>6, AllIncluded
    <3> HIDE DEF before
    <3> QED
      BY <1>2, <3>1 DEF NewBlock
  <2>2. Done' = Done \cup before
    <3> HIDE DEF before
    <3> QED
      BY <1>7, <2>1, DoneKept
  <2>3. pool'[d] = {} /\ \A e \in Devices \ {d} : pool'[e] = pool[e]
    <3>1. pool' = [Stocked(d) EXCEPT ![d] = {}]
      BY <1>7 DEF Appends
    <3> HIDE DEF before
    <3> QED
      BY <1>2, <3>1
  <2>4. pool'[d] \cup Done' = pool[d] \cup Done \cup new
    BY <2>2, <2>3
  <2>5. Done' \subseteq Done \cup own
    <3> HIDE DEF before
    <3> QED
      BY <1>4, <2>2
  <2> QED
    BY <2>3, <2>4, <2>5 DEF new
<1>8. CASE ~ Appends(d)
  <2>1. Done' = Done
    BY <1>8, DoneKept
  <2>2. pool' = Stocked(d) /\ (Skips(d) => before = {})
    BY <1>2, <1>8 DEF Waits, Skips
  <2>3. pool'[d] = before /\ \A e \in Devices \ {d} : pool'[e] = pool[e]
    BY <1>2, <2>2
  <2>4. pool'[d] \cup Done' = pool[d] \cup Done \cup new
    BY <2>1, <2>3
  <2> HIDE DEF before
  <2> QED
    BY <1>4, <1>8, <2>1, <2>2, <2>3, <2>4 DEF new
<1> QED
  BY <1>7, <1>8

\* A slot that begins when the first grace period is over is not that of genesis.
LEMMA NotGenesis ==
    ASSUME Typed, Calm, NEW s \in Nat, Begin(s) >= GraceEnd
    PROVE  s # 0 /\ Begin(s) \in Nat
<1>1. PICK d \in Devices : start[d] = OldestStart
  BY OldestIs DEF Calm
<1>2. start[d] - boot[d] + DiscoveryInterval <= BootGrace /\ boot[d] < start[d]
      /\ boot[d] \in Nat /\ start[d] \in Nat
  BY DEF Calm, InTime, Typed, TypeOK, Domains
<1>3. /\ BootGrace \in Nat /\ OldestStart \in Nat /\ DiscoveryInterval \in Nat
      /\ BlockInterval \in Nat /\ GraceEnd = OldestStart + BootGrace /\ Begin(s) \in Nat
  BY Numbers DEF Calm, GraceEnd
<1>4. GraceEnd > OldestStart
  BY <1>2, <1>3
<1>5. ASSUME s = 0
      PROVE  FALSE
  <2>1. Begin(s) = OldestStart
    BY <1>3, <1>5 DEF Begin
  <2> QED
    BY <1>3, <1>4, <2>1
<1> QED
  BY <1>3, <1>5

LEMMA StakeInit ==
    ASSUME Init
    PROVE  StakeInv
<1> SUFFICES ASSUME Calm
             PROVE  Reserved /\ Pools /\ Progress
  BY DEF StakeInv
<1>1. Typed /\ Devices # {}
  BY InitTyped DEF Calm
<1>2. pool = [d \in Devices |-> {}] /\ pending = [d \in Devices |-> {}] /\ now = 0
      /\ Len(chain) = 0 /\ checked = {}
  BY DEF Init
<1>3. Earned(Len(chain) + 1) = {}
  <2>1. 1..(Len(chain) + 1) - 1 = {}
    BY <1>2
  <2> QED
    BY <2>1 DEF Earned
<1>4. Reserved /\ Pools
  BY <1>2, <1>3 DEF Reserved, Pools
<1>5. \A t \in Nat, d \in Devices : ~ After(t, d)
  BY <1>2 DEF After
<1>6. \A s \in Nat : Begin(s) \in Nat
  BY <1>1, Numbers
<1>7. Progress
  BY <1>5, <1>6 DEF Progress
<1> QED
  BY <1>4, <1>7

\* Where nothing is produced or submitted and no turn comes or goes.
LEMMA StakeKept ==
    ASSUME Typed, Devices # {}, UNCHANGED <<start, chain, pool, pending>>,
           Reserved, IsBootstrap(Len(chain) + 1) => Pools, Progress,
           \A s \in Nat : Passed(s) => Passed(s)',
           \A t \in Nat, d \in Devices : t >= GraceEnd /\ After(t, d)' => After(t, d)
    PROVE  Reserved' /\ (IsBootstrap(Len(chain) + 1) => Pools)' /\ Progress'
<1>1. /\ GraceEnd' = GraceEnd /\ First' = First /\ \A s : Begin(s)' = Begin(s)
      /\ \A d, s : Turn(d, s)' <=> Turn(d, s)
  BY SameClock
<1>2. Done' = Done /\ Top' = Top /\ (Earned(Len(chain) + 1))' = Earned(Len(chain) + 1)
  BY DEF Done, Executed, Top, TipSlot, Earned
<1>3. Top \in Nat /\ \A s \in Nat : Begin(s) \in Nat
  BY TopIs, Numbers
<1>4. Reserved => Reserved'
  BY <1>2, <1>3 DEF Reserved, IsBootstrap
<1>5. Pools => Pools'
  BY <1>2, Zenon DEF Pools, Stake, Faucet
<1>6. \A d \in Devices, s \in Nat : Own(d, s)' <=> Own(d, s)
  BY <1>1 DEF Own, Early
<1>7. Progress'
  <2>1. ASSUME NEW d \in Devices, NEW s \in Nat, Own(d, s)', After(Begin(s), d)'
        PROVE  /\ Faucet(d) \in Done
               /\ \A r \in Nat : r < s /\ Own(d, r)' => Stake(d) \in Done
    <3>1. now' > Begin(s) \/ (now' = Begin(s) /\ d \in checked')
      BY <1>1, <2>1 DEF After
    <3>2. Own(d, s) /\ Begin(s) >= GraceEnd /\ Begin(s) \in Nat
      BY <1>3, <1>6, <2>1 DEF Own
    <3>3. After(Begin(s), d)
      BY <3>1, <3>2 DEF After
    <3> QED
      BY <1>6, <3>2, <3>3 DEF Progress
  <2> QED
    BY <1>2, <2>1 DEF Progress, Stake, Faucet
<1>8. IsBootstrap(Len(chain) + 1)' <=> IsBootstrap(Len(chain) + 1)
  BY DEF IsBootstrap
<1> QED
  BY <1>4, <1>5, <1>7, <1>8

LEMMA StakeTick ==
    ASSUME ClockInv, StakeInv, Tick
    PROVE  StakeInv'
<1> SUFFICES ASSUME Calm'
             PROVE  Reserved' /\ (IsBootstrap(Len(chain) + 1) => Pools)' /\ Progress'
  BY DEF StakeInv
<1>1. /\ now' = now + 1 /\ checked' = {}
      /\ UNCHANGED <<boot, start, chain, pool, pending, lost>>
  BY DEF Tick, clockVars
<1>2. Calm /\ Typed /\ Devices # {}
  BY <1>1, SameCalm DEF Calm, ClockInv
<1>3. Reserved /\ (IsBootstrap(Len(chain) + 1) => Pools) /\ Progress
  BY <1>2 DEF StakeInv
<1>4. now \in Nat /\ GraceEnd \in Nat /\ \A s \in Nat : Begin(s) \in Nat
  BY <1>2, Numbers
<1>5. ASSUME NEW s \in Nat, Passed(s)
      PROVE  Passed(s)'
  <2>1. Begin(s)' = Begin(s)
    BY <1>1, SameClock
  <2> QED
    BY <1>1, <1>4, <1>5, <2>1 DEF Passed
<1>6. ASSUME NEW t \in Nat, NEW d \in Devices, t >= GraceEnd, After(t, d)'
      PROVE  After(t, d)
  <2>1. now + 1 > t
    BY <1>1, <1>6 DEF After
  <2>2. CASE now = t
    BY <1>2, <1>6, <2>2, TickAfterAll DEF After
  <2>3. CASE now # t
    BY <1>4, <2>1, <2>3 DEF After
  <2> QED
    BY <2>2, <2>3
<1> QED
  BY <1>1, <1>2, <1>3, <1>5, <1>6, StakeKept

\* Where time stands still, and so does what was checked.
LEMMA StakeStill ==
    ASSUME ClockInv, StakeInv, UNCHANGED <<now, boot, start, checked, chain, pool, pending>>,
           lost => lost'
    PROVE  StakeInv'
<1> SUFFICES ASSUME Calm'
             PROVE  Reserved' /\ (IsBootstrap(Len(chain) + 1) => Pools)' /\ Progress'
  BY DEF StakeInv
<1>1. Calm /\ Typed /\ Devices # {}
  BY SameCalm DEF Calm, ClockInv
<1>2. Reserved /\ (IsBootstrap(Len(chain) + 1) => Pools) /\ Progress
  BY <1>1 DEF StakeInv
<1>3. \A t \in Nat, d \in Devices : After(t, d)' => After(t, d)
  BY DEF After
<1>4. \A s \in Nat : Passed(s) => Passed(s)'
  BY SameClock DEF Passed
<1> QED
  BY <1>1, <1>2, <1>3, <1>4, StakeKept

\* Two devices never have the same turn.
LEMMA OwnTurn ==
    ASSUME NEW d \in Devices, NEW e \in Devices, NEW s \in Nat, Turn(d, s), Turn(e, s)
    PROVE  d = e
<1>1. IsFiniteSet(Devices)
  BY ClockAssumption
<1>2. d \in Nat /\ e \in Nat /\ Devices \subseteq Nat
  BY ClockAssumption
<1>3. Place(d) = Place(e)
  BY DEF Turn
<1>4. ASSUME NEW x \in Devices, NEW y \in Devices, x < y
      PROVE  Place(x) # Place(y)
  <2> DEFINE L == {p \in Devices : p < x}
             M == {p \in Devices : p < y}
  <2>1. x \in Nat /\ y \in Nat
    BY <1>2
  <2>2. L \subseteq M /\ L # M
    <3>1. \A p \in Devices : p < x => p < y
      BY <1>2, <1>4, <2>1
    <3>2. x \in M /\ x \notin L
      BY <1>4, <2>1
    <3> QED
      BY <3>1, <3>2
  <2>3. M \subseteq Devices
    OBVIOUS
  <2> HIDE DEF L, M
  <2>4. IsFiniteSet(M)
    BY <1>1, <2>3, FS_Subset
  <2>5. Cardinality(L) < Cardinality(M)
    <3>1. /\ Cardinality(L) <= Cardinality(M)
          /\ Cardinality(L) = Cardinality(M) => L = M
      BY <2>2, <2>4, FS_Subset
    <3>2. Cardinality(L) \in Nat /\ Cardinality(M) \in Nat
      BY <2>2, <2>4, FS_Subset, FS_CardinalityType
    <3> QED
      BY <2>2, <3>1, <3>2
  <2>6. Cardinality(L) \in Nat /\ Cardinality(M) \in Nat
    BY <2>2, <2>4, FS_Subset, FS_CardinalityType
  <2> QED
    BY <2>5, <2>6 DEF Place, L, M
<1>5. d < e \/ e < d \/ d = e
  BY <1>2
<1> QED
  BY <1>3, <1>4, <1>5

\* In its turn a device makes a block, and everything it asked for is in it.
LEMMA TurnTaken ==
    ASSUME ClockInv, BeatInv, StakeInv, Calm, NEW d \in Devices, d \notin checked,
           Waits(d) \/ Skips(d) \/ Appends(d),
           NEW s \in Nat, Own(d, s), now = Begin(s)
    PROVE  /\ IsBootstrap(Len(chain) + 1)
           /\ Skips(d) \/ Appends(d)
<1>1. Typed /\ Devices # {} /\ SlotsInv /\ StakeInv
  BY DEF ClockInv, Calm, BeatInv
<1>2. /\ now \in Nat /\ OldestStart \in Nat /\ BootGrace \in Nat
      /\ GraceEnd = OldestStart + BootGrace
      /\ First \in Nat /\ EpochLength \in Nat /\ BlockInterval \in Nat \ {0}
  BY <1>1, Numbers, ClockAssumption DEF GraceEnd
<1>3. Begin(s) >= GraceEnd /\ Turn(d, s) /\ s + 1 < First + EpochLength
  BY DEF Own, Early
<1>4. s # 0
  BY <1>1, <1>3, NotGenesis
<1>5. now >= GraceEnd /\ now >= OldestStart
  BY <1>2, <1>3
<1>6. Present = s
  <2>1. Present \in Nat /\ \A t \in Nat : t <= Present <=> Begin(t) <= now
    BY <1>1, <1>5, Reached
  <2>2. Begin(s + 1) = now + BlockInterval /\ s + 1 \in Nat
    BY <1>1, Grace
  <2>3. s <= Present /\ ~ (s + 1 <= Present)
    BY <1>2, <2>1, <2>2
  <2> QED
    BY <2>1, <2>3
<1>7. /\ Top \in Nat /\ Len(chain) \in Nat /\ (Len(chain) = 0 => Top = 0)
      /\ Top <= s /\ (Len(chain) > 0 => First + Len(chain) <= Top + 1)
  BY <1>1, <1>5, <1>6, TopIs DEF SlotsInv
<1>8. Len(chain) <= Top
  BY <1>1, <1>5 DEF SlotsInv
<1>9. First <= s
  <2>1. Begin(First) <= GraceEnd
    BY <1>1, <1>2, Grace
  <2>2. Present \in Nat /\ \A t \in Nat : t <= Present <=> Begin(t) <= now
    BY <1>1, <1>5, Reached
  <2>3. Begin(First) \in Nat /\ GraceEnd \in Nat
    BY <1>1, <1>2, Numbers
  <2>4. Begin(First) <= now
    BY <1>2, <1>5, <2>1, <2>3
  <2> QED
    BY <1>2, <1>6, <2>2, <2>4
<1>10. Top = s \/ IsBootstrap(Len(chain) + 1)
  <2>1. CASE Len(chain) = 0
    BY <1>2, <1>3, <1>9, <2>1 DEF IsBootstrap
  <2>2. CASE Len(chain) # 0 /\ Top # s
    <3>1. First + Len(chain) <= s
      BY <1>2, <1>7, <2>2
    <3> QED
      BY <1>2, <1>3, <1>7, <3>1 DEF IsBootstrap
  <2> QED
    BY <2>1, <2>2
<1>11. Top # s
  <2>1. CASE Len(chain) = 0
    BY <1>4, <1>7, <2>1
  <2>2. CASE Len(chain) # 0
    <3> SUFFICES ASSUME Top = s
                 PROVE  FALSE
      OBVIOUS
    <3>1. IsBootstrap(Len(chain))
      <4>1. First + Len(chain) <= s + 1
        BY <1>2, <1>7, <2>2
      <4> QED
        BY <1>2, <1>3, <1>7, <4>1 DEF IsBootstrap
    <3>2. Passed(s)
      BY <1>7, <2>2, <3>1 DEF StakeInv, Reserved
    <3>3. ~ (now > Begin(s))
      BY <1>2
    <3>4. PICK e \in checked : Turn(e, s)
      BY <3>2, <3>3 DEF Passed
    <3>5. e \in Devices
      BY <1>1 DEF Typed, TypeOK
    <3> QED
      BY <1>3, <3>4, <3>5, OwnTurn
  <2> QED
    BY <2>1, <2>2
<1>12. IsBootstrap(Len(chain) + 1)
  BY <1>10, <1>11
<1>13. Skips(d) \/ Appends(d)
  BY <1>3, <1>11, <1>12, Served
<1> QED
  BY <1>12, <1>13

LEMMA StakeCheck ==
    ASSUME ClockInv, BeatInv, StakeInv, NEW d \in Devices, Check(d)
    PROVE  StakeInv'
<1> SUFFICES ASSUME Calm'
             PROVE  Reserved' /\ (IsBootstrap(Len(chain) + 1) => Pools)' /\ Progress'
  BY DEF StakeInv
<1>1. /\ Calm /\ checked' = checked \cup {d} /\ d \notin checked
      /\ UNCHANGED <<now, boot, start, genesis, peers, announced>>
      /\ now < GraceEnd => UNCHANGED <<lastSlot, chain, view, pool, pending>>
      /\ now >= GraceEnd => /\ pending' = [pending EXCEPT ![d] = Pending(d, Offered(d))]
                            /\ Waits(d) \/ Skips(d) \/ Appends(d)
  BY CalmChecks
<1>2. /\ Typed /\ Devices # {} /\ Known /\ Together /\ SlotsInv
      /\ Reserved /\ (IsBootstrap(Len(chain) + 1) => Pools) /\ Progress
  BY <1>1 DEF Calm, ClockInv, BeatInv, StakeInv
<1>3. /\ now \in Nat /\ GraceEnd \in Nat /\ OldestStart \in Nat /\ BootGrace \in Nat
      /\ GraceEnd = OldestStart + BootGrace /\ \A s \in Nat : Begin(s) \in Nat
  BY <1>2, Numbers DEF GraceEnd
<1>4. /\ GraceEnd' = GraceEnd /\ First' = First /\ Present' = Present
      /\ \A s : Begin(s)' = Begin(s)
      /\ \A e, s : Turn(e, s)' <=> Turn(e, s)
  BY <1>1, SameClock
<1>5. ASSUME NEW s \in Nat, Passed(s)
      PROVE  Passed(s)'
  BY <1>1, <1>4, <1>5 DEF Passed
<1>6. CASE now < GraceEnd
  <2>1. \A t \in Nat, e \in Devices : t >= GraceEnd /\ After(t, e)' => After(t, e)
    BY <1>1, <1>3, <1>6 DEF After
  <2> QED
    BY <1>1, <1>2, <1>5, <1>6, <2>1, StakeKept
<1>7. CASE now >= GraceEnd
  <2>1. Waits(d) \/ Skips(d) \/ Appends(d)
    BY <1>1, <1>7
  <2>2. Present \in Nat /\ Begin(Present) <= now
    <3>1. Present \in Nat /\ (Present <= Present <=> Begin(Present) <= now)
      BY <1>2, <1>3, <1>7, Reached
    <3> QED
      BY <3>1
  <2>3. /\ Done \subseteq Done' /\ Len(chain) \in Nat /\ Len(chain') \in Nat
        /\ Len(chain') >= Len(chain)
        /\ ~ Appends(d) => /\ chain' = chain /\ Done' = Done
                           /\ (Earned(Len(chain) + 1))' = Earned(Len(chain) + 1)
        /\ Appends(d) => (Earned(Len(chain) + 1))' = Earned(Len(chain) + 1) \cup {d}
    BY <1>2, <2>1, <2>2, DoneKept
  <2>4. Reserved'
    <3>1. CASE Appends(d)
      <4> SUFFICES ASSUME IsBootstrap(Len(chain'))
                   PROVE  Passed(Top)'
        BY DEF Reserved, IsBootstrap
      <4>1. Top' = Present /\ Len(chain') = Len(chain) + 1
        BY <1>2, <3>1, TopMoves
      <4>2. Turn(d, Present)
        <5>1. IsBootstrap(view[d]) /\ ShouldProduce(d)
          BY <1>2, <3>1, <4>1 DEF Together, Appends
        <5>2. BootstrapTurn(d)
          BY <5>1 DEF ShouldProduce
        <5> QED
          BY <1>1, <1>2, <1>7, <5>2, Regime
      <4>3. Passed(Present)'
        <5>1. now > Begin(Present) \/ now = Begin(Present)
          BY <1>3, <2>2
        <5> QED
          BY <1>1, <1>4, <4>2, <5>1 DEF Passed
      <4> QED
        BY <1>4, <4>1, <4>3
    <3>2. CASE ~ Appends(d)
      <4>1. chain' = chain /\ Top' = Top /\ Top \in Nat
        BY <1>2, <2>1, <3>2, TopMoves, TopIs
      <4> QED
        BY <1>2, <1>5, <4>1 DEF Reserved, IsBootstrap
    <3> QED
      BY <3>1, <3>2
  <2> DEFINE new == Offered(d)
  <2>5. ASSUME IsBootstrap(Len(chain) + 1)
        PROVE  /\ Pools
               /\ pool'[d] \cup Done' = pool[d] \cup Done \cup new
               /\ pool'[d] \subseteq {Faucet(d), Stake(d)} /\ pool'[d] \cap Done' = {}
               /\ Stake(d) \in pool'[d] => Faucet(d) \in Done'
               /\ Done' \subseteq Done \cup {Faucet(d), Stake(d)}
               /\ Appends(d) \/ Skips(d) => pool'[d] = {}
               /\ \A e \in Devices \ {d} : pool'[e] = pool[e]
    BY <1>2, <2>1, <2>2, <2>5, PoolsMove
  <2>6. /\ IsBootstrap(Len(chain) + 1) =>
             /\ d \notin Earned(Len(chain) + 1) => Faucet(d) \in new \cup pending[d] \cup Done
             /\ Faucet(d) \in Done => Stake(d) \in new \cup pending[d] \cup Done
        /\ Pending(d, new) \subseteq pending[d] \cup new
    BY <1>2, OfferedIs
  <2> HIDE DEF new
  <2>7. ASSUME IsBootstrap(Len(chain) + 1)
        PROVE  /\ Faucet(d) \in pool'[d] \cup Done'
               /\ Faucet(d) \in Done => Stake(d) \in pool'[d] \cup Done'
               /\ pending'[d] \subseteq pool'[d] \cup Done'
    <3>1. /\ pending[d] \subseteq pool[d] \cup Done
          /\ d \in Earned(Len(chain) + 1) => Faucet(d) \in Done
      BY <2>5, <2>7 DEF Pools
    <3>2. pool'[d] \cup Done' = pool[d] \cup Done \cup new
      BY <2>5, <2>7
    <3>3. pending'[d] \subseteq pending[d] \cup new
      BY <1>1, <1>2, <1>7, <2>6 DEF new, Typed, Domains
    <3> QED
      BY <2>6, <2>7, <3>1, <3>2, <3>3
  <2>8. ASSUME IsBootstrap(Len(chain') + 1)
        PROVE  Pools'
    <3>1. IsBootstrap(Len(chain) + 1)
      BY <2>3, <2>8, ClockAssumption DEF IsBootstrap
    <3> DEFINE Good(e) ==
                 /\ pool'[e] \subseteq {Faucet(e), Stake(e)} /\ pool'[e] \cap Done' = {}
                 /\ Stake(e) \in pool'[e] => Faucet(e) \in Done'
                 /\ pending'[e] \subseteq pool'[e] \cup Done'
                 /\ e \in (Earned(Len(chain) + 1))' => Faucet(e) \in Done'
    <3>2. Good(d)
      <4>1. d \in (Earned(Len(chain) + 1))' => Faucet(d) \in Done'
        <5>1. CASE Appends(d)
          BY <2>5, <2>7, <3>1, <5>1
        <5>2. CASE ~ Appends(d)
          BY <2>3, <2>5, <3>1, <5>2 DEF Pools
        <5> QED
          BY <5>1, <5>2
      <4> QED
        BY <2>5, <2>7, <3>1, <4>1
    <3>3. ASSUME NEW e \in Devices, e # d
          PROVE  Good(e)
      <4>1. /\ pool[e] \subseteq {Faucet(e), Stake(e)} /\ pool[e] \cap Done = {}
            /\ Stake(e) \in pool[e] => Faucet(e) \in Done
            /\ pending[e] \subseteq pool[e] \cup Done
            /\ e \in Earned(Len(chain) + 1) => Faucet(e) \in Done
        BY <2>5, <3>1 DEF Pools
      <4>2. pool'[e] = pool[e] /\ pending'[e] = pending[e]
        BY <1>1, <1>2, <1>7, <2>5, <3>1, <3>3 DEF Typed, Domains
      <4>3. {Faucet(e), Stake(e)} \cap {Faucet(d), Stake(d)} = {}
        BY <3>3 DEF Faucet, Stake
      <4>4. Done \subseteq Done' /\ Done' \subseteq Done \cup {Faucet(d), Stake(d)}
        BY <2>3, <2>5, <3>1
      <4>5. pool'[e] \cap Done' = {}
        BY <4>1, <4>2, <4>3, <4>4
      <4>6. e \in (Earned(Len(chain) + 1))' => e \in Earned(Len(chain) + 1)
        BY <2>3, <3>3
      <4> QED
        BY <4>1, <4>2, <4>4, <4>5, <4>6
    <3> HIDE DEF Good
    <3>4. \A e \in Devices : Good(e)
      BY <3>2, <3>3
    <3> QED
      BY <3>4, Zenon DEF Good, Pools, Faucet, Stake
  <2>9. ASSUME NEW e \in Devices, NEW s \in Nat, Own(e, s), After(Begin(s), e)'
        PROVE  /\ Faucet(e) \in Done'
               /\ \A r \in Nat : r < s /\ Own(e, r) => Stake(e) \in Done'
    <3>1. CASE After(Begin(s), e)
      BY <1>2, <2>3, <2>9, <3>1 DEF Progress
    <3>2. CASE ~ After(Begin(s), e)
      <4>1. now = Begin(s) /\ e = d
        BY <1>1, <1>4, <2>9, <3>2 DEF After
      <4>2. IsBootstrap(Len(chain) + 1) /\ (Skips(d) \/ Appends(d))
        BY <1>1, <2>1, <2>9, <4>1, TurnTaken
      <4>3. pool'[d] = {}
        BY <2>5, <4>2
      <4>4. Faucet(d) \in Done'
        BY <2>7, <4>2, <4>3
      <4>5. ASSUME NEW r \in Nat, r < s, Own(d, r)
            PROVE  Stake(d) \in Done'
        <5>1. Begin(r) < now
          <6>1. r * BlockInterval + BlockInterval <= s * BlockInterval
            BY <4>5, ClockAssumption, Ahead
          <6>2. r * BlockInterval \in Nat /\ s * BlockInterval \in Nat
                /\ BlockInterval \in Nat \ {0}
            BY ClockAssumption
          <6> QED
            BY <1>3, <4>1, <6>1, <6>2 DEF Begin
        <5>2. After(Begin(r), d)
          BY <1>3, <5>1 DEF After
        <5>3. Faucet(d) \in Done
          BY <1>2, <4>5, <5>2 DEF Progress
        <5> QED
          BY <2>7, <4>2, <4>3, <5>3
      <4> QED
        BY <4>1, <4>4, <4>5
    <3> QED
      BY <3>1, <3>2
  <2>10. Progress'
    <3>1. \A e \in Devices, s \in Nat : Own(e, s)' <=> Own(e, s)
      BY <1>4 DEF Own, Early
    <3> QED
      BY <2>9, <3>1 DEF Progress, Stake, Faucet
  <2>11. (IsBootstrap(Len(chain) + 1) => Pools)'
    BY <2>8 DEF IsBootstrap
  <2> QED
    BY <2>4, <2>10, <2>11
<1> QED
  BY <1>3, <1>6, <1>7

LEMMA StakeNext ==
    ASSUME ClockInv, BeatInv, StakeInv, [Next]_vars
    PROVE  StakeInv'
<1>1. CASE UNCHANGED vars
  BY <1>1, StakeStill DEF vars, clockVars
<1>2. ASSUME NEW d \in Devices, TrySync(d)
      PROVE  StakeInv'
  BY <1>2, StakeStill DEF TrySync, clockVars
<1>3. ASSUME NEW p \in Devices, Announce(p)
      PROVE  StakeInv'
  <2>1. /\ UNCHANGED <<now, boot, start, checked, chain, pool, pending>>
        /\ lost => lost'
    BY <1>3 DEF Announce, clockVars
  <2> QED
    BY <2>1, StakeStill
<1> QED
  BY <1>1, <1>2, <1>3, StakeTick, StakeCheck DEF Next

\* Among as many slots in a row as there are devices is one of each device's turns,
\* and another one as many slots later.
LEMMA TurnsComeRound ==
    ASSUME NEW d \in Devices, NEW f \in Nat
    PROVE  /\ Cardinality(Devices) \in Nat \ {0}
           /\ \E r \in Nat : /\ f <= r /\ r < f + Cardinality(Devices)
                             /\ Turn(d, r) /\ Turn(d, r + Cardinality(Devices))
<1> DEFINE n == Cardinality(Devices)
           p == Place(d)
<1>1. IsFiniteSet(Devices)
  BY ClockAssumption
<1>2. n \in Nat \ {0}
  BY <1>1, FS_CardinalityType, FS_EmptySet
<1>3. p \in Nat /\ p < n
  <2> DEFINE L == {q \in Devices : q < d}
  <2>1. d \in Nat /\ Devices \subseteq Nat
    BY ClockAssumption
  <2>2. L \subseteq Devices /\ d \notin L
    BY <2>1
  <2> HIDE DEF L
  <2>3. L # Devices
    BY <2>2
  <2>4. /\ Cardinality(L) <= Cardinality(Devices)
        /\ Cardinality(L) = Cardinality(Devices) => L = Devices
        /\ IsFiniteSet(L)
    BY <1>1, <2>2, FS_Subset
  <2>5. Cardinality(L) \in Nat
    BY <2>4, FS_CardinalityType
  <2>6. Cardinality(L) \in Nat /\ Cardinality(L) < n
    BY <1>2, <2>3, <2>4, <2>5
  <2> QED
    BY <2>6 DEF L, Place
<1>4. \A s : Turn(d, s) <=> s % n = p
  BY DEF Turn
<1> HIDE DEF n, p
<1> DEFINE q == f \div n
<1>5. q \in Nat /\ q * n <= f /\ f < q * n + n /\ q * n \in Nat
  BY <1>2, Quotient
<1>6. ASSUME NEW k \in Nat
      PROVE  (k * n + p) % n = p /\ k * n \in Nat
  BY <1>2, <1>3
<1>7. (q + 1) * n = q * n + n /\ (q + 2) * n = q * n + n + n
  BY <1>2, <1>5
<1> DEFINE a == q * n + p
<1>8. a \in Nat /\ a % n = p /\ (a + n) % n = p /\ (a + n + n) % n = p
  <2>1. (q * n + p) % n = p
    BY <1>5, <1>6
  <2>2. ((q + 1) * n + p) % n = p
    <3>1. q + 1 \in Nat
      BY <1>5
    <3> HIDE DEF q
    <3> QED
      BY <1>6, <3>1
  <2>3. ((q + 2) * n + p) % n = p
    <3>1. q + 2 \in Nat
      BY <1>5
    <3> HIDE DEF q
    <3> QED
      BY <1>6, <3>1
  <2> DEFINE c == q * n
  <2>4. c \in Nat /\ (q + 1) * n = c + n /\ (q + 2) * n = c + n + n
    BY <1>5, <1>7
  <2>5. c + n + p = c + p + n /\ c + n + n + p = c + p + n + n
    <3> HIDE DEF c
    <3> QED
      BY <1>2, <1>3, <2>4
  <2>6. (c + p) % n = p /\ (c + p + n) % n = p /\ (c + p + n + n) % n = p
    BY <2>1, <2>2, <2>3, <2>4, <2>5
  <2>7. c + p \in Nat
    <3> HIDE DEF c
    <3> QED
      BY <1>3, <2>4
  <2> QED
    BY <2>6, <2>7
<1>9. (f <= a /\ a < f + n) \/ (f <= a + n /\ a + n < f + n)
  <2> DEFINE c == q * n
  <2>1. c \in Nat /\ c <= f /\ f < c + n
    BY <1>5
  <2> HIDE DEF c
  <2>2. (f <= c + p /\ c + p < f + n) \/ (f <= c + p + n /\ c + p + n < f + n)
    BY <1>2, <1>3, <2>1
  <2> QED
    BY <2>2 DEF c
<1> HIDE DEF a
<1>10. \E r \in Nat : f <= r /\ r < f + n /\ r % n = p /\ (r + n) % n = p
  <2>1. CASE f <= a /\ a < f + n
    BY <1>8, <2>1
  <2>2. CASE f <= a + n /\ a + n < f + n
    <3>1. a + n \in Nat
      BY <1>2, <1>8
    <3> QED
      BY <1>8, <2>2, <3>1
  <2> QED
    BY <1>9, <2>1, <2>2
<1> QED
  BY <1>2, <1>4, <1>10 DEF n

\* The first slot that begins when the grace period is over.
LEMMA FirstSlot ==
    ASSUME Typed, Devices # {}
    PROVE  \E f \in {First, First + 1} :
              Begin(f) >= GraceEnd /\ Begin(f) < GraceEnd + BlockInterval
<1>1. /\ First \in Nat /\ First + 1 \in Nat /\ GraceEnd \in Nat /\ BlockInterval \in Nat \ {0}
      /\ Begin(First) \in Nat /\ Begin(First + 1) \in Nat
  BY Numbers
<1>2. Begin(First) <= GraceEnd
  BY <1>1, Grace
<1>3. ~ (Begin(First + 1) <= GraceEnd)
  <2>1. ~ (First + 1 <= First)
    BY <1>1
  <2> QED
    BY <1>1, <2>1, Grace
<1>4. Begin(First + 1) = Begin(First) + BlockInterval
  BY <1>1, Grace
<1>5. CASE Begin(First) = GraceEnd
  BY <1>1, <1>5
<1>6. CASE Begin(First) # GraceEnd
  BY <1>1, <1>2, <1>3, <1>4, <1>6
<1> QED
  BY <1>5, <1>6

\* Its first turn after the grace period gives a device its tokens, the next one
\* executes the stake that autoBootstrap submits at once: nothing but its own
\* blocks can, and the pending flags never hold back what was not asked for.  With
\* the EPOCH_LENGTH of 20 the bootstrap is long enough for nine devices.
THEOREM StakesComeInTime ==
    ASSUME QuickSetup, EpochLength >= 2 * Cardinality(Devices) + 2
    PROVE  Spec => []StakedInTime
<1>1. ASSUME ClockInv, BeatInv, StakeInv, SetupIs
      PROVE  StakedInTime
  <2> DEFINE n == Cardinality(Devices)
  <2> SUFFICES ASSUME NEW d \in Devices, ~ lost, \A e \in Devices : genesis[e] = OldestStart,
                      now - start[d] >= BootGrace + 2 * n * BlockInterval
               PROVE  d \in Staked(view[d])
    BY DEF StakedInTime
  <2>1. Typed /\ Devices # {} /\ Calm
    BY <1>1, OneClockCalm DEF ClockInv
  <2>2. Together /\ Progress
    BY <1>1, <2>1 DEF BeatInv, StakeInv
  <2>3. /\ now \in Nat /\ OldestStart \in Nat /\ BootGrace \in Nat
        /\ BlockInterval \in Nat \ {0} /\ First \in Nat /\ EpochLength \in Nat
        /\ GraceEnd = OldestStart + BootGrace
    BY <2>1, Numbers, ClockAssumption DEF GraceEnd
  <2>4. start[d] \in Nat /\ OldestStart <= start[d]
    BY <2>1, OldestIs DEF Typed, Domains
  <2>5. PICK f \in {First, First + 1} :
          Begin(f) >= GraceEnd /\ Begin(f) < GraceEnd + BlockInterval
    BY <2>1, FirstSlot
  <2>6. f \in Nat /\ f <= First + 1
    BY <2>3, <2>5
  <2>7. n \in Nat \ {0}
    BY <2>6, TurnsComeRound
  <2>8. PICK r \in Nat : f <= r /\ r < f + n /\ Turn(d, r) /\ Turn(d, r + n)
    BY <2>6, TurnsComeRound
  <2>9. EpochLength >= 2 * n + 2
    OBVIOUS
  <2> HIDE DEF n
  <2> DEFINE s == r + n
             k == 2 * n - 1
  <2>10. s \in Nat /\ k \in Nat /\ s <= f + k /\ r < s
    BY <2>6, <2>7, <2>8
  <2>11. Early(s) /\ Early(r)
    BY <2>3, <2>6, <2>7, <2>8, <2>9, <2>10 DEF Early
  <2>12. \A t \in Nat : f <= t => Begin(t) >= GraceEnd
    <3> SUFFICES ASSUME NEW t \in Nat, f < t
                 PROVE  Begin(t) >= GraceEnd
      BY <2>5, <2>6
    <3>1. f * BlockInterval + BlockInterval <= t * BlockInterval
      BY <2>3, <2>6, Ahead
    <3>2. f * BlockInterval \in Nat /\ t * BlockInterval \in Nat
      BY <2>3, <2>6
    <3> QED
      BY <2>3, <2>5, <3>1, <3>2 DEF Begin
  <2>13. Own(d, s) /\ Own(d, r)
    BY <2>6, <2>8, <2>10, <2>11, <2>12 DEF Own
  <2>14. now > Begin(s)
    <3>1. now >= GraceEnd + 2 * n * BlockInterval
      <4>1. 2 * n * BlockInterval \in Nat
        BY <2>3, <2>7
      <4> QED
        BY <2>3, <2>4, <4>1 DEF n
    <3>2. 2 * n * BlockInterval = k * BlockInterval + BlockInterval /\ k * BlockInterval \in Nat
      <4>1. 2 * n = k + 1
        BY <2>7
      <4>2. (k + 1) * BlockInterval = k * BlockInterval + BlockInterval
            /\ k * BlockInterval \in Nat
        <5> HIDE DEF k
        <5> QED
          BY <2>3, <2>10
      <4> QED
        BY <4>1, <4>2
    <3>3. s * BlockInterval <= f * BlockInterval + k * BlockInterval
      <4> HIDE DEF s, k
      <4>1. f + k \in Nat /\ (f + k) * BlockInterval = f * BlockInterval + k * BlockInterval
        BY <2>3, <2>6, <2>10
      <4>2. s = f + k \/ s < f + k
        BY <2>6, <2>10
      <4>3. s * BlockInterval \in Nat /\ (f + k) * BlockInterval \in Nat
        BY <2>3, <2>6, <2>10
      <4>4. CASE s = f + k
        BY <4>1, <4>3, <4>4
      <4>5. CASE s < f + k
        <5>1. s * BlockInterval + BlockInterval <= (f + k) * BlockInterval
          BY <2>3, <2>10, <4>1, <4>5, Ahead
        <5> QED
          BY <2>3, <4>1, <4>3, <5>1
      <4> QED
        BY <4>2, <4>4, <4>5
    <3>4. f * BlockInterval \in Nat /\ s * BlockInterval \in Nat
      BY <2>3, <2>6, <2>10
    <3> DEFINE fb == f * BlockInterval
               sb == s * BlockInterval
               kb == k * BlockInterval
    <3>5. OldestStart + fb < GraceEnd + BlockInterval
      BY <2>5 DEF Begin
    <3>6. now >= GraceEnd + (kb + BlockInterval)
      BY <3>1, <3>2
    <3>7. Begin(s) = OldestStart + sb
      BY DEF Begin
    <3>8. GraceEnd \in Nat
      BY <2>3
    <3> HIDE DEF fb, sb, kb, s
    <3>9. sb <= fb + kb /\ sb \in Nat /\ fb \in Nat /\ kb \in Nat
      BY <3>2, <3>3, <3>4 DEF fb, sb, kb
    <3> QED
      BY <2>3, <3>5, <3>6, <3>7, <3>8, <3>9
  <2>15. Stake(d) \in Done
    BY <2>2, <2>10, <2>13, <2>14 DEF Progress, After
  <2> QED
    BY <2>2, <2>15 DEF Together, Staked, Stake, Done
<1>2. ClockInv /\ BeatInv /\ StakeInv /\ [Next]_vars => (ClockInv /\ BeatInv /\ StakeInv)'
  BY ClockNext, BeatNext, StakeNext
<1>3. ClockInv /\ BeatInv /\ StakeInv /\ SetupIs => StakedInTime
  BY <1>1
<1>4. SetupIs /\ [Next]_vars => SetupIs'
  BY SetupNext
<1>5. Init => ClockInv /\ BeatInv /\ StakeInv /\ SetupIs
  BY ClockInit, BeatInit, StakeInit, SetupInit
<1> QED
  BY <1>2, <1>3, <1>4, <1>5, PTL DEF Spec
=============================================================================
