--------------------------- MODULE ChainSyncProofs ---------------------------
(***************************************************************************)
(* Proofs of the safety properties of ChainSync, for any devices, labels,  *)
(* faults and bounds.                                                      *)
(***************************************************************************)
EXTENDS ChainSync, SequenceTheorems, TLAPS

(* Histories *)

\* Hashes is the set of the histories that are not too long.
LEMMA HashesAre ==
    \A h : h \in Hashes <=> h \in Seq(Labels) /\ Len(h) < MaxHeight
<1>1. ASSUME NEW h \in Hashes
      PROVE  h \in Seq(Labels) /\ Len(h) < MaxHeight
  <2>1. PICK m \in 0..MaxHeight - 1 : h \in [1..m -> Labels]
    BY <1>1 DEF Hashes, BoundedSeq, SeqOf
  <2> QED
    BY <2>1, SyncAssumption
<1>2. ASSUME NEW h \in Seq(Labels), Len(h) < MaxHeight
      PROVE  h \in Hashes
  <2>1. Len(h) \in 0..MaxHeight - 1 /\ h \in [1..Len(h) -> Labels]
    BY <1>2, LenProperties, SyncAssumption
  <2> QED
    BY <2>1 DEF Hashes, BoundedSeq, SeqOf
<1> QED
  BY <1>1, <1>2

\* The beginning of a history.
LEMMA Beginning ==
    ASSUME NEW h \in Hashes, NEW i \in 0..Len(h)
    PROVE  /\ SubSeq(h, 1, i) \in Hashes
           /\ Len(SubSeq(h, 1, i)) = i
           /\ \A j \in 1..i : SubSeq(h, 1, i)[j] = h[j]
<1>1. h \in Seq(Labels) /\ Len(h) \in Nat /\ Len(h) < MaxHeight
  BY HashesAre, LenProperties
<1>2. /\ SubSeq(h, 1, i) \in Seq(Labels)
      /\ Len(SubSeq(h, 1, i)) = i
      /\ \A j \in 1..i : SubSeq(h, 1, i)[j] = h[j]
  BY <1>1, SubSeqProperties
<1>3. Len(SubSeq(h, 1, i)) < MaxHeight
  BY <1>1, <1>2, SyncAssumption
<1>4. SubSeq(h, 1, i) \in Hashes
  BY <1>2, <1>3, HashesAre
<1> QED
  BY <1>2, <1>4

\* The beginnings of a history are prefixes of each other.
LEMMA Beginnings ==
    ASSUME NEW h \in Hashes, NEW n \in 0..Len(h), NEW m \in 0..n
    PROVE  /\ SubSeq(SubSeq(h, 1, n), 1, m) = SubSeq(h, 1, m)
           /\ IsPrefix(SubSeq(h, 1, m), SubSeq(h, 1, n))
<1> DEFINE k == SubSeq(h, 1, n)
           j == SubSeq(h, 1, m)
<1>1. n \in Nat /\ m \in 0..Len(h) /\ Len(h) \in Nat
  BY HashesAre, LenProperties
<1>2. /\ k \in Hashes /\ Len(k) = n /\ \A i \in 1..n : k[i] = h[i]
      /\ j \in Hashes /\ Len(j) = m /\ \A i \in 1..m : j[i] = h[i]
  BY <1>1, Beginning
<1> HIDE DEF k, j
<1>3. /\ SubSeq(k, 1, m) \in Hashes /\ Len(SubSeq(k, 1, m)) = m
      /\ \A i \in 1..m : SubSeq(k, 1, m)[i] = k[i]
  BY <1>1, <1>2, Beginning
<1>4. /\ j \in Seq(Labels) /\ SubSeq(k, 1, m) \in Seq(Labels)
      /\ \A i \in 1..m : SubSeq(k, 1, m)[i] = j[i]
  BY <1>1, <1>2, <1>3, HashesAre
<1>5. SubSeq(k, 1, m) = j
  BY <1>2, <1>3, <1>4, SeqEqual
<1>6. SubSeq(j, 1, m) = j
  BY <1>2, <1>4, SubSeqFull
<1>7. IsPrefix(j, k)
  BY <1>1, <1>2, <1>5, <1>6 DEF IsPrefix
<1> QED
  BY <1>5, <1>7 DEF k, j

\* The rest of a history.
LEMMA Ending ==
    ASSUME NEW h \in Hashes, NEW i \in 0..Len(h)
    PROVE  /\ SubSeq(h, i + 1, Len(h)) \in Seq(Labels)
           /\ Len(SubSeq(h, i + 1, Len(h))) = Len(h) - i
           /\ \A j \in 1..Len(h) - i : SubSeq(h, i + 1, Len(h))[j] = h[i + j]
<1>1. /\ h \in Seq(Labels) /\ Len(h) \in Nat /\ i + 1 \in Int
      /\ \A m \in i + 1..Len(h) : h[m] \in Labels
  BY HashesAre, LenProperties
<1>2. /\ SubSeq(h, i + 1, Len(h)) \in Seq(Labels)
      /\ Len(SubSeq(h, i + 1, Len(h))) = IF i + 1 <= Len(h) THEN (Len(h) - (i + 1)) + 1 ELSE 0
      /\ \A j \in 1..(Len(h) - (i + 1)) + 1 :
             SubSeq(h, i + 1, Len(h))[j] = h[((i + 1) + j) - 1]
  BY <1>1, SubSeqProperties
<1>3. (IF i + 1 <= Len(h) THEN (Len(h) - (i + 1)) + 1 ELSE 0) = Len(h) - i
  BY <1>1
<1>4. ASSUME NEW j \in 1..Len(h) - i
      PROVE  SubSeq(h, i + 1, Len(h))[j] = h[i + j]
  <2>1. j \in 1..(Len(h) - (i + 1)) + 1 /\ ((i + 1) + j) - 1 = i + j
    BY <1>1
  <2> QED
    BY <1>2, <2>1
<1> QED
  BY <1>2, <1>3, <1>4

\* One more block.
LEMMA Extending ==
    ASSUME NEW h \in Hashes, NEW l \in Labels
    PROVE  /\ Append(h, l) \in Seq(Labels)
           /\ Len(Append(h, l)) = Len(h) + 1
           /\ Last(Append(h, l)) = l
           /\ \A i \in 1..Len(h) : Append(h, l)[i] = h[i]
           /\ Len(h) + 1 < MaxHeight => Append(h, l) \in Hashes
<1>1. h \in Seq(Labels) /\ Len(h) \in Nat
  BY HashesAre, LenProperties
<1>2. /\ Append(h, l) \in Seq(Labels) /\ Len(Append(h, l)) = Len(h) + 1
      /\ \A i \in 1..Len(h) : Append(h, l)[i] = h[i]
      /\ Append(h, l)[Len(h) + 1] = l
  BY <1>1, AppendProperties
<1> QED
  BY <1>1, <1>2, HashesAre, SyncAssumption DEF Last

\* A block whose predecessor is h is h and one more label.
LEMMA Child ==
    ASSUME NEW h \in Hashes, NEW b \in Hashes, Len(b) = Len(h) + 1, Front(b) = h
    PROVE  Last(b) \in Labels /\ b = Append(h, Last(b))
<1>1. b \in Seq(Labels) /\ Len(b) \in Nat /\ h \in Seq(Labels) /\ Len(h) \in Nat
  BY HashesAre, LenProperties
<1>2. Last(b) \in Labels
  BY <1>1, ElementOfSeq DEF Last
<1>3. \A i \in 1..Len(h) : h[i] = b[i]
  BY <1>1, Beginning DEF Front
<1>4. /\ Append(h, Last(b)) \in Seq(Labels)
      /\ Len(Append(h, Last(b))) = Len(b)
      /\ \A i \in 1..Len(b) : Append(h, Last(b))[i] = b[i]
  BY <1>1, <1>2, <1>3, AppendProperties DEF Last
<1> QED
  BY <1>1, <1>2, <1>4, SeqEqual
-----------------------------------------------------------------------------
(* Replicas *)

LEMMA GenesisIs ==
    /\ <<>> \in Hashes /\ Len(<<>>) = 0
    /\ Genesis \in Replicas
    /\ Genesis.tip = <<>> /\ Genesis.state = <<>> /\ Genesis.offset = 0
<1>1. <<>> \in Seq(Labels) /\ Len(<<>>) = 0
  BY EmptySeq
<1>2. <<>> \in Hashes
  <2>1. Len(<<>>) < MaxHeight
    BY <1>1, SyncAssumption
  <2> QED
    BY <1>1, <2>1, HashesAre, Zenon
<1> QED
  BY <1>1, <1>2, SyncAssumption DEF Genesis, Replicas

\* What TypeOK and StateOfTip say of one device.
Sound(r) ==
    /\ r \in Replicas
    /\ (Len(r.tip) + 1) - r.offset \in 0..PruneTrigger - 1
    /\ r.state = r.tip

\* A sound replica can take the block that a device makes on its tip.
LEMMA OwnBlock ==
    ASSUME NEW r, Sound(r), Len(r.tip) + 1 < MaxHeight, NEW l \in Labels
    PROVE  /\ Append(r.tip, l) \in Hashes
           /\ Verdict(r, Append(r.tip, l)) = "ok"
<1> DEFINE b == Append(r.tip, l)
<1>1. r.tip \in Hashes /\ r.tip \in Seq(Labels) /\ Len(r.tip) \in Nat /\ r.state = r.tip
  BY HashesAre, LenProperties DEF Sound, Replicas
<1>2. b \in Hashes /\ b \in Seq(Labels) /\ Len(b) = Len(r.tip) + 1
  BY <1>1, Extending
<1>3. \A i \in 1..Len(r.tip) : b[i] = r.tip[i]
  BY <1>1, Extending
<1>4. /\ Front(b) \in Seq(Labels) /\ Len(Front(b)) = Len(r.tip)
      /\ \A i \in 1..Len(r.tip) : Front(b)[i] = r.tip[i]
  <2>1. Len(b) - 1 = Len(r.tip) /\ Len(r.tip) \in 0..Len(b)
    BY <1>1, <1>2
  <2>2. /\ SubSeq(b, 1, Len(r.tip)) \in Hashes
        /\ Len(SubSeq(b, 1, Len(r.tip))) = Len(r.tip)
        /\ \A i \in 1..Len(r.tip) : SubSeq(b, 1, Len(r.tip))[i] = b[i]
    BY <1>2, <2>1, Beginning
  <2> QED
    BY <1>3, <2>1, <2>2, HashesAre DEF Front
<1>5. Front(b) = r.tip
  BY <1>1, <1>4, SeqEqual
<1> HIDE DEF b
<1>6. Verdict(r, b) = "ok"
  BY <1>1, <1>2, <1>5 DEF Verdict
<1> QED
  BY <1>2, <1>6 DEF b

\* Pruning leaves tip and state alone and keeps the blocks in memory few.
LEMMA PrunedIs ==
    ASSUME NEW r \in Replicas, r.state = r.tip, (Len(r.tip) + 1) - r.offset \in Nat
    PROVE  /\ Sound(Pruned(r))
           /\ Pruned(r).tip = r.tip
           /\ Pruned(r).offset \in {r.offset, Len(r.tip) + 1}
<1>1. r.tip \in Hashes /\ Len(r.tip) \in Nat /\ Len(r.tip) < MaxHeight /\ r.offset \in Nat
  BY HashesAre, LenProperties, SyncAssumption DEF Replicas
<1>2. Len(r.tip) + 1 \in 0..MaxHeight
  BY <1>1, SyncAssumption
<1>3. CASE (Len(r.tip) + 1) - r.offset >= PruneTrigger
  <2>1. Pruned(r) = [r EXCEPT !.offset = Len(r.tip) + 1]
    BY <1>1, <1>3, SyncAssumption DEF Pruned
  <2>2. /\ Pruned(r) \in Replicas /\ Pruned(r).tip = r.tip /\ Pruned(r).state = r.state
        /\ Pruned(r).offset = Len(r.tip) + 1
    BY <1>2, <2>1 DEF Replicas
  <2>3. (Len(r.tip) + 1) - Pruned(r).offset = 0
    BY <1>1, <2>2
  <2> QED
    BY <2>2, <2>3, SyncAssumption DEF Sound
<1>4. CASE ~ ((Len(r.tip) + 1) - r.offset >= PruneTrigger)
  <2>1. Pruned(r) = r
    BY <1>1, <1>4, SyncAssumption DEF Pruned
  <2>2. (Len(r.tip) + 1) - r.offset \in 0..PruneTrigger - 1
    BY <1>4, SyncAssumption
  <2> QED
    BY <2>1, <2>2 DEF Sound
<1> QED
  BY <1>3, <1>4

\* A block that is applied is the new tip and the new state.
LEMMA ExtendedIs ==
    ASSUME NEW r, Sound(r), NEW b \in Hashes, Verdict(r, b) = "ok"
    PROVE  /\ Sound(Extended(r, b))
           /\ Extended(r, b).tip = b
           /\ Len(b) = Len(r.tip) + 1
           /\ SubSeq(b, 1, Len(r.tip)) = r.tip
           /\ Extended(r, b).offset \in {r.offset, Len(b) + 1}
<1>1. /\ r \in Replicas /\ r.tip \in Hashes /\ r.state = r.tip /\ r.offset \in Nat
      /\ Len(r.tip) \in Nat /\ Len(b) \in Nat /\ Len(b) < MaxHeight
  BY HashesAre, LenProperties, SyncAssumption DEF Sound, Replicas
<1>2. Len(b) = Len(r.tip) + 1 /\ Front(b) = r.tip
  BY DEF Verdict
<1>3. b = Append(r.tip, Last(b))
  BY <1>1, <1>2, Child
<1>4. Append(r.state, Last(b)) = b
  BY <1>1, <1>3
<1> DEFINE e == [r EXCEPT !.tip = b, !.state = b]
<1>5. [r EXCEPT !.tip = b, !.state = Append(@, Last(b))] = e
  BY <1>4
<1>6. e \in Replicas /\ e.tip = b /\ e.state = b /\ e.offset = r.offset
  BY <1>1 DEF Replicas
<1>7. Extended(r, b) = Pruned(e)
  BY <1>5 DEF Extended
<1>8. Len(b) + 1 \in 0..MaxHeight /\ (Len(b) + 1) - r.offset \in Nat
  BY <1>1, <1>2, SyncAssumption DEF Sound
<1>9. SubSeq(b, 1, Len(r.tip)) = r.tip
  BY <1>1, <1>2 DEF Front
<1>10. /\ Sound(Pruned(e)) /\ Pruned(e).tip = b
       /\ Pruned(e).offset \in {r.offset, Len(b) + 1}
  BY <1>6, <1>8, PrunedIs
<1> QED
  BY <1>2, <1>7, <1>9, <1>10

\* The history up to the latest checkpoint of a device that has pruned.
LEMMA CheckpointTipIs ==
    ASSUME NEW s, Sound(s), s.offset > 0
    PROVE  /\ CheckpointTip(s) \in Hashes
           /\ Len(CheckpointTip(s)) = s.offset - 1
<1>1. /\ s.tip \in Hashes /\ Len(s.tip) \in Nat
      /\ s.offset \in Nat
  BY HashesAre, LenProperties, SyncAssumption DEF Sound, Replicas
<1>2. s.offset - 1 \in 0..Len(s.tip)
  BY <1>1, SyncAssumption DEF Sound
<1> QED
  BY <1>1, <1>2, Beginning DEF CheckpointTip

\* What a device has restored is sound, because it has compared the roots.
LEMMA RestoredIs ==
    ASSUME NEW s, Sound(s), s.offset > 0
    PROVE  /\ Sound(Restored(s))
           /\ \/ Restored(s) = Genesis
              \/ /\ Restored(s).tip = CheckpointTip(s)
                 /\ Restored(s).offset = s.offset
<1>1. /\ CheckpointTip(s) \in Hashes /\ Len(CheckpointTip(s)) = s.offset - 1
      /\ s.offset \in 0..MaxHeight
  BY CheckpointTipIs DEF Sound, Replicas
<1> DEFINE r == [tip |-> CheckpointTip(s), state |-> s.state, offset |-> s.offset]
<1>2. CASE s.state = CheckpointTip(s)
  <2>1. Restored(s) = r /\ r.tip = CheckpointTip(s) /\ r.offset = s.offset
    BY <1>2 DEF Restored
  <2>2. r \in Replicas /\ r.state = r.tip
    BY <1>1, <1>2 DEF Replicas
  <2>3. (Len(r.tip) + 1) - r.offset = 0
    BY <1>1, SyncAssumption
  <2> QED
    BY <2>1, <2>2, <2>3, SyncAssumption DEF Sound
<1>3. CASE s.state # CheckpointTip(s)
  <2>1. Restored(s) = Genesis
    BY <1>3 DEF Restored
  <2>2. (Len(Genesis.tip) + 1) - Genesis.offset \in 0..PruneTrigger - 1
    BY GenesisIs, SyncAssumption
  <2> QED
    BY <2>1, <2>2, GenesisIs DEF Sound
<1> QED
  BY <1>2, <1>3
-----------------------------------------------------------------------------
(* Steps *)

LEMMA PeerTablesAre ==
    /\ \A t \in PeerTables : DOMAIN t \subseteq Devices /\ t \in [DOMAIN t -> [tip : Hashes]]
    /\ \A P \in SUBSET Devices : [P -> [tip : Hashes]] \subseteq PeerTables
    /\ NoPeers \in PeerTables /\ DOMAIN NoPeers = {}
<1>1. NoPeers \in [{} -> [tip : Hashes]] /\ DOMAIN NoPeers = {}
  BY DEF NoPeers
<1> QED
  BY <1>1 DEF PeerTables

\* The inductive invariant: what is stored where, and that it fits together.
SyncInv == TypeOK /\ StateOfTip

LEMMA DevicesSound ==
    ASSUME SyncInv
    PROVE  \A d \in Devices : Sound(replica[d])
<1> TAKE d \in Devices
<1>1. replica[d] \in Replicas
  BY DEF SyncInv, TypeOK
<1>2. Height(d) - replica[d].offset \in 0..PruneTrigger - 1 /\ replica[d].state = replica[d].tip
  BY DEF SyncInv, TypeOK, StateOfTip
<1> QED
  BY <1>1, <1>2, Zenon DEF Sound, Height

\* The ways in which the replica of a device changes, unless it is lost.
Moved(d, r) ==
    \/ r = replica[d] \/ r = Genesis
    \/ \E b \in Hashes : Verdict(replica[d], b) = "ok" /\ r = Extended(replica[d], b)
    \/ \E p \in Devices : /\ replica[p].offset > 0
                          /\ Linked(replica[d], replica[p])
                          /\ r = Restored(replica[p])

OneMoves(d) == \E r : Moved(d, r) /\ replica' = [replica EXCEPT ![d] = r]

\* All of them keep the replica sound.
LEMMA MovedSound ==
    ASSUME SyncInv, NEW d \in Devices, OneMoves(d)
    PROVE  /\ replica' \in [Devices -> Replicas]
           /\ \A e \in Devices : Sound(replica'[e])
<1>1. \A e \in Devices : Sound(replica[e])
  BY DevicesSound
<1>2. PICK r : Moved(d, r) /\ replica' = [replica EXCEPT ![d] = r]
  BY DEF OneMoves
<1>3. Sound(r)
  <2>1. CASE r = replica[d]
    BY <1>1, <2>1
  <2>2. CASE r = Genesis
    BY <2>2, GenesisIs, SyncAssumption DEF Sound
  <2>3. CASE \E b \in Hashes : Verdict(replica[d], b) = "ok" /\ r = Extended(replica[d], b)
    BY <1>1, <2>3, ExtendedIs
  <2>4. CASE \E p \in Devices : replica[p].offset > 0 /\ r = Restored(replica[p])
    BY <1>1, <2>4, RestoredIs
  <2> QED
    BY <1>2, <2>1, <2>2, <2>3, <2>4 DEF Moved
<1>4. r \in Replicas
  BY <1>3 DEF Sound
<1>5. replica \in [Devices -> Replicas]
  BY DEF SyncInv, TypeOK
<1> QED
  BY <1>1, <1>2, <1>3, <1>4, <1>5

\* A block in a peer's memory is a beginning of the peer's history.
LEMMA BlockIs ==
    ASSUME SyncInv, NEW p \in Devices, NEW d \in Devices, HasBlock(p, Height(d))
    PROVE  Block(p, Height(d)) \in Hashes
<1>1. /\ replica[p].tip \in Hashes /\ Len(replica[p].tip) \in Nat
      /\ replica[d].tip \in Hashes /\ Len(replica[d].tip) \in Nat
  BY HashesAre, LenProperties DEF SyncInv, TypeOK, Replicas
<1>2. Height(d) \in 0..Len(replica[p].tip)
  BY <1>1 DEF HasBlock, Height
<1> QED
  BY <1>1, <1>2, Beginning DEF Block

LEMMA KnownPeers ==
    ASSUME SyncInv, NEW d \in Devices
    PROVE  /\ DOMAIN peers[d] \subseteq Devices
           /\ Ahead(d) \subseteq DOMAIN peers[d] /\ Best(d) \subseteq Ahead(d)
           /\ Sources(d) \subseteq Ahead(d) /\ Rival(d) \subseteq DOMAIN peers[d]
           /\ \A p \in DOMAIN peers[d] : /\ peers[d][p].tip \in Hashes
                                         /\ AnnouncedHeight(d, p) \in 1..MaxHeight
<1>1. peers[d] \in PeerTables
  BY DEF SyncInv, TypeOK
<1>2. /\ DOMAIN peers[d] \subseteq Devices
      /\ \A p \in DOMAIN peers[d] : peers[d][p].tip \in Hashes
  BY <1>1, PeerTablesAre
<1>3. ASSUME NEW p \in DOMAIN peers[d]
      PROVE  AnnouncedHeight(d, p) \in 1..MaxHeight
  <2>1. Len(peers[d][p].tip) \in Nat /\ Len(peers[d][p].tip) < MaxHeight
    BY <1>2, HashesAre, LenProperties
  <2> QED
    BY <2>1, SyncAssumption DEF AnnouncedHeight
<1> QED
  BY <1>2, <1>3 DEF Ahead, Best, Sources, Rival, Forked

LEMMA ProduceMoves ==
    ASSUME SyncInv, NEW d \in Devices, NEW l \in Labels, Produce(d, l)
    PROVE  /\ OneMoves(d)
           /\ Append(replica[d].tip, l) \in Hashes
           /\ Verdict(replica[d], Append(replica[d].tip, l)) = "ok"
<1>1. Sound(replica[d]) /\ Len(replica[d].tip) + 1 < MaxHeight
  BY DevicesSound DEF Produce, Height
<1>2. /\ Append(replica[d].tip, l) \in Hashes
      /\ Verdict(replica[d], Append(replica[d].tip, l)) = "ok"
  BY <1>1, OwnBlock
<1>3. replica' = [replica EXCEPT ![d] = Extended(replica[d], Append(replica[d].tip, l))]
  BY DEF Produce
<1> QED
  BY <1>2, <1>3 DEF OneMoves, Moved

LEMMA HearBlockMoves ==
    ASSUME SyncInv, NEW d \in Devices, NEW b \in inbox[d], HearBlock(d, b)
    PROVE  OneMoves(d) /\ b \in Hashes
<1>1. b \in Hashes
  BY DEF SyncInv, TypeOK
<1>2. CASE Verdict(replica[d], b) = "ok"
  <2>1. replica' = [replica EXCEPT ![d] = Extended(replica[d], b)]
    BY <1>2 DEF HearBlock
  <2> QED
    BY <1>1, <1>2, <2>1 DEF OneMoves, Moved
<1>3. CASE Verdict(replica[d], b) # "ok"
  <2>1. replica' = replica
    BY <1>3 DEF HearBlock
  <2>2. replica' = [replica EXCEPT ![d] = replica[d]]
    BY <2>1 DEF SyncInv, TypeOK
  <2> QED
    BY <1>1, <2>2 DEF OneMoves, Moved
<1> QED
  BY <1>2, <1>3

LEMMA FetchNextMoves ==
    ASSUME SyncInv, NEW d \in Devices, FetchNext(d)
    PROVE  OneMoves(d)
<1>1. PICK q \in Sources(d) :
        LET b == Block(q, Height(d))
        IN  \/ /\ Verdict(replica[d], b) = "ok"
               /\ replica' = [replica EXCEPT ![d] = Extended(@, b)]
               /\ UNCHANGED sync
            \/ /\ Verdict(replica[d], b) = "prevHash"
               /\ replica' = [replica EXCEPT ![d] = Genesis]
               /\ sync' = [sync EXCEPT ![d] = Downloading(q, AnnouncedHeight(d, q))]
  BY DEF FetchNext
<1>2. q \in Devices /\ HasBlock(q, Height(d))
  BY KnownPeers DEF Sources
<1>3. Block(q, Height(d)) \in Hashes
  BY <1>2, BlockIs
<1> QED
  BY <1>1, <1>3 DEF OneMoves, Moved

LEMMA FetchCheckpointMoves ==
    ASSUME SyncInv, NEW d \in Devices, FetchCheckpoint(d)
    PROVE  OneMoves(d)
<1>1. PICK p \in Best(d) :
        /\ HasCheckpoint(p) /\ Linked(replica[d], replica[p])
        /\ replica' = [replica EXCEPT ![d] = Restored(replica[p])]
  BY DEF FetchCheckpoint
<1>2. p \in Devices /\ replica[p].offset > 0
  BY <1>1, KnownPeers DEF HasCheckpoint
<1> QED
  BY <1>1, <1>2 DEF OneMoves, Moved

LEMMA DownloadMoves ==
    ASSUME SyncInv, NEW d \in Devices, Download(d)
    PROVE  OneMoves(d)
<1>1. PICK p \in sync[d].peer :
        \/ replica' = replica
        \/ /\ NextFits(d, p)
           /\ replica' = [replica EXCEPT ![d] = Extended(@, Block(p, Height(d)))]
  BY DEF Download
<1>2. p \in Devices
  BY DEF SyncInv, TypeOK
<1>3. CASE replica' = replica
  <2>1. replica' = [replica EXCEPT ![d] = replica[d]]
    BY <1>3 DEF SyncInv, TypeOK
  <2> QED
    BY <2>1 DEF OneMoves, Moved
<1>4. CASE /\ NextFits(d, p)
           /\ replica' = [replica EXCEPT ![d] = Extended(@, Block(p, Height(d)))]
  <2>1. HasBlock(p, Height(d)) /\ Verdict(replica[d], Block(p, Height(d))) = "ok"
    BY <1>4 DEF NextFits
  <2>2. Block(p, Height(d)) \in Hashes
    BY <1>2, <2>1, BlockIs
  <2> QED
    BY <1>4, <2>1, <2>2 DEF OneMoves, Moved
<1> QED
  BY <1>1, <1>3, <1>4

\* Giving up the chain, for a fork or by a restart.
LEMMA GivingUpMoves ==
    ASSUME SyncInv, NEW d \in Devices, replica' = [replica EXCEPT ![d] = Genesis]
    PROVE  OneMoves(d)
BY DEF OneMoves, Moved

\* Every step moves one device.
LEMMA Moves ==
    ASSUME SyncInv, Next
    PROVE  \E d \in Devices : OneMoves(d)
<1>1. PICK d \in Devices :
        \/ \E l \in Labels : Produce(d, l)
        \/ \E b \in inbox[d] : HearBlock(d, b)
        \/ \E p \in Devices : HearPeer(d, p)
        \/ AdoptFork(d) \/ FetchNext(d) \/ FetchCut(d) \/ FetchCheckpoint(d)
        \/ Download(d)
        \/ Reboot(d)
  BY DEF Next
<1>2. CASE \E l \in Labels : Produce(d, l)
  BY <1>2, ProduceMoves
<1>3. CASE \E b \in inbox[d] : HearBlock(d, b)
  BY <1>3, HearBlockMoves
<1>4. CASE \E p \in Devices : HearPeer(d, p)
  <2>1. replica' = [replica EXCEPT ![d] = replica[d]]
    BY <1>4 DEF HearPeer, SyncInv, TypeOK
  <2> QED
    BY <2>1 DEF OneMoves, Moved
<1>5. CASE AdoptFork(d) \/ FetchCut(d) \/ Reboot(d)
  BY <1>5, GivingUpMoves DEF AdoptFork, FetchCut, Reboot
<1>6. CASE FetchNext(d)
  BY <1>6, FetchNextMoves
<1>7. CASE FetchCheckpoint(d)
  BY <1>7, FetchCheckpointMoves
<1>8. CASE Download(d)
  BY <1>8, DownloadMoves
<1> QED
  BY <1>1, <1>2, <1>3, <1>4, <1>5, <1>6, <1>7, <1>8
-----------------------------------------------------------------------------
(* The inductive invariant *)

LEMMA InvInit ==
    ASSUME Init
    PROVE  SyncInv
<1>1. replica \in [Devices -> Replicas] /\ StateOfTip
  BY GenesisIs DEF Init, StateOfTip
<1>2. \A d \in Devices : Height(d) - replica[d].offset = 1
  BY GenesisIs DEF Init, Height
<1>3. peers \in [Devices -> PeerTables] /\ \A d \in Devices : d \notin DOMAIN peers[d]
  BY PeerTablesAre DEF Init
<1>4. sync \in [Devices -> [peer : SUBSET Devices, target : 0..MaxHeight, left : 0..MaxDownload]]
  BY SyncAssumption DEF Init, Idle
<1>5. /\ inbox \in [Devices -> SUBSET Hashes]
      /\ faults \in [reboots : 0..MaxReboots, cuts : 0..MaxCuts]
  BY SyncAssumption DEF Init
<1> QED
  BY <1>1, <1>2, <1>3, <1>4, <1>5, SyncAssumption DEF SyncInv, TypeOK

\* The conjuncts of the invariant that are not about the replicas.
Tables ==
    /\ peers \in [Devices -> PeerTables]
    /\ \A d \in Devices : d \notin DOMAIN peers[d]

Downloads ==
    sync \in [Devices -> [peer : SUBSET Devices, target : 0..MaxHeight, left : 0..MaxDownload]]

Rest ==
    /\ Tables /\ Downloads
    /\ inbox \in [Devices -> SUBSET Hashes]
    /\ faults \in [reboots : 0..MaxReboots, cuts : 0..MaxCuts]

LEMMA UpdatedTables ==
    ASSUME SyncInv, NEW d \in Devices, NEW p \in Devices, p # d
    PROVE  Updated(d, p) \in PeerTables /\ DOMAIN Updated(d, p) = DOMAIN peers[d] \cup {p}
<1>1. replica[p].tip \in Hashes
  BY DEF SyncInv, TypeOK, Replicas
<1>2. DOMAIN peers[d] \subseteq Devices /\ peers[d] \in [DOMAIN peers[d] -> [tip : Hashes]]
  BY PeerTablesAre DEF SyncInv, TypeOK
<1>3. Updated(d, p) \in [DOMAIN peers[d] \cup {p} -> [tip : Hashes]]
  BY <1>1, <1>2 DEF Updated
<1>4. [DOMAIN peers[d] \cup {p} -> [tip : Hashes]] \subseteq PeerTables
  BY <1>2, PeerTablesAre
<1> QED
  BY <1>3, <1>4

LEMMA HearBlockTables ==
    ASSUME SyncInv, NEW d \in Devices, NEW b \in inbox[d], HearBlock(d, b)
    PROVE  Tables'
<1>1. /\ b \in Hashes /\ peers \in [Devices -> PeerTables]
      /\ \A e \in Devices : e \notin DOMAIN peers[e]
  BY DEF SyncInv, TypeOK
<1> DEFINE p == Owner[Last(b)]
<1>2. CASE p \in DOMAIN peers[d] /\ peers' = [peers EXCEPT ![d][p].tip = b]
  <2>1. DOMAIN peers[d] \subseteq Devices /\ peers[d] \in [DOMAIN peers[d] -> [tip : Hashes]]
    BY <1>1, PeerTablesAre
  <2> DEFINE t == [peers[d] EXCEPT ![p].tip = b]
  <2>2. t \in [DOMAIN peers[d] -> [tip : Hashes]]
    BY <1>1, <2>1
  <2>3. t \in PeerTables /\ DOMAIN t = DOMAIN peers[d]
    BY <2>1, <2>2, PeerTablesAre
  <2>4. peers' = [peers EXCEPT ![d] = t]
    BY <1>2
  <2> HIDE DEF t
  <2> QED
    BY <1>1, <2>3, <2>4 DEF Tables
<1>3. CASE peers' = peers
  BY <1>1, <1>3 DEF Tables
<1> QED
  BY <1>2, <1>3 DEF HearBlock

LEMMA DownloadingIs ==
    ASSUME SyncInv, NEW d \in Devices, NEW p \in DOMAIN peers[d],
           sync' = [sync EXCEPT ![d] = Downloading(p, AnnouncedHeight(d, p))]
    PROVE  Downloads'
<1>1. p \in Devices /\ AnnouncedHeight(d, p) \in 0..MaxHeight
  BY KnownPeers, SyncAssumption
<1>2. Downloading(p, AnnouncedHeight(d, p))
        \in [peer : SUBSET Devices, target : 0..MaxHeight, left : 0..MaxDownload]
  BY <1>1, SyncAssumption DEF Downloading
<1> QED
  BY <1>2 DEF SyncInv, TypeOK, Downloads

LEMMA DownloadDownloads ==
    ASSUME SyncInv, NEW d \in Devices, Download(d)
    PROVE  Downloads'
<1>1. sync[d] \in [peer : SUBSET Devices, target : 0..MaxHeight, left : 0..MaxDownload]
  BY DEF SyncInv, TypeOK
<1>2. CASE sync' = [sync EXCEPT ![d] = Idle]
  BY <1>2, SyncAssumption DEF SyncInv, TypeOK, Downloads, Idle
<1>3. CASE sync[d].left > 0 /\ sync' = [sync EXCEPT ![d].left = @ - 1]
  <2>1. sync[d].left - 1 \in 0..MaxDownload
    BY <1>1, <1>3, SyncAssumption
  <2>2. [sync[d] EXCEPT !.left = @ - 1]
          \in [peer : SUBSET Devices, target : 0..MaxHeight, left : 0..MaxDownload]
    BY <1>1, <2>1
  <2>3. sync' = [sync EXCEPT ![d] = [sync[d] EXCEPT !.left = @ - 1]]
    BY <1>3
  <2> QED
    BY <2>2, <2>3 DEF SyncInv, TypeOK, Downloads
<1> QED
  BY <1>2, <1>3 DEF Download, NextFits

LEMMA RestStep ==
    ASSUME SyncInv, Next
    PROVE  Rest'
<1>0. /\ peers \in [Devices -> PeerTables] /\ \A d \in Devices : d \notin DOMAIN peers[d]
      /\ Tables /\ Downloads /\ Rest
      /\ inbox \in [Devices -> SUBSET Hashes]
      /\ faults \in [reboots : 0..MaxReboots, cuts : 0..MaxCuts]
  BY DEF SyncInv, TypeOK, Rest, Tables, Downloads
<1>1. ASSUME NEW d \in Devices, NEW l \in Labels, Produce(d, l)
      PROVE  Rest'
  <2>1. inbox' \in [Devices -> SUBSET Hashes]
    BY <1>0, <1>1, ProduceMoves DEF Produce
  <2> QED
    BY <1>0, <1>1, <2>1 DEF Produce, Rest, Tables, Downloads
<1>2. ASSUME NEW d \in Devices, NEW b \in inbox[d], HearBlock(d, b)
      PROVE  Rest'
  <2>1. Tables'
    BY <1>2, HearBlockTables
  <2> QED
    BY <1>0, <1>2, <2>1 DEF HearBlock, Rest, Downloads
<1>3. ASSUME NEW d \in Devices, NEW p \in Devices, HearPeer(d, p)
      PROVE  Rest'
  <2>1. p # d /\ peers' = [peers EXCEPT ![d] = Updated(d, p)]
    BY <1>3 DEF HearPeer
  <2>2. Updated(d, p) \in PeerTables /\ DOMAIN Updated(d, p) = DOMAIN peers[d] \cup {p}
    BY <2>1, UpdatedTables
  <2>3. Tables'
    BY <1>0, <2>1, <2>2 DEF Tables
  <2> QED
    BY <1>0, <1>3, <2>3 DEF HearPeer, Rest, Downloads
<1>4. ASSUME NEW d \in Devices, AdoptFork(d)
      PROVE  Rest'
  <2>1. Downloads'
    BY <1>4, DownloadingIs, KnownPeers DEF AdoptFork
  <2> QED
    BY <1>0, <1>4, <2>1 DEF AdoptFork, Rest, Tables
<1>5. ASSUME NEW d \in Devices, FetchNext(d)
      PROVE  Rest'
  <2>1. Downloads'
    BY <1>0, <1>5, DownloadingIs, KnownPeers DEF FetchNext, Downloads
  <2> QED
    BY <1>0, <1>5, <2>1 DEF FetchNext, Rest, Tables
<1>6. ASSUME NEW d \in Devices, FetchCheckpoint(d)
      PROVE  Rest'
  <2>1. Downloads'
    BY <1>0, <1>6, DownloadingIs, KnownPeers DEF FetchCheckpoint, Downloads
  <2> QED
    BY <1>0, <1>6, <2>1 DEF FetchCheckpoint, Rest, Tables
<1>7. ASSUME NEW d \in Devices, FetchCut(d)
      PROVE  Rest'
  <2>1. Downloads'
    BY <1>7, DownloadingIs, KnownPeers DEF FetchCut
  <2>2. faults' \in [reboots : 0..MaxReboots, cuts : 0..MaxCuts]
    BY <1>0, <1>7, SyncAssumption DEF FetchCut
  <2> QED
    BY <1>0, <1>7, <2>1, <2>2 DEF FetchCut, Rest, Tables
<1>8. ASSUME NEW d \in Devices, Download(d)
      PROVE  Rest'
  <2>1. Downloads'
    BY <1>8, DownloadDownloads
  <2> QED
    BY <1>0, <1>8, <2>1 DEF Download, Rest, Tables
<1>9. ASSUME NEW d \in Devices, Reboot(d)
      PROVE  Rest'
  <2>1. Tables'
    BY <1>0, <1>9, PeerTablesAre DEF Reboot, Tables
  <2>2. Downloads'
    BY <1>0, <1>9, SyncAssumption DEF Reboot, Downloads, Idle
  <2>3. faults' \in [reboots : 0..MaxReboots, cuts : 0..MaxCuts]
    BY <1>0, <1>9, SyncAssumption DEF Reboot
  <2> QED
    BY <1>0, <1>9, <2>1, <2>2, <2>3 DEF Reboot, Rest
<1> QED
  BY <1>1, <1>2, <1>3, <1>4, <1>5, <1>6, <1>7, <1>8, <1>9 DEF Next

LEMMA InvStep ==
    ASSUME SyncInv, [Next]_vars
    PROVE  SyncInv'
<1>1. CASE Next
  <2>1. replica' \in [Devices -> Replicas] /\ \A d \in Devices : Sound(replica'[d])
    BY <1>1, Moves, MovedSound
  <2>2. Rest'
    BY <1>1, RestStep
  <2>3. \A d \in Devices : Height(d)' - replica'[d].offset \in 0..PruneTrigger - 1
    BY <2>1, Zenon DEF Sound, Height
  <2>4. StateOfTip'
    BY <2>1 DEF Sound, StateOfTip
  <2> QED
    BY <2>1, <2>2, <2>3, <2>4 DEF SyncInv, TypeOK, Rest, Tables, Downloads
<1>2. CASE UNCHANGED vars
  BY <1>2 DEF vars, SyncInv, TypeOK, StateOfTip, Height
<1> QED
  BY <1>1, <1>2

LEMMA InvAlways == Spec => []SyncInv
<1>1. Init => SyncInv
  BY InvInit
<1>2. SyncInv /\ [Next]_vars => SyncInv'
  BY InvStep
<1> QED
  BY <1>1, <1>2, PTL DEF Spec

\* What devices hold, announce, download and are sent is always well-formed,
\* and no device has more blocks in memory than pruning allows.
THEOREM TypeCorrect == Spec => []TypeOK
<1>1. SyncInv => TypeOK
  BY DEF SyncInv
<1> QED
  BY <1>1, InvAlways, PTL

\* Whatever a device applied, pruned, gave up or restored from another device:
\* its state is that of executing exactly its chain.
THEOREM StatesOfTips == Spec => []StateOfTip
<1>1. SyncInv => StateOfTip
  BY DEF SyncInv
<1> QED
  BY <1>1, InvAlways, PTL
-----------------------------------------------------------------------------
(* Checkpoints *)

LEMMA MovedLinked ==
    ASSUME SyncInv, NEW d \in Devices, NEW r, Moved(d, r), replica[d].offset > 0, r.offset > 0
    PROVE  IsPrefix(CheckpointTip(replica[d]), CheckpointTip(r))
<1> DEFINE o == replica[d]
<1>1. /\ Sound(o) /\ o.tip \in Hashes /\ Len(o.tip) \in Nat
      /\ o.offset \in Nat /\ o.offset - 1 \in 0..Len(o.tip)
  BY DevicesSound, HashesAre, LenProperties, SyncAssumption DEF Sound, Replicas
<1> HIDE DEF o
<1>2. CASE r = o
  BY <1>1, <1>2, Beginnings DEF CheckpointTip, o
<1>3. CASE r = Genesis
  BY <1>3, GenesisIs
<1>4. ASSUME NEW b \in Hashes, Verdict(o, b) = "ok", r = Extended(o, b)
      PROVE  IsPrefix(CheckpointTip(o), CheckpointTip(r))
  <2>1. /\ r.tip = b /\ Len(b) = Len(o.tip) + 1 /\ SubSeq(b, 1, Len(o.tip)) = o.tip
        /\ r.offset \in {o.offset, Len(b) + 1}
    BY <1>1, <1>4, ExtendedIs
  <2>2. CheckpointTip(o) = SubSeq(b, 1, o.offset - 1)
    <3>1. Len(o.tip) \in 0..Len(b)
      BY <1>1, <2>1
    <3> QED
      BY <1>1, <2>1, <3>1, Beginnings DEF CheckpointTip
  <2>3. r.offset - 1 \in 0..Len(b) /\ o.offset - 1 \in 0..r.offset - 1
    BY <1>1, <2>1
  <2>4. IsPrefix(SubSeq(b, 1, o.offset - 1), SubSeq(b, 1, r.offset - 1))
    BY <2>3, Beginnings
  <2> QED
    BY <2>1, <2>2, <2>4 DEF CheckpointTip
<1>5. ASSUME NEW p \in Devices, replica[p].offset > 0, Linked(o, replica[p]),
             r = Restored(replica[p])
      PROVE  IsPrefix(CheckpointTip(o), CheckpointTip(r))
  <2> DEFINE s == replica[p]
  <2>1. /\ Sound(s) /\ s.tip \in Hashes /\ Len(s.tip) \in Nat
        /\ s.offset \in Nat /\ s.offset - 1 \in 0..Len(s.tip)
    <3>1. Sound(s)
      BY DevicesSound
    <3>2. /\ s.tip \in Hashes /\ s.offset \in 0..MaxHeight /\ s.offset > 0
          /\ (Len(s.tip) + 1) - s.offset \in 0..PruneTrigger - 1
      BY <1>5, <3>1 DEF Sound, Replicas
    <3>3. Len(s.tip) \in Nat
      BY <3>2, HashesAre, LenProperties
    <3> HIDE DEF s
    <3> QED
      BY <3>1, <3>2, <3>3, SyncAssumption
  <2>2. r.tip = CheckpointTip(s) /\ r.offset = s.offset
    BY <1>5, <2>1, RestoredIs, GenesisIs
  <2>3. s.offset - PruneTrigger = o.offset /\ CheckpointTip(o) = SubSeq(s.tip, 1, o.offset - 1)
    BY <1>5 DEF Linked, o
  <2> HIDE DEF s
  <2>4. o.offset - 1 \in 0..s.offset - 1
    BY <1>1, <2>1, <2>3, SyncAssumption
  <2>5. CheckpointTip(r) = SubSeq(s.tip, 1, s.offset - 1)
    BY <2>1, <2>2, Beginnings DEF CheckpointTip
  <2> QED
    BY <2>1, <2>3, <2>4, <2>5, Beginnings
<1> QED
  BY <1>2, <1>3, <1>4, <1>5 DEF Moved, o

\* A device that has a checkpoint takes another one only on the same history,
\* whether it pruned its own blocks or was handed the checkpoint by a peer.
THEOREM CheckpointsLinked == Spec => CheckpointLinked
<1> DEFINE Link ==
        \A d \in Devices :
            LET old == replica[d]
                new == replica'[d]
            IN  old.offset > 0 /\ new.offset > 0 =>
                    IsPrefix(CheckpointTip(old), CheckpointTip(new))
<1>1. ASSUME SyncInv, [Next]_vars
      PROVE  [Link]_vars
  <2>1. CASE Next
    <3> SUFFICES ASSUME NEW d \in Devices, replica[d].offset > 0, replica'[d].offset > 0
                 PROVE  IsPrefix(CheckpointTip(replica[d]), CheckpointTip(replica'[d]))
      OBVIOUS
    <3>1. PICK e, r : e \in Devices /\ Moved(e, r) /\ replica' = [replica EXCEPT ![e] = r]
      BY <1>1, <2>1, Moves DEF OneMoves
    <3>2. (replica'[d] = r /\ e = d) \/ replica'[d] = replica[d]
      BY <1>1, <3>1 DEF SyncInv, TypeOK
    <3>3. Moved(d, replica'[d])
      BY <3>1, <3>2 DEF Moved
    <3> QED
      BY <1>1, <3>3, MovedLinked
  <2>2. CASE UNCHANGED vars
    BY <2>2
  <2> QED
    BY <1>1, <2>1, <2>2
<1>2. SyncInv /\ [Next]_vars => [Link]_vars
  BY <1>1
<1> QED
  BY <1>2, InvAlways, PTL DEF Spec, CheckpointLinked
-----------------------------------------------------------------------------
(* The longest chain *)

\* Histories that end alike from i on also do so from any later m on.
LEMMA SameEnding ==
    ASSUME NEW s \in Hashes, NEW t \in Hashes, Len(s) = Len(t), NEW i \in 1..Len(s),
           SubSeq(s, i + 1, Len(s)) = SubSeq(t, i + 1, Len(t)),
           NEW m \in 1..Len(s), i < m
    PROVE  s[m] = t[m] /\ SubSeq(s, m + 1, Len(s)) = SubSeq(t, m + 1, Len(t))
<1>1. Len(s) \in Nat /\ i \in 0..Len(s) /\ m \in 0..Len(s) /\ i \in 0..Len(t) /\ m \in 0..Len(t)
  BY HashesAre, LenProperties
<1>2. \A j \in 1..Len(s) - i : s[i + j] = t[i + j]
  BY <1>1, Ending
<1>3. \A n \in i + 1..Len(s) : s[n] = t[n]
  <2> TAKE n \in i + 1..Len(s)
  <2>1. n - i \in 1..Len(s) - i /\ i + (n - i) = n
    BY <1>1
  <2> QED
    BY <1>2, <2>1
<1> DEFINE u == SubSeq(s, m + 1, Len(s))
           v == SubSeq(t, m + 1, Len(t))
<1>4. /\ u \in Seq(Labels) /\ Len(u) = Len(s) - m /\ \A j \in 1..Len(s) - m : u[j] = s[m + j]
      /\ v \in Seq(Labels) /\ Len(v) = Len(s) - m /\ \A j \in 1..Len(s) - m : v[j] = t[m + j]
  BY <1>1, Ending
<1> HIDE DEF u, v
<1>5. \A j \in 1..Len(u) : u[j] = v[j]
  <2> TAKE j \in 1..Len(u)
  <2>1. j \in 1..Len(s) - m /\ m + j \in i + 1..Len(s)
    BY <1>1, <1>4
  <2> QED
    BY <1>3, <1>4, <2>1
<1>6. u = v
  BY <1>4, <1>5, SeqEqual
<1> QED
  BY <1>1, <1>3, <1>6 DEF u, v

\* Fork choice compares equally long histories: transitive and irreflexive.
LEMMA SmallerOrders ==
    ASSUME NEW h \in Hashes, NEW k \in Hashes, NEW l \in Hashes,
           Len(h) = Len(k), Len(k) = Len(l)
    PROVE  /\ ~ Smaller(h, h)
           /\ Smaller(h, k) /\ Smaller(k, l) => Smaller(h, l)
<1>1. /\ Len(h) \in Nat /\ DOMAIN h = 1..Len(h) /\ DOMAIN k = 1..Len(h)
      /\ \A i \in 1..Len(h) : h[i] \in Nat /\ k[i] \in Nat /\ l[i] \in Nat
  <2>1. h \in Seq(Labels) /\ k \in Seq(Labels) /\ l \in Seq(Labels)
    BY HashesAre
  <2>2. Len(h) \in Nat /\ DOMAIN h = 1..Len(h) /\ DOMAIN k = 1..Len(h)
    BY <2>1, LenProperties
  <2>3. \A i \in 1..Len(h) : h[i] \in Labels /\ k[i] \in Labels /\ l[i] \in Labels
    BY <2>1, ElementOfSeq
  <2>4. Labels \subseteq Nat
    BY SyncAssumption
  <2> QED
    BY <2>2, <2>3, <2>4
<1>2. ~ Smaller(h, h)
  BY <1>1 DEF Smaller
<1>3. ASSUME Smaller(h, k), Smaller(k, l)
      PROVE  Smaller(h, l)
  <2>1. PICK i \in 1..Len(h) :
          h[i] < k[i] /\ SubSeq(h, i + 1, Len(h)) = SubSeq(k, i + 1, Len(k))
    BY <1>1, <1>3 DEF Smaller
  <2>2. PICK j \in 1..Len(h) :
          k[j] < l[j] /\ SubSeq(k, j + 1, Len(k)) = SubSeq(l, j + 1, Len(l))
    BY <1>1, <1>3 DEF Smaller
  <2>3. \E m \in 1..Len(h) : h[m] < l[m] /\ SubSeq(h, m + 1, Len(h)) = SubSeq(l, m + 1, Len(l))
    <3>1. CASE i = j
      BY <1>1, <2>1, <2>2, <3>1
    <3>2. CASE i < j
      <4>1. h[j] = k[j] /\ SubSeq(h, j + 1, Len(h)) = SubSeq(k, j + 1, Len(k))
        BY <2>1, <3>2, SameEnding
      <4> QED
        BY <2>2, <4>1
    <3>3. CASE j < i
      <4>1. k[i] = l[i] /\ SubSeq(k, i + 1, Len(k)) = SubSeq(l, i + 1, Len(l))
        BY <2>2, <3>3, SameEnding
      <4> QED
        BY <2>1, <4>1
    <3> QED
      BY <3>1, <3>2, <3>3
  <2> QED
    BY <1>1, <2>3 DEF Smaller
<1> QED
  BY <1>2, <1>3

\* A device with the tip u gives it up for t only if u does not beat t.
Beats(u, t) == Len(u) > Len(t) \/ u = t \/ (Len(u) = Len(t) /\ Smaller(u, t))

\* Fork choice, and being ahead: what a device gives up its chain for.
Better(t, u) == Len(t) > Len(u) \/ (Len(t) = Len(u) /\ Smaller(t, u))

LEMMA BeatsOrders ==
    ASSUME NEW u \in Hashes, NEW t \in Hashes
    PROVE  /\ Beats(u, u)
           /\ Better(t, u) => ~ Beats(u, t)
           /\ Beats(u, t) => Len(u) >= Len(t)
           /\ \A s \in Hashes : Beats(u, t) /\ Beats(t, s) => Beats(u, s)
<1>1. \A s \in Hashes : Len(s) \in Nat
  BY HashesAre, LenProperties
<1>2. ASSUME Better(t, u), Beats(u, t)
      PROVE  FALSE
  <2>1. Len(t) = Len(u) /\ Smaller(t, u) /\ (u = t \/ Smaller(u, t))
    BY <1>1, <1>2 DEF Better, Beats
  <2> QED
    BY <2>1, SmallerOrders
<1>3. ASSUME NEW s \in Hashes, Beats(u, t), Beats(t, s)
      PROVE  Beats(u, s)
  <2>1. CASE Len(u) > Len(s)
    BY <2>1 DEF Beats
  <2>2. CASE ~ (Len(u) > Len(s))
    <3>1. /\ Len(u) = Len(t) /\ Len(t) = Len(s)
          /\ u = t \/ Smaller(u, t)
          /\ t = s \/ Smaller(t, s)
      BY <1>1, <1>3, <2>2 DEF Beats
    <3>2. u = s \/ Smaller(u, s)
      BY <3>1, SmallerOrders
    <3> QED
      BY <3>1, <3>2 DEF Beats
  <2> QED
    BY <2>1, <2>2
<1> QED
  BY <1>1, <1>2, <1>3 DEF Beats

\* Some device has a chain that is not given up for t.
Covered(t) == \E d \in Devices : Beats(replica[d].tip, t)

\* The inductive invariant: no tip that anybody has heard of is without such a
\* device, even if all that announced it have given it up since.
KeptInv ==
    faults.reboots = 0 =>
        \A d \in Devices : /\ \A b \in inbox[d] : Covered(b)
                           /\ \A p \in DOMAIN peers[d] : Covered(peers[d][p].tip)

\* The same after a step.
CoveredAfter(t) == \E d \in Devices : Beats(replica'[d].tip, t)

\* A step that loses nothing.
Keeps ==
    /\ \A t \in Hashes : Covered(t) => CoveredAfter(t)
    /\ \A d \in Devices : \E e \in Devices : Height(e)' >= Height(d)

LEMMA TipsAre ==
    ASSUME SyncInv
    PROVE  \A d \in Devices : replica[d].tip \in Hashes /\ Len(replica[d].tip) \in Nat
BY HashesAre, LenProperties DEF SyncInv, TypeOK, Replicas

\* The device takes a chain that is at least as good as its own.
LEMMA ImprovedKeeps ==
    ASSUME SyncInv, NEW d \in Devices, NEW r, r.tip \in Hashes,
           replica' = [replica EXCEPT ![d] = r], Beats(r.tip, replica[d].tip)
    PROVE  Keeps
<1>1. \A e \in Devices : /\ replica[e].tip \in Hashes /\ Len(replica[e].tip) \in Nat
                         /\ replica'[e].tip \in Hashes /\ Len(replica'[e].tip) \in Nat
                         /\ Beats(replica'[e].tip, replica[e].tip)
  <2>1. \A e \in Devices : /\ replica[e].tip \in Hashes /\ Len(replica[e].tip) \in Nat
                           /\ replica'[e] = IF e = d THEN r ELSE replica[e]
    BY TipsAre DEF SyncInv, TypeOK
  <2>2. Len(r.tip) \in Nat
    BY HashesAre, LenProperties
  <2> QED
    BY <2>1, <2>2, BeatsOrders
<1>2. ASSUME NEW t \in Hashes, NEW e \in Devices, Beats(replica[e].tip, t)
      PROVE  Beats(replica'[e].tip, t)
  BY <1>1, <1>2, BeatsOrders
<1>3. ASSUME NEW e \in Devices
      PROVE  Height(e)' >= Height(e)
  <2>1. Len(replica'[e].tip) >= Len(replica[e].tip)
    BY <1>1, <1>3, BeatsOrders
  <2> QED
    BY <1>1, <2>1 DEF Height
<1> QED
  BY <1>2, <1>3 DEF Keeps, Covered, CoveredAfter

\* The device gives up its chain for a better one: the device that covers that
\* one is another one, and covers whatever this one covered.
LEMMA GivenUpKeeps ==
    ASSUME SyncInv, NEW d \in Devices, NEW r, replica' = [replica EXCEPT ![d] = r],
           NEW t \in Hashes, Covered(t), Better(t, replica[d].tip)
    PROVE  Keeps
<1>1. \A e \in Devices : replica[e].tip \in Hashes /\ Len(replica[e].tip) \in Nat
  BY TipsAre
<1>2. PICK e \in Devices : Beats(replica[e].tip, t)
  BY DEF Covered
<1>3. e # d
  BY <1>1, <1>2, BeatsOrders
<1>4. \A f \in Devices : f # d => replica'[f] = replica[f]
  BY DEF SyncInv, TypeOK
<1>5. Beats(t, replica[d].tip)
  BY <1>1 DEF Beats, Better
<1>6. Beats(replica[e].tip, replica[d].tip)
  BY <1>1, <1>2, <1>5, BeatsOrders
<1>7. ASSUME NEW s \in Hashes, NEW f \in Devices, Beats(replica[f].tip, s)
      PROVE  \E g \in Devices : Beats(replica'[g].tip, s)
  <2>1. CASE f = d
    <3>1. Beats(replica[e].tip, s)
      BY <1>1, <1>6, <1>7, <2>1, BeatsOrders
    <3> QED
      BY <1>3, <1>4, <3>1
  <2>2. CASE f # d
    BY <1>4, <1>7, <2>2
  <2> QED
    BY <2>1, <2>2
<1>8. ASSUME NEW f \in Devices
      PROVE  \E g \in Devices : Height(g)' >= Height(f)
  <2>1. CASE f = d
    <3>1. Len(replica[e].tip) >= Len(replica[d].tip)
      BY <1>1, <1>6, BeatsOrders
    <3>2. Height(e)' >= Height(d)
      BY <1>1, <1>3, <1>4, <3>1 DEF Height
    <3> QED
      BY <2>1, <3>2
  <2>2. CASE f # d
    <3>1. Height(f)' >= Height(f)
      BY <1>1, <1>4, <2>2 DEF Height
    <3> QED
      BY <3>1
  <2> QED
    BY <2>1, <2>2
<1> QED
  BY <1>7, <1>8 DEF Keeps, Covered, CoveredAfter

LEMMA UnchangedKeeps ==
    ASSUME SyncInv, replica' = replica
    PROVE  Keeps
<1>1. \A d \in Devices : Height(d)' = Height(d) /\ Height(d) \in Nat
  BY TipsAre DEF Height
<1> QED
  BY <1>1 DEF Keeps, Covered, CoveredAfter

LEMMA ExtendedKeeps ==
    ASSUME SyncInv, NEW d \in Devices, NEW b \in Hashes, Verdict(replica[d], b) = "ok",
           replica' = [replica EXCEPT ![d] = Extended(replica[d], b)]
    PROVE  Keeps /\ replica'[d].tip = b
<1>1. Extended(replica[d], b).tip = b /\ Len(b) = Len(replica[d].tip) + 1
  BY DevicesSound, ExtendedIs
<1>2. Beats(b, replica[d].tip)
  BY <1>1, TipsAre DEF Beats
<1>3. replica'[d].tip = b
  BY <1>1 DEF SyncInv, TypeOK
<1> QED
  BY <1>1, <1>2, <1>3, ImprovedKeeps

\* The announced tip of a peer that is ahead, or wins the fork.
LEMMA AheadBetter ==
    ASSUME SyncInv, KeptInv, faults.reboots = 0, NEW d \in Devices, NEW p \in Ahead(d) \cup Rival(d)
    PROVE  /\ peers[d][p].tip \in Hashes /\ Covered(peers[d][p].tip)
           /\ Better(peers[d][p].tip, replica[d].tip)
<1>1. p \in DOMAIN peers[d] /\ peers[d][p].tip \in Hashes /\ replica[d].tip \in Hashes
  BY KnownPeers, TipsAre
<1>2. Len(peers[d][p].tip) \in Nat /\ Len(replica[d].tip) \in Nat
  BY <1>1, HashesAre, LenProperties
<1>3. CASE p \in Ahead(d)
  BY <1>1, <1>2, <1>3 DEF Ahead, AnnouncedHeight, Height, Better, KeptInv
<1>4. CASE p \in Rival(d)
  BY <1>1, <1>2, <1>4 DEF Rival, Forked, AnnouncedHeight, Height, Better, KeptInv
<1> QED
  BY <1>3, <1>4

\* What the devices have heard of after a step.
LEMMA StillCovered ==
    ASSUME SyncInv, KeptInv, faults.reboots = 0, Keeps,
           \A d \in Devices : \A b \in inbox'[d] : b \in inbox[d] \/ CoveredAfter(b),
           \A d \in Devices : \A p \in DOMAIN peers'[d] :
               \/ peers'[d][p].tip \in inbox[d]
               \/ p \in DOMAIN peers[d] /\ peers'[d][p].tip = peers[d][p].tip
               \/ CoveredAfter(peers'[d][p].tip)
    PROVE  KeptInv' /\ \A d \in Devices : \E e \in Devices : Height(e)' >= Height(d)
<1>1. \A d \in Devices : \A b \in inbox[d] : CoveredAfter(b)
  BY DEF SyncInv, TypeOK, KeptInv, Keeps
<1>2. \A d \in Devices : \A p \in DOMAIN peers[d] : CoveredAfter(peers[d][p].tip)
  BY KnownPeers DEF KeptInv, Keeps
<1>3. \A d \in Devices : \A b \in inbox'[d] : CoveredAfter(b)
  BY <1>1
<1>4. \A d \in Devices : \A p \in DOMAIN peers'[d] : CoveredAfter(peers'[d][p].tip)
  BY <1>1, <1>2
<1> QED
  BY <1>3, <1>4 DEF KeptInv, Keeps, Covered, CoveredAfter

LEMMA KeptStep ==
    ASSUME SyncInv, KeptInv, Next, faults'.reboots = 0
    PROVE  KeptInv' /\ \A d \in Devices : \E e \in Devices : Height(e)' >= Height(d)
<1>1. ASSUME NEW d \in Devices, NEW l \in Labels, Produce(d, l), faults.reboots = 0
      PROVE  KeptInv' /\ \A f \in Devices : \E e \in Devices : Height(e)' >= Height(f)
  <2> DEFINE b == Append(replica[d].tip, l)
  <2>1. b \in Hashes /\ Verdict(replica[d], b) = "ok"
    BY <1>1, ProduceMoves
  <2>2. /\ replica' = [replica EXCEPT ![d] = Extended(replica[d], b)]
        /\ inbox' = [e \in Devices |-> IF e = d THEN inbox[e] ELSE {b}]
        /\ peers' = peers
    BY <1>1 DEF Produce
  <2> HIDE DEF b
  <2>3. Keeps /\ replica'[d].tip = b
    BY <2>1, <2>2, ExtendedKeeps
  <2>4. Beats(replica'[d].tip, b)
    BY <2>1, <2>3, BeatsOrders
  <2>5. CoveredAfter(b)
    BY <2>4 DEF CoveredAfter
  <2>6. \A e \in Devices : \A c \in inbox'[e] : c \in inbox[e] \/ CoveredAfter(c)
    BY <2>2, <2>5
  <2> QED
    BY <1>1, <2>2, <2>3, <2>6, StillCovered
<1>2. ASSUME NEW d \in Devices, NEW b \in inbox[d], HearBlock(d, b), faults.reboots = 0
      PROVE  KeptInv' /\ \A f \in Devices : \E e \in Devices : Height(e)' >= Height(f)
  <2>1. Keeps
    <3>1. CASE Verdict(replica[d], b) = "ok"
      BY <1>2, <3>1, ExtendedKeeps, HearBlockMoves DEF HearBlock
    <3>2. CASE Verdict(replica[d], b) # "ok"
      BY <1>2, <3>2, UnchangedKeeps DEF HearBlock
    <3> QED
      BY <3>1, <3>2
  <2>2. inbox' = [inbox EXCEPT ![d] = {}]
    BY <1>2 DEF HearBlock
  <2>3. \A e \in Devices : \A c \in inbox'[e] : c \in inbox[e]
    BY <2>2 DEF SyncInv, TypeOK
  <2>4. \A e \in Devices : \A p \in DOMAIN peers'[e] :
            \/ peers'[e][p].tip \in inbox[e]
            \/ p \in DOMAIN peers[e] /\ peers'[e][p].tip = peers[e][p].tip
    <3> DEFINE o == Owner[Last(b)]
    <3>1. CASE peers' = peers
      BY <3>1
    <3>2. CASE o \in DOMAIN peers[d] /\ peers' = [peers EXCEPT ![d][o].tip = b]
      <4>1. peers \in [Devices -> PeerTables] /\ peers[d] \in [DOMAIN peers[d] -> [tip : Hashes]]
        BY PeerTablesAre DEF SyncInv, TypeOK
      <4> HIDE DEF o
      <4>2. peers' = [peers EXCEPT ![d] = [peers[d] EXCEPT ![o] = [peers[d][o] EXCEPT !.tip = b]]]
        BY <3>2
      <4>3. \A e \in Devices : e # d => peers'[e] = peers[e]
        BY <4>1, <4>2
      <4>4. peers'[d] = [peers[d] EXCEPT ![o] = [peers[d][o] EXCEPT !.tip = b]]
        BY <4>1, <4>2
      <4>5. /\ DOMAIN peers'[d] = DOMAIN peers[d]
            /\ \A p \in DOMAIN peers[d] : p # o => peers'[d][p] = peers[d][p]
            /\ peers'[d][o].tip = b
        BY <3>2, <4>1, <4>4
      <4> QED
        BY <4>3, <4>5
    <3> QED
      BY <1>2, <3>1, <3>2 DEF HearBlock
  <2> QED
    BY <1>2, <2>1, <2>3, <2>4, StillCovered
<1>3. ASSUME NEW d \in Devices, NEW p \in Devices, HearPeer(d, p), faults.reboots = 0
      PROVE  KeptInv' /\ \A f \in Devices : \E e \in Devices : Height(e)' >= Height(f)
  <2>1. Keeps /\ replica' = replica /\ inbox' = inbox
    BY <1>3, UnchangedKeeps DEF HearPeer
  <2>2. Beats(replica'[p].tip, replica[p].tip)
    BY <2>1, TipsAre, BeatsOrders
  <2>3. CoveredAfter(replica[p].tip)
    BY <2>1, <2>2 DEF CoveredAfter
  <2>4. \A e \in Devices : e # d => peers'[e] = peers[e]
    BY <1>3 DEF HearPeer, SyncInv, TypeOK
  <2>5. peers'[d] = Updated(d, p)
    BY <1>3 DEF HearPeer, SyncInv, TypeOK
  <2>6. \A q \in DOMAIN peers'[d] :
            \/ q \in DOMAIN peers[d] /\ peers'[d][q].tip = peers[d][q].tip
            \/ peers'[d][q].tip = replica[p].tip
    BY <2>5 DEF Updated
  <2>7. \A e \in Devices : \A q \in DOMAIN peers'[e] :
            \/ q \in DOMAIN peers[e] /\ peers'[e][q].tip = peers[e][q].tip
            \/ CoveredAfter(peers'[e][q].tip)
    BY <2>3, <2>4, <2>6
  <2> QED
    BY <1>3, <2>1, <2>7, StillCovered
<1>4. ASSUME Keeps, peers' = peers, inbox' = inbox, faults.reboots = 0
      PROVE  KeptInv' /\ \A f \in Devices : \E e \in Devices : Height(e)' >= Height(f)
  BY <1>4, StillCovered
<1>5. ASSUME NEW d \in Devices, NEW r, NEW p \in Ahead(d) \cup Rival(d), faults.reboots = 0,
             replica' = [replica EXCEPT ![d] = r]
      PROVE  Keeps
  BY <1>5, AheadBetter, GivenUpKeeps
<1>6. ASSUME NEW d \in Devices, AdoptFork(d), faults.reboots = 0
      PROVE  KeptInv' /\ \A f \in Devices : \E e \in Devices : Height(e)' >= Height(f)
  <2>1. Keeps
    BY <1>5, <1>6 DEF AdoptFork
  <2> QED
    BY <1>4, <1>6, <2>1 DEF AdoptFork
<1>7. ASSUME NEW d \in Devices, FetchNext(d), faults.reboots = 0
      PROVE  KeptInv' /\ \A f \in Devices : \E e \in Devices : Height(e)' >= Height(f)
  <2>1. PICK q \in Sources(d) :
          LET b == Block(q, Height(d))
          IN  \/ /\ Verdict(replica[d], b) = "ok"
                 /\ replica' = [replica EXCEPT ![d] = Extended(@, b)]
                 /\ UNCHANGED sync
              \/ /\ Verdict(replica[d], b) = "prevHash"
                 /\ replica' = [replica EXCEPT ![d] = Genesis]
                 /\ sync' = [sync EXCEPT ![d] = Downloading(q, AnnouncedHeight(d, q))]
    BY <1>7 DEF FetchNext
  <2>2. q \in Ahead(d) /\ q \in Devices /\ HasBlock(q, Height(d))
    BY KnownPeers DEF Sources
  <2>3. Block(q, Height(d)) \in Hashes
    BY <2>2, BlockIs
  <2>4. Keeps
    BY <1>5, <1>7, <2>1, <2>2, <2>3, ExtendedKeeps
  <2> QED
    BY <1>4, <1>7, <2>4 DEF FetchNext
<1>8. ASSUME NEW d \in Devices, FetchCut(d), faults.reboots = 0
      PROVE  KeptInv' /\ \A f \in Devices : \E e \in Devices : Height(e)' >= Height(f)
  <2>1. \E q \in Sources(d) : q \in Ahead(d)
    BY <1>8, KnownPeers DEF FetchCut
  <2>2. Keeps
    BY <1>5, <1>8, <2>1 DEF FetchCut
  <2> QED
    BY <1>4, <1>8, <2>2 DEF FetchCut
<1>9. ASSUME NEW d \in Devices, FetchCheckpoint(d), faults.reboots = 0
      PROVE  KeptInv' /\ \A f \in Devices : \E e \in Devices : Height(e)' >= Height(f)
  <2>1. PICK p \in Best(d) : replica' = [replica EXCEPT ![d] = Restored(replica[p])]
    BY <1>9 DEF FetchCheckpoint
  <2>2. p \in Ahead(d)
    BY KnownPeers
  <2>3. Keeps
    BY <1>5, <1>9, <2>1, <2>2
  <2> QED
    BY <1>4, <1>9, <2>3 DEF FetchCheckpoint
<1>10. ASSUME NEW d \in Devices, Download(d), faults.reboots = 0
       PROVE  KeptInv' /\ \A f \in Devices : \E e \in Devices : Height(e)' >= Height(f)
  <2>1. PICK p \in sync[d].peer :
          \/ replica' = replica
          \/ /\ NextFits(d, p)
             /\ replica' = [replica EXCEPT ![d] = Extended(@, Block(p, Height(d)))]
    BY <1>10 DEF Download
  <2>2. p \in Devices
    BY DEF SyncInv, TypeOK
  <2>3. Keeps
    BY <2>1, <2>2, BlockIs, ExtendedKeeps, UnchangedKeeps DEF NextFits
  <2> QED
    BY <1>4, <1>10, <2>3 DEF Download
<1>11. ASSUME NEW d \in Devices, Reboot(d)
       PROVE  FALSE
  <2>1. faults' = [faults EXCEPT !.reboots = @ + 1]
    BY <1>11 DEF Reboot
  <2>2. faults.reboots \in Nat /\ faults \in [reboots : 0..MaxReboots, cuts : 0..MaxCuts]
    BY SyncAssumption DEF SyncInv, TypeOK
  <2> QED
    BY <2>1, <2>2
<1>12. faults.reboots = 0
  <2>1. CASE \E d \in Devices : FetchCut(d)
    BY <2>1 DEF FetchCut, SyncInv, TypeOK
  <2>2. CASE ~ \E d \in Devices : FetchCut(d)
    <3>1. faults' = faults
      BY <1>11, <2>2 DEF Next, Produce, HearBlock, HearPeer, AdoptFork, FetchNext,
                         FetchCheckpoint, Download
    <3> QED
      BY <3>1
  <2> QED
    BY <2>1, <2>2
<1> QED
  BY <1>1, <1>2, <1>3, <1>6, <1>7, <1>8, <1>9, <1>10, <1>11, <1>12 DEF Next

LEMMA KeptAlways == Spec => []KeptInv
<1>1. Init => KeptInv
  BY DEF Init, KeptInv, NoPeers
<1>2. SyncInv /\ KeptInv /\ [Next]_vars => KeptInv'
  <2>1. ASSUME SyncInv, KeptInv, Next
        PROVE  KeptInv'
    <3>1. CASE faults'.reboots = 0
      BY <2>1, <3>1, KeptStep
    <3>2. CASE faults'.reboots # 0
      BY <3>2 DEF KeptInv
    <3> QED
      BY <3>1, <3>2
  <2>2. ASSUME KeptInv, UNCHANGED vars
        PROVE  KeptInv'
    BY <2>2 DEF vars, KeptInv, Covered
  <2> QED
    BY <2>1, <2>2
<1> QED
  BY <1>1, <1>2, InvAlways, PTL DEF Spec

\* While no device restarts, the longest chain is never lost: not even when
\* devices give up their chains for each other's at the same time, on the word
\* of announcements that are long out of date.
THEOREM LongestIsKept == Spec => LongestKept
<1> DEFINE Kept ==
        faults'.reboots = 0 =>
            \A d \in Devices : \E e \in Devices : Height(e)' >= Height(d)
<1>1. SyncInv /\ KeptInv /\ [Next]_vars => [Kept]_vars
  <2>1. ASSUME SyncInv, KeptInv, Next
        PROVE  Kept
    BY <2>1, KeptStep
  <2> QED
    BY <2>1
<1> QED
  BY <1>1, InvAlways, KeptAlways, PTL DEF Spec, LongestKept
=============================================================================
