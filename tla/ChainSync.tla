------------------------------ MODULE ChainSync ------------------------------
(***************************************************************************)
(* Several replicas of the chain: gossiped blocks that arrive or do not,   *)
(* trySync with its reorganisations, pruning, and restoring a checkpoint   *)
(* downloaded from a peer (mirkonet.ino, blockchain.h, network.h).         *)
(*                                                                         *)
(* A block is known by its hash, and its hash by its history: the sequence *)
(* of the labels of all blocks from the first after genesis up to it.  So  *)
(* its index is the length of that sequence and its prevHash the sequence  *)
(* without the last label.  Executing a block is deterministic: a state is *)
(* the sequence of the blocks executed since genesis, and so is its root.  *)
(***************************************************************************)
EXTENDS Integers, FiniteSets, SequencesExt

CONSTANTS
    Devices,
    Owner,              \* the device that makes the blocks with a label
    Validators,         \* the active set after the bootstrap
    PruneTrigger,       \* PRUNE_TRIGGER
    BootstrapHeight,    \* BOOTSTRAP_HEIGHT
    CheckpointQuorum,   \* CHECKPOINT_QUORUM
    MaxDownload,        \* the 10 blocks that a reorganisation downloads at once
    Faults,             \* "loss": a request to a peer may go unanswered
    MaxHeight,          \* bound of the model: blocks of a chain
    MaxReboots,         \* bound of the model: restarts of all devices
    MaxCuts             \* bound of the model: answers that are cut off

Labels == DOMAIN Owner

ASSUME SyncAssumption ==
    /\ IsFiniteSet(Devices) /\ Validators \subseteq Devices
    /\ Labels \subseteq Nat /\ Owner \in [Labels -> Devices]
    /\ PruneTrigger \in Nat \ {0, 1}
    /\ BootstrapHeight \in Nat
    /\ CheckpointQuorum \in Nat \ {0}
    /\ MaxDownload \in Nat \ {0}
    /\ Faults \subseteq {"loss"}
    /\ MaxHeight \in Nat \ {0} /\ {MaxReboots, MaxCuts} \subseteq Nat

VARIABLES
    replica,            \* chain, checkpoints and state of each device
    peers,              \* peers[] of each device: the tip each one announced
    sync,               \* a download under way inside trySync
    inbox,              \* the BLOCK_FULL message each device has not read yet
    faults              \* how many devices restarted, how many answers were cut off

vars == <<replica, peers, sync, inbox, faults>>

Hashes == BoundedSeq(Labels, MaxHeight - 1)

\* tip: tipHash(); state: accounts, stakes and contracts; offset: chainOffset.
\* There is a checkpoint iff blocks were pruned, and it ends at offset - 1.
Replicas == [tip : Hashes, state : Hashes, offset : 0..MaxHeight]

PeerTables == UNION {[P -> [tip : Hashes]] : P \in SUBSET Devices}
NoPeers == [p \in {} |-> [tip |-> <<>>]]

\* initGenesis; resetToGenesis makes the same.
Genesis == [tip |-> <<>>, state |-> <<>>, offset |-> 0]

Height(d) == Len(replica[d].tip) + 1

Idle == [peer |-> {}, target |-> 0, left |-> 0]
Downloading(p, target) == [peer |-> {p}, target |-> target, left |-> MaxDownload]

\* A device in trySync waits for its peer: it answers nobody and sends nothing.
Busy(d) == sync[d] # Idle

Init ==
    /\ replica = [d \in Devices |-> Genesis]
    /\ peers = [d \in Devices |-> NoPeers]
    /\ sync = [d \in Devices |-> Idle]
    /\ inbox = [d \in Devices |-> {}]
    /\ faults = [reboots |-> 0, cuts |-> 0]
-----------------------------------------------------------------------------
(* Fork choice *)

\* Mutant: any other tip is preferred.
SmallerIfDifferent(h, k) == h # k

\* compareHash: some total order of the hashes, here of equally long histories.
Smaller(h, k) ==
    \E i \in DOMAIN h : h[i] < k[i] /\ SubSeq(h, i + 1, Len(h)) = SubSeq(k, i + 1, Len(k))

AnnouncedHeight(d, p) == Len(peers[d][p].tip) + 1

\* The alive peers that announced a higher chain.
Ahead(d) == {p \in DOMAIN peers[d] : AnnouncedHeight(d, p) > Height(d)}

\* The peers with another tip at the same height.
Forked(d) ==
    {p \in DOMAIN peers[d] : /\ AnnouncedHeight(d, p) = Height(d) /\ Height(d) > 1
                             /\ peers[d][p].tip # replica[d].tip}

NetworkNeedsSync(d) ==
    \/ Ahead(d) # {}
    \/ \E p \in Forked(d) : Smaller(peers[d][p].tip, replica[d].tip)

\* What trySync calls best, and sameHeightFork if its tip is smaller than ours.
Best(d) == {p \in Ahead(d) : \A q \in Ahead(d) : AnnouncedHeight(d, q) <= AnnouncedHeight(d, p)}

Rival(d) ==
    {p \in Forked(d) : /\ \A q \in Forked(d) : ~ Smaller(peers[d][q].tip, peers[d][p].tip)
                       /\ Smaller(peers[d][p].tip, replica[d].tip)}
-----------------------------------------------------------------------------
(* Blocks *)

\* The checks of applyNetworkBlock that depend on the chain; executing a block
\* on a state that is not its parent's ends in another state root.
Verdict(r, b) ==
    CASE Len(b) # Len(r.tip) + 1 -> "index"
      [] Front(b) # r.tip -> "prevHash"
      [] r.state # Front(b) -> "stateRoot"
      [] OTHER -> "ok"

\* pruneChain forgets all blocks in memory, the new one included.
Pruned(r) ==
    LET h == Len(r.tip) + 1
    IN  IF h - r.offset >= PruneTrigger THEN [r EXCEPT !.offset = h] ELSE r

\* Mutant: nothing is pruned.
ExtendedUnpruned(r, b) == [r EXCEPT !.tip = b, !.state = Append(@, Last(b))]

\* The new block at the end of createBlock or applyNetworkBlock.
Extended(r, b) ==
    Pruned([r EXCEPT !.tip = b, !.state = Append(@, Last(b))])

\* checkBlockProduction on a device whose slot it is.
Produce(d, l) ==
    LET b == Append(replica[d].tip, l)
    IN  /\ Owner[l] = d /\ ~ Busy(d)
        /\ Height(d) < MaxHeight
        /\ ~ NetworkNeedsSync(d)
        /\ replica' = [replica EXCEPT ![d] = Extended(@, b)]
        /\ inbox' = [e \in Devices |-> IF e = d THEN inbox[e] ELSE {b}]
        /\ UNCHANGED <<peers, sync, faults>>

\* BLOCK_FULL: only the next block of our own chain is applied, without a
\* reorganisation; a late, early or foreign one leaves a note about the peer.
HearBlock(d, b) ==
    LET p == Owner[Last(b)]
    IN  /\ b \in inbox[d] /\ ~ Busy(d)
        /\ inbox' = [inbox EXCEPT ![d] = {}]
        /\ peers' = IF p \in DOMAIN peers[d] /\ Len(b) >= Len(peers[d][p].tip)
                    THEN [peers EXCEPT ![d][p].tip = b] ELSE peers
        /\ replica' = IF Verdict(replica[d], b) = "ok"
                      THEN [replica EXCEPT ![d] = Extended(@, b)] ELSE replica
        /\ UNCHANGED <<sync, faults>>

\* addOrUpdatePeer
Updated(d, p) ==
    [q \in DOMAIN peers[d] \cup {p} |->
        IF q = p THEN [tip |-> replica[p].tip] ELSE peers[d][q]]

\* DISCOVERY, and HEARTBEAT from a peer already known.
HearPeer(d, p) ==
    /\ p # d /\ ~ Busy(d)
    /\ peers' = [peers EXCEPT ![d] = Updated(d, p)]
    /\ UNCHANGED <<replica, sync, inbox, faults>>
-----------------------------------------------------------------------------
(* Requests: each answer is that of the peer at the moment of the request *)

\* BLOCK_REQ is answered with a block that is still in memory.
HasBlock(p, i) == ~ Busy(p) /\ i >= replica[p].offset /\ i < Height(p)

Block(p, i) == SubSeq(replica[p].tip, 1, i)

\* The request for it fails: not there, refused or lost.
NoBlock(p, i) == ~ HasBlock(p, i) \/ "loss" \in Faults

\* CHECKPOINT_REQ is answered by whoever has pruned before.
HasCheckpoint(p) == ~ Busy(p) /\ replica[p].offset > 0

\* lastBlockHash of the latest checkpoint, and its stateRoot as well.
CheckpointTip(r) == SubSeq(r.tip, 1, r.offset - 1)

\* The one certificate is the sender's own: it must be in the active set.
HasValidCert(p) == replica[p].offset - 1 < BootstrapHeight \/ p \in Validators

\* checkpointHasQuorum, when the peers in asked answer.  Fewer than two that
\* answer at all are enough for a device with nothing to lose.
HasQuorum(d, p, asked) ==
    LET same == {q \in asked : /\ CheckpointTip(replica[q]) = CheckpointTip(replica[p])
                               /\ HasValidCert(q)}
    IN  /\ HasValidCert(p)
        /\ \/ Cardinality(same) + 1 >= CheckpointQuorum
           \/ /\ Cardinality(asked) + 1 < CheckpointQuorum
              /\ Height(d) <= 1 \/ replica[d].offset > 0

\* Mutant: a later checkpoint of any history is taken.
LinkedIfLater(r, s) == s.offset > r.offset

\* The link checked by deserializeCheckpointState: the received checkpoint is
\* the first one, or follows our own directly and on the same history.
Linked(r, s) ==
    r.offset > 0 => /\ s.offset - PruneTrigger = r.offset
                    /\ CheckpointTip(r) = SubSeq(s.tip, 1, r.offset - 1)

\* Mutant: the state root of the snapshot is not recomputed.
RestoredUnchecked(s) == [tip |-> CheckpointTip(s), state |-> s.state, offset |-> s.offset]

\* initFromCheckpoint: header of the latest checkpoint with the sender's current
\* state.  If the root does not fit, our own chain is gone all the same.
Restored(s) ==
    IF s.state = CheckpointTip(s)
    THEN [tip |-> CheckpointTip(s), state |-> s.state, offset |-> s.offset]
    ELSE Genesis
-----------------------------------------------------------------------------
(* trySync *)

\* Nobody is higher, but a tip at our height is smaller.
AdoptFork(d) ==
    /\ ~ Busy(d) /\ Best(d) = {}
    /\ \E p \in Rival(d) :
           sync' = [sync EXCEPT ![d] = Downloading(p, AnnouncedHeight(d, p))]
    /\ replica' = [replica EXCEPT ![d] = Genesis]
    /\ UNCHANGED <<peers, inbox, faults>>

\* Where the next block comes from: the best peer, or another one ahead of us.
Sources(d) ==
    {q \in Ahead(d) : /\ HasBlock(q, Height(d))
                      /\ q \in Best(d) \/ \E p \in Best(d) : NoBlock(p, Height(d))}

\* One block, or the beginning of a reorganisation if it is not a child of ours.
FetchNext(d) ==
    /\ ~ Busy(d)
    /\ \E q \in Sources(d) :
        LET b == Block(q, Height(d))
        IN  \/ /\ Verdict(replica[d], b) = "ok"
               /\ replica' = [replica EXCEPT ![d] = Extended(@, b)]
               /\ UNCHANGED sync
            \/ /\ Verdict(replica[d], b) = "prevHash"
               /\ replica' = [replica EXCEPT ![d] = Genesis]
               /\ sync' = [sync EXCEPT ![d] = Downloading(q, AnnouncedHeight(d, q))]
    /\ UNCHANGED <<peers, inbox, faults>>

\* Nobody has our next block: the checkpoint of the best peer.
FetchCheckpoint(d) ==
    /\ ~ Busy(d)
    /\ \A q \in Ahead(d) : NoBlock(q, Height(d))
    /\ \E p \in Best(d), asked \in SUBSET {q \in DOMAIN peers[d] : HasCheckpoint(q)} :
        /\ HasCheckpoint(p) /\ p \notin asked
        /\ "loss" \in Faults \/ \A q \in DOMAIN peers[d] : HasCheckpoint(q) => q \in asked \cup {p}
        /\ HasQuorum(d, p, asked)
        /\ Linked(replica[d], replica[p])
        /\ replica' = [replica EXCEPT ![d] = Restored(replica[p])]
        /\ sync' = IF Restored(replica[p]) = Genesis THEN sync
                   ELSE [sync EXCEPT ![d] = Downloading(p, AnnouncedHeight(d, p))]
    /\ UNCHANGED <<peers, inbox, faults>>

\* The loops that download what follows genesis or the checkpoint go on while
\* this holds.
NextFits(d, p) ==
    /\ sync[d].left > 0 /\ Height(d) < sync[d].target
    /\ HasBlock(p, Height(d)) /\ Verdict(replica[d], Block(p, Height(d))) = "ok"

Download(d) ==
    /\ \E p \in sync[d].peer :
        \/ /\ ~ NextFits(d, p) \/ "loss" \in Faults
           /\ sync' = [sync EXCEPT ![d] = Idle]
           /\ UNCHANGED replica
        \/ /\ NextFits(d, p)
           /\ sync' = [sync EXCEPT ![d].left = @ - 1]
           /\ replica' = [replica EXCEPT ![d] = Extended(@, Block(p, Height(d)))]
    /\ UNCHANGED <<peers, inbox, faults>>

\* Too few bytes of the block have come when requestBlock stops reading: prevHash
\* is 0 then, no child of ours, and the reorganisation begins.
FetchCut(d) ==
    /\ ~ Busy(d)
    /\ faults.cuts < MaxCuts
    /\ faults' = [faults EXCEPT !.cuts = @ + 1]
    /\ \E q \in Sources(d) : sync' = [sync EXCEPT ![d] = Downloading(q, AnnouncedHeight(d, q))]
    /\ replica' = [replica EXCEPT ![d] = Genesis]
    /\ UNCHANGED <<peers, inbox>>

TrySync(d) == AdoptFork(d) \/ FetchNext(d) \/ FetchCheckpoint(d)

\* setup() with empty memory: nothing is kept (CHAINSTATE_NVS_PERSISTENCE is 0).
Reboot(d) ==
    /\ faults.reboots < MaxReboots
    /\ faults' = [faults EXCEPT !.reboots = @ + 1]
    /\ replica' = [replica EXCEPT ![d] = Genesis]
    /\ peers' = [peers EXCEPT ![d] = NoPeers]
    /\ sync' = [sync EXCEPT ![d] = Idle]
    /\ inbox' = [inbox EXCEPT ![d] = {}]

Next ==
    \E d \in Devices :
        \/ \E l \in Labels : Produce(d, l)
        \/ \E b \in inbox[d] : HearBlock(d, b)
        \/ \E p \in Devices : HearPeer(d, p)
        \/ AdoptFork(d) \/ FetchNext(d) \/ FetchCut(d) \/ FetchCheckpoint(d)
        \/ Download(d)
        \/ Reboot(d)

\* Announcements are repeated every few seconds, so that some are heard; loop()
\* calls trySync every 10 s, and a download ends.  Only so many answers are cut off.
\* No block has to be produced and no BLOCK_FULL heard.
Fairness ==
    \A d \in Devices :
        /\ \A p \in Devices : SF_vars(HearPeer(d, p))
        /\ WF_vars(TrySync(d)) /\ WF_vars(Download(d))

Spec == Init /\ [][Next]_vars
FairSpec == Spec /\ Fairness
-----------------------------------------------------------------------------
(* Properties *)

\* Types; in particular a device never holds more blocks in chain[] than the
\* pruning of its own, gossiped and downloaded blocks allows (MAX_BLOCKS).
TypeOK ==
    /\ replica \in [Devices -> Replicas]
    /\ \A d \in Devices : Height(d) - replica[d].offset \in 0..PruneTrigger - 1
    /\ peers \in [Devices -> PeerTables]
    /\ \A d \in Devices : d \notin DOMAIN peers[d]
    /\ sync \in [Devices -> [peer : SUBSET Devices, target : 0..MaxHeight, left : 0..MaxDownload]]
    /\ inbox \in [Devices -> SUBSET Hashes]
    /\ faults \in [reboots : 0..MaxReboots, cuts : 0..MaxCuts]

\* Whatever was applied, pruned, thrown away or restored from another device's
\* memory: the state of a device is that of executing exactly its chain.
StateOfTip == \A d \in Devices : replica[d].state = replica[d].tip

\* A device with a checkpoint moves to another one only on the same history;
\* to change to another history it must start over from genesis.
CheckpointLinked ==
    [][\A d \in Devices :
         LET old == replica[d]
             new == replica'[d]
         IN  old.offset > 0 /\ new.offset > 0 =>
                IsPrefix(CheckpointTip(old), CheckpointTip(new))]_vars

\* A device that reorganises gives up its blocks before it has others.  Still,
\* unless a device restarts, the longest chain survives somewhere: devices
\* never give up their chains for each other's, however old what they heard is.
LongestKept ==
    [][faults'.reboots = 0 =>
         \A d \in Devices : \E e \in Devices : Height(e)' >= Height(d)]_vars

Agree == \A d, e \in Devices : replica[d].tip = replica[e].tip

\* Nobody who is ahead of d has the block d needs next any more.
LeftBehind(d) ==
    /\ \E p \in Devices : Height(p) > Height(d)
    /\ \A p \in Devices : Height(p) > Height(d) => Height(d) < replica[p].offset

\* Devices that keep hearing each other end on one chain, whoever forked,
\* missed blocks or restarted, unless the block one needs has been pruned.
Converges == <>[](Agree \/ \E d \in Devices : LeftBehind(d))

\* A device that knows of a higher chain gets that high at last.
CatchesUp ==
    \A d, p \in Devices : \A h \in 1..MaxHeight :
        (p \in DOMAIN peers[d] /\ AnnouncedHeight(d, p) = h) ~> Height(d) >= h
=============================================================================
