# MirkoNet in TLA+

MirkoNet is a proof-of-stake blockchain for ESP32 boards: an Arduino sketch
(`src/mirkonet/mirkonet.ino`) and eleven headers. This directory holds TLA+
modules that model its core logic, the TLC configurations that check them on
small instances, and proofs of what holds for every instance.

## The system

Every board runs the same `loop()` on one thread: commands from the serial port
and the web page, UDP gossip, one TCP request, `trySync()` every 10 s and
`checkBlockProduction()` every 0.5 s. Nothing preempts a handler; concurrency
is between boards, whose messages may be lost, late or refused.

| Component | Source | State | Operations | What makes it correct | Module |
|---|---|---|---|---|---|
| Staking engine | `staking.h` | `stakes[]`, `stakeCount`, `activeSet`, epoch, totals | stake, unstake, claim, runElection (unjail, downtime check, slash, seats), recordBlockProduced | totals agree with entries; candidates are backed; sentences are served; misses are charged once | `StakingEngine`, `Totals` |
| Ledger | `blockchain.h` | `accounts[]`, `chain[]`, `chainLen`, `chainOffset`, `blockFees`, snapshots | genesis, executeTx, createBlock, applyNetworkBlock | no token is created or lost; a block is executed as a whole or not at all; a transaction runs once | `Ledger`, `AtomicChain` |
| Mempool | `blockchain.h`, `mirkonet.ino` | `mempool[]`, `g_txNonce` | buildTx, addToMempool, drainMempool, removal by gossip | per-sender nonces in order; what was submitted is executed or refused | `Mempool`, `Drain` |
| Checkpoints | `blockchain.h`, `mirkonet.ino` | `checkpoints[]`, `finalized[]`, certificates | pruneChain, serializeState, deserializeCheckpointState, quorum | a restored replica equals the one that saved | `Ledger`, `ChainSync`, `CodeCache` |
| Clock and production | `consensus.h`, `mirkonet.ino` | `genesisTime`, `lastProducedSlot`, role, bootstrap flags | syncGenesisTime, shouldProduce, autoBootstrap, checkBlockProduction | at most one block per slot; the chain does not stop | `SlotClock` |
| Synchronisation | `mirkonet.ino` | peers' heights and tips | BLOCK_FULL, trySync, reorganisation | replicas converge | `ChainSync` |
| Contracts, code cache | `types.h`, `mirkonet.ino` | `contracts[]`, deploy and code caches | deploy, fetchCode, CONTRACT_INFO | code matches its hash; a block is not applied without it | `CodeCache` |
| Virtual machine | `mvm.h` | stack, memory, storage, gas | one opcode each, nested CALL | gas bounds the run; a failed call leaves no trace | `MVM` |
| Assembler | `assembler.h` | labels, code | assemble | labels resolve to their addresses | `Assembler` |
| Peer table | `network.h` | `peers[]` | addOrUpdatePeer, isAlive | table bounded, a live peer is not forgotten | partly in `ChainSync`, `SlotClock` |
| Signatures | `txauth.h` | key pair | sign, verify | external cryptography: valid or not | not modelled |
| Wi-Fi, web, LED | `wifi.h`, `led.h` | forms, HTML, colours | | no state the chain depends on | not modelled |

`executeTx` calls the staking engine directly, with references into
`accounts[]`. `createBlock` and `applyNetworkBlock` bracket the transactions with
`captureState` / `restoreState`; the election runs inside them when the height
reaches a multiple of `EPOCH_LENGTH`. `checkBlockProduction` drains the mempool,
calls `createBlock`, gossips the block and prunes; the gossip handler and
`trySync` call `applyNetworkBlock`.

Hard to get right, and what the properties are for (`hazards` in `PROJECT.json`
has every one with its line): rollback in the middle of a block, fees clipped to
the balance, 32-bit sums and differences that wrap around, tables that fill up,
`chainLen` that restarts at every prune and is used as a clock, a node that
leaves and comes back, and elections that release, punish and seat at once.

## Modules

`Totals` is the sum of a token function over a finite set. It counts tokens
instead of folding, so that the cardinality theorems of the library reach it.

`StakingEngine` has one operator per method of the class. They are constant
operators on the state record, because `executeTx` and the seal of a block
compose them. `stakes[]` becomes functions and sets over `Nodes`: an entry given
up by `claim()` is never found or reused, so what remains of it is only the slot
it occupies in `stakeCount`. The two selection sorts of the election are given
by their result (`TopStakers`, `Seat`). `hash32` is an injective constant.

`Ledger` is one replica. `state` is what `captureState` saves, `block` is the block
being executed with `blockSnapScratch` and the slot, `chainLen`, `chainOffset` and
`lastSlot` are the chain. A block is several steps: `BeginBlock` (the checks, and
`blockFees = 0`), any number of `ExecTx` / `FailTx`, then `SealBlock` (skipped
slots, reward, `recordBlockProduced`, election, append, prune), `AbortBlock`
(signature or state root), or a rejection. `mode` tells the producer, who leaves
failed transactions out, from a peer, who drops the block; they also differ in
whether the snapshot is taken before or after `blockFees` is cleared.

| Action | Code |
|---|---|
| `Init` | `initGenesis` |
| `BeginBlock` | `createBlock` to line 1027, `applyNetworkBlock` to line 1255 |
| `ExecTx`, `FailTx` | `executeTx` and the transaction loops |
| `AbortBlock` | signing fails, state root differs |
| `SealBlock` | the rest of both functions, `recordSkippedSlotsForBlock`, `runElection`, `pruneChain` |

Abstractions. A transaction is valid and carries its account's nonce, unless
it fails. The gas of CALL and DEPLOY is a field of the transaction;
contracts are left out. The founder signs nothing, because nobody holds its key
(`config.h:27` is a constant and node ids are hashes of public keys). Sums that
the code checks wrap around at `Word`; balances, stakes and totals are unbounded
and never reach 2^32 while fewer than 400,000 faucet payments are made.
`PRUNE_TRIGGER` is below `MAX_BLOCKS`, so that the branches for a full `chain[]`
are unreachable. `slashCount` and `lastProducedBlock` are never read and left out.

`Drain` is `drainMempool`: the sort, given by its result, and the selection loop, whose
state after each turn is `DrainRun`. `MCDrain` runs it on every small pool (`HighestNonce` and
`PoolSize` bound them), block after block, and states what it should return.

`Mempool` composes several devices, each with a pool, `g_txNonce` and a prefix of one
chain. What a transaction does is left out: it executes or it fails. `sent` holds
every broadcast, so that a message may be lost, late or heard twice.

| Action | Code |
|---|---|
| `Submit` | a command: `buildTx`, `addToMempool(tx, true)`, `broadcastTx` |
| `GossipTx` | `TX_GOSSIP`: `addToMempool` |
| `Produce` | `checkBlockProduction`: `drainMempool`, `createBlock` |
| `ProduceRefused` | the same when `createBlock` returns false |
| `GossipBlock` | `BLOCK_FULL`: the pool is cleaned, then `applyNetworkBlock` |
| `SyncBlock` | `trySync`: one block, the pool is left alone |
| `ResetToGenesis`, `Reboot` | `resetToGenesis`; `setup` with empty memory |

Abstractions. All devices follow one chain, and one that restarts finds another
that still has it; a device produces only on the whole chain, which is what
`networkNeedsSync` aims at. Forks belong to `ChainSync`. Blocks without
transactions change no nonce and are left out. A transaction is known by its
sender and nonce. `Faults` names what may go wrong in an instance: a transaction
fails (`tx`), `createBlock` refuses (`block`), a device starts over (`restart`).

`AtomicChain` is what a ledger promises to somebody who sees only finished blocks:
they come one at a time and whole, each mints its reward and its grants, and only
an election destroys tokens. `Ledger` implements it (`BlocksAtomic`); the refinement
mapping shows the snapshot while a block is open and the state otherwise.

`ChainSync` composes replicas that fork. A hash is the history of its block, so that
prevHash, index and state root come for free; the state is what was executed.

| Action | Code |
|---|---|
| `Produce` | `checkBlockProduction` on a device that is not behind, `pruneChain` |
| `HearBlock` | `BLOCK_FULL` |
| `HearPeer` | `DISCOVERY`, `HEARTBEAT` |
| `AdoptFork`, `FetchNext`, `FetchCheckpoint` | `trySync`: the smaller tip at our height, the next block or a reorganisation, the checkpoint of a peer (quorum, link, root) |
| `FetchCut` | the same when the block arrives without its prevHash |
| `Download` | the loops in `trySync` that load up to ten blocks |
| `Reboot` | `setup` with empty memory |

Abstractions. A request and its answer are one step, because the device that asks does nothing
else; while it waits it answers nobody (`Busy`). A gossiped block or an answer to a request
may be lost. `requestBlock` stops reading when nothing more is there; `FetchCut` is what
becomes of too short an answer. One `BLOCK_FULL` is kept per device: the next overwrites it.
The older entries of `checkpoints[]` are never read and left out.

`SlotClock` has explicit time, in ticks of two seconds. Each device has its own
`millis()`, counted from `boot`, and its own `genesisTime`. The chain is one; forks
are left to `ChainSync`.

| Action | Code |
|---|---|
| `Tick` | time passes when every device has done what is due |
| `Announce` | `sendDiscovery`, and `handleDiscovery` with `syncGenesisTime` on those that hear it |
| `Check` | `checkBlockProduction`: grace period, `autoBootstrap`, turn, slot, heartbeat blocks, `createBlock`, gossip with `lastProducedSlot` |
| `TrySync` | `trySync`: one block |

Abstractions. `autoBootstrap` puts its transactions into the device's own pool, where they are
signed; what it broadcasts is not, every peer refuses it, and no peer's pool gets anything in
the model. Nobody but the bootstrap submits a transaction. Peers do not time out.

`CodeCache` has the chain, and for each device its prefix of it, `contracts[]`,
the deploy cache, its own part of the mempool and its checkpoints. A code and its hash are one
value. `Callees` says which contracts the XCALLs of a code name. Only contracts that a CALL names
are fetched; a nested callee runs where its code happens to be, and elsewhere the XCALL pushes 0.
`Running` is what runs in a call, `ran` in a contract what has run in its calls so far. It stands
for what they left in storage and cost in gas, so that it is part of `Root`.

| Action | Code |
|---|---|
| `Deploy`, `Call` | the commands: `DeployCache::store`, `prepareCallTransaction`, `addToMempool`, `broadcastTx` |
| `HearTx` | `TX_GOSSIP`: the metadata of a DEPLOY is stored, whatever becomes of the transaction |
| `HearInfo` | `CONTRACT_INFO` |
| `Produce` | `checkBlockProduction`: prefetch from the peers in `R`, `createBlock`, prune |
| `Receive` | `BLOCK_FULL` or `trySync`: `deserializeBlock`, prefetch, `applyNetworkBlock`, `discardTempCode`, prune |
| `FetchCheckpoint` | `trySync` when nobody has the next block |
| `Reboot` | `setup` with empty memory |

Abstractions. Transactions travel unsigned and are refused (see below), so that a block has
only its producer's. Blocks without them are left out, and all devices follow
one chain. A producer has the whole chain. A device that restarts numbers its
transactions as if it knew the chain. A call makes all XCALLs of its code, whatever its
arguments are, and calls that have code succeed; `MVM` has what they really do. Each
block also records what its calls lacked at the producer (`lacks`), which is history: no action
reads it.

`MVM` is the machine, one action for each kind of instruction, with nested
`execute()` calls on a stack of frames, and around it the calls of one block:
`CreateBlock`, `StartCall`, `FinishCall`, `Seal` on the producer, the same calls and
`CheckRoot` on a replica, and on both the replay `applyHostHardwareEffects`
(`EndReplay`). Instructions read the bytes of the code, so a jump may go anywhere.

| Action | Code |
|---|---|
| `Push`, `Swap`, `Drop`, `Calculate`, `Replace`, `Jump`, `SStore`, `MStore`, `Gpio`, `Halt` | the cases of `execute()` |
| `Call`, `CallNothing`, `Return` | XCALL: before, without a target, after the nested `execute()` |
| `Fault` | every `setError`, and gas or code running out |

Abstractions. Events and logs are only taken off the stack. A contract's balance is 0, as in
the code. Of fees the gas is kept (`spent`), because it is in the state root by the balances;
`Ledger` has the rest, and nonces. Which codes a device has is `local`: any of `Holdings`,
chosen anew for each block, and unchanged within it. `CodeCache` deals with how code comes to
a device. `asked` and `sought` are history: the contracts that the XCALLs and the calls in the
block have looked for on the producer. Pins are levels; an ADC and a DAC change nothing that
is modelled.

`MachineStep` states one step of that machine as a function of `contracts[]` and the frames,
`Outcome`. Nothing is checked of it: the proofs need it, and prove that it agrees with the
actions.

`Assembler` gives the bytes for a list of instructions by both passes of `assemble` (`Offsets`
and `Labels`, then `Passed`); `MCVM` assembles the programs that `MVM` runs, among them the
relay contract built into the sketch.

## Runs

| Run | Instance | Shows |
|---|---|---|
| `ledger` | founder and 2 devices, 16 transactions, 2 per block, epochs of 2 blocks, prune at 3, height 6, slots to 7, words of 64; 1.9 million states | `TypeOK`, `SupplyConserved`, `StakeTotalExact`, `CandidateBacked`, `BlocksAtomic` (refinement of `AtomicChain`) |
| `downtime` | the same nodes, faucet and stake only, epochs of 3, height 12, slots to 15; 1.2 million states | `JailServed`, `ProducerNotPunished`, `SkippedSlotsChargedOnce` |
| `full_table` | 2 accounts for 3 nodes, height 5; 24 thousand states | `SupplyNeverOverspent`, `NonceMovesOn` |
| `drain` | 3 senders, nonces 0 to 2, pools of up to 5, 2 places per block; 11 thousand states | `DrainInOrder`, `DrainLosesNothing`, `DrainMaximal` |
| `mempool` | 2 producers, 3 nonces each, pools of 2, all faults; 430 thousand states | `TypeOK`, `ChainNonces`, `PoolLosesNothing` |
| `pool_served` | 2 producers and a third device, 2 nonces each, no faults; 1.4 thousand states | `OwnServed` (liveness) |
| `sync` | 2 devices, prune at 3, height 6, loss, one reboot, one answer cut off; 583 thousand states | `TypeOK`, `StateOfTip`, `CheckpointLinked`, `LongestKept`, `Converges` (liveness) |
| `clock` | 2 devices, switched on at 0, 1 or 6, set up in 1 or 4, announcements and gossip lost, epochs of 6, 25 ticks; 1.2 million states | `TypeOK`, `CommonClock`, `OneProducer`, `StakedInTime`, `NeverIdle` |
| `vm` | 96 pairs of programs, both on both devices or one of them missing on one device, 2 calls in a block, words of 10 bits, stack of 5, 3 storage and 2 memory places, depth 2, gas 700; 191 thousand states | `TypeOK`, `PcAligned`, `CodeRestored`, `ReplicaAccepts`, `BlocksEnd` (liveness) |
| `code` | a host, a validator and a follower, 3 names, 2 codes of which one calls a contract, caches of 2, prune at 4, 3 commands, 2 per block, one reboot; 84 thousand states | `TypeOK`, `ReplayAgrees`, `CodeIsDeployed`, `HostServes`, `BackupKept`, `BlocksArrive` (liveness) |
| `left_behind` | as `sync`, without reboot and cut | a violation, see below |
| `relay` | the relay contract alone, two blocks | a violation, see below |

The bounds of the runs of `Ledger` are `MaxHeight`, `MaxSlot` (both limit the exploration
only) and the set `Txs`. They are enough to reach what matters: two or more elections, a prune
before and after an unstake, a claim, a second stake of the same node, a slash that ends a
candidacy, a jail entered, served and left, an empty active set, a sum that wraps around, a
fee that is clipped, and a block dropped after each of these. `MinStake`, cooldowns and
thresholds are scaled down to small numbers in the order they have in `config.h`. There is no
symmetry: the order of the hashes and the roles of the two devices differ. Deadlock is not
checked in the runs of `Ledger`: they end at `MaxHeight`, and the chain may really stop when
no validator is left.

In the runs of `Mempool` three nonces are enough for one to be executed, one lost
and one waiting behind the gap; two producers for a block to reach a device whose
pool holds the same transaction; pools of two to be full. `MaxNonce`
bounds what a device builds, and with it everything else. Deadlock is not
checked there, since a device that has submitted all and produced all stops.

In `sync`, six blocks are two prunings for each device, so that there are checkpoints
that follow each other, that do not, and that belong to another fork. Two labels
make forks at every height with either tip the smaller. A download ends after
two blocks instead of ten. The bounds end the chain, so deadlock is not
checked. Only `MaxHeight`, `MaxReboots` and `MaxCuts` are bounds of the model.

In `clock`, the constants keep the proportions of `config.h`: a slot is three ticks
of which two are its window, the grace period seven, discovery every three; 25 ticks are
eight slots, and the first election is at the sixth block: two devices need four slots for
their tokens and stakes. One device may be running long before
the other, at the same time, or set up more slowly than it. `MaxTime` bounds it.

In `vm`, the programs reach every instruction, failures at every depth, a callee that
leaves its caller without gas, re-entrance, recursion up to the depth limit, endless
loops, a full stack and storage, and code whose last label is at byte 255. Words
of ten bits hold the addresses and let sums and differences wrap around. A
device that has run its block does nothing more, so deadlock is not checked.

In `code`, a cache of one entry is full as soon as a second name is heard of, and a
chain of four blocks is pruned. The two codes may be deployed under one name by two
devices. `MaxSubmits` and `MaxReboots` are bounds, `Offers` and `Rebooters` say who
may do what: the validator stays, the host of a contract may restart. In `nested` nothing
restarts and the cache has room, so that the nested call alone makes the difference; five
commands deploy both contracts and call one, the other, or both in one block.

The properties of the ledger are safety and its specification has no fairness;
nothing there depends on when a block comes. Elsewhere:

- `Mempool`: weak fairness of `Produce`, `SyncBlock` and of every `GossipTx`. `loop()`
  never ends and calls `checkBlockProduction` every 0.5 s and `trySync` every 10 s, slots
  come round, and a device that is behind is asked to sync before it produces. That a
  broadcast is heard at last is more than UDP gives; `OwnServed` does not need it.
  Nothing is assumed of `Submit` and of what may fail.
- `ChainSync`: strong fairness of `HearPeer`, because announcements are repeated every few
  seconds and each may be lost or meet a busy device; weak fairness of `TrySync` and
  `Download`. No block has to be produced and no BLOCK_FULL heard. A request that
  goes unanswered does not stop a block from being fetched for ever.
- `CodeCache`: a follower, a device whose user deploys nothing, asks for the next block
  again and again, and at some time all its peers answer. Nothing is assumed of the others.
- `MVM`: the machine goes on (`Progress`); nothing else runs meanwhile.
- `SlotClock` needs none: its time is explicit, and `Tick` waits for what `loop()` does in
  two seconds. `StakedInTime` and `NeverIdle` are bounds on time, not liveness. They
  speak of networks whose devices share a clock and lose no message: with a lost
  one neither holds.

What holds only under a condition says so in its formula. `Converges` leaves out a device
whose next block has been pruned everywhere (`left_behind` shows why). `OneProducer` needs
devices that know each other and clocks that are close. `BlocksArrive` needs a steady device
that has the block, room in the deploy cache, no contract that is deployed and called in one
block, and calls of contracts which call only what the same block calls too (`Closed`);
`sync_lost` shows the block that never arrives otherwise. `ReplayAgrees` and `ReplicaAccepts`
are about blocks in which the producer and the replica lack the same code.

## What the program says and does not do

Each of these runs checks one property, and TLC finds it violated.

| Run | Property | The code | Says |
|---|---|---|---|
| `left_behind` | `CatchesUp` | a device with a checkpoint takes only the one that adjoins it (`blockchain.h:518`), and one without needs a quorum unless it is at genesis: when it has missed a whole pruning it asks for a checkpoint for ever and refuses it | "Missing blocks before #%d (local height=%d); sync will catch up" `mirkonet.ino:1009` |
| `relay` | `RelayFollows` | `applyHostHardwareEffects` runs the calls of a block again on the state after it (`blockchain.h:1433`): a toggle finds what it has just stored and drives the pin the other way | "; ON  = GPIO LOW  (PUSH 0 GPIOWRITE)" `mirkonet.ino:2611`, "call relay 3 <pin>  Toggle" `mirkonet.ino:2704` |

### Also refuted

TLC refuted these as well; they are not kept as runs. Those about the mempool are
defined at the end of `Mempool.tla` and are checked by naming them in `MCMempool.cfg`
or `PoolServed.cfg`. The others were stated of `Ledger` with history variables.

- `ClaimWaitsForCooldown`: the cooldown of `claim()` is an unsigned difference of `chainLen`
  (`staking.h:64`), which restarts at a prune, so that a claim may pay at once. The
  message says "(claimable in " so many blocks, `blockchain.h:895`.
- `SlotsIncrease`: the slot of the newest block is forgotten at a prune (`blockchain.h:989`),
  and the next block may use it again, against "Refusing non-monotonic slot",
  `blockchain.h:990`.
- `MissesAreThisEpoch`: misses of a former candidate are kept and punish it epochs later
  (`staking.h:87`), with the message "missed %u blocks this epoch", `staking.h:89`.
- `JailNotEvaded`: unstake, claim and stake again, and the sentence is forgotten
  (`staking.h:26`), against "jailed until epoch %u", `staking.h:229`.
- `EveryoneServed`: `addToMempool` signs its own copy; what is broadcast is unsigned and
  everybody refuses it (`blockchain.h:1582`), so that only producers get anything executed,
  against "Stake %u submitted (next block)", `mirkonet.ino:450`. With the signed
  transaction broadcast (`Broadcast(t) == t`) it holds with room in every pool.
- `PoolDrains`: after one failed transaction a device's later ones wait for its nonce for
  ever (`mirkonet.ino:44`), against "Faucet request submitted (next block)", `mirkonet.ino:442`.
- `AcknowledgedIsPooled`: with a full pool the transaction is dropped and its nonce used
  up, and the command says "submitted".
- `ClaimableAfterCooldown`: `chainLen` stays below 16 and
  the cooldown is 50, so that a claim that does not wrap around is never paid.
- `NotStakingHasNoStake`: less than `MIN_STAKE`, left after a
  partial unstake, cannot be unstaked any more.
- `SlotsFullOfStakers`: entries given up are
  not reused; 16 joins by one device fill the table.
- `TransferArrives`: a transfer to a new owner,
  with a full account table, destroys the amount.

Further behaviour of the code that the models have and no property forbids:

- Block production ends for good when the active set is empty, or when nobody but the
  founder, whose key nobody has, is in it.
- A checkpoint comes with the sender's state of the moment. Its root fits only right after a
  prune; later on the device that takes it is back at genesis and begins again.
- A reorganisation drops the own chain first. Two devices that wait for each other's
  answers get none until one gives up.
- A device that joins a network that has been running for longer than itself never learns its
  clock: an age beyond its own `millis()` is refused, and blocks of a later slot than
  its own next one are refused when they are gossiped. `trySync` still applies them.
- With ten slots between heartbeats and a number of validators that divides ten, all
  heartbeat slots belong to one validator; without it an idle network makes no block.
- A callee gets `MVM_MAX_GAS` whatever the stipend of XCALL says; when it used more than
  its caller has left, the caller fails and is not charged for it. What a callee stored
  stays when only its caller fails; the failure of the transaction takes it back.
- In `drainMempool` senders whose first nonce is missing take places from senders that
  could be served (`blockchain.h:1636`); `DrainMaximal` speaks of those that have a place.
- `contractUsesHardwareOpcode` reads the target of a jump as an instruction, so that a
  contract may be replayed for nothing or not at all.
- A block that deploys a contract and calls it is refused by every other device: code is
  fetched before the block is executed. So is a DEPLOY for which a device has no entry left in its
  deploy cache, whose entries are never freed, or has one with another code.
- A validator whose own deploy cache has the code of a contract it does not host drops it
  after the block.

## Proofs

The theorems hold for every value of the constants that satisfies the assumptions of their
modules, which TLC evaluates in every run (`DrainAssumption`, `MempoolAssumption`,
`SyncAssumption`, `ClockAssumption`, `CodeCacheAssumption`, `AbsentAssumption`,
`MVMAssumption`, `AssemblerAssumption`, `NodesAssumption`, `StakingAssumption`,
`LedgerAssumption`). They are of the form `Spec => []P`, or `Spec => P` for an action property
and the refinement.

| Module | Theorem | States |
|---|---|---|
| `LedgerProofs` | `TypeCorrect` | `TypeOK`: in particular nothing is taken below zero |
| | `StakeTotal` | `StakeTotalExact` |
| | `Backing` | `CandidateBacked` |
| | `NeverOverspent` | `SupplyNeverOverspent` |
| | `Conservation` | `SupplyConserved`, if `MaxAccounts >= Cardinality(Nodes)` |
| `ChainProofs` | `SentencesServed` | `JailServed` |
| | `NoncesCount` | `NonceMovesOn` |
| | `ProducerSpared` | `ProducerNotPunished` |
| | `SkipsChargedOnce` | `SkippedSlotsChargedOnce` |
| | `LedgerImplementsAtomicChain` | `BlocksAtomic`, that is `Atomic!Spec` |
| `ChainSyncProofs` | `TypeCorrect` | `TypeOK` |
| | `StatesOfTips` | `StateOfTip` |
| | `CheckpointsLinked` | `CheckpointLinked` |
| | `LongestIsKept` | `LongestKept` |
| `MempoolProofs` | `DrainedInOrder` | `DrainInOrder` |
| | `DrainedOrStale` | `DrainLosesNothing` |
| | `DrainedMaximally` | `DrainMaximal` |
| | `PoolTypeCorrect` | `TypeOK` |
| | `ExecutedInOrder` | `ChainNonces` |
| | `PoolKeepsWhatCounts` | `PoolLosesNothing` |
| `CodeProofs` | `CodeTypeCorrect` | `TypeOK` |
| | `CodesAreDeployed` | `CodeIsDeployed` |
| | `ReplaysAgree` | `ReplayAgrees` |
| | `HostsServe` | `HostServes` |
| | `BackupsServe` | `BackupKept` |
| `ClockProofs` | `ClockTypeCorrect` | `TypeOK` |
| | `TurnsExclusive` | `OneProducer` |
| | `ClocksAgree` | `CommonClock` |
| | `BlocksKeepComing` | `NeverIdle`, if `QuickSetup` |
| | `StakesComeInTime` | `StakedInTime`, if `QuickSetup` and `EpochLength >= 2 * Cardinality(Devices) + 2` |
| `VMProofs` | `MachineKeepsBounds` | `TypeOK` |
| | `CodesComeBack` | `CodeRestored` |
| | `ReplicaAgrees` | `ReplicaAccepts` |
| | `InstructionsHit` (codes that were assembled) | `PcAligned` |
| | `AssembledAligned` | |

`Lemmas` is what they share. Sums are counted: `TotalPlus`, `TotalLess`, `TotalSet` and
`TotalDisjoint` say how the sum of a token function changes. The models write loops as
recursive functions, and the prover cannot apply the library's induction. `Least` is
what it has instead: a set of natural numbers that is not empty has a least member, so
that a claim about all of them is refuted at the first number where it fails.
`Recursion` gets from it that a loop has a value after every turn, `LoopStays` what the
turns keep, `Ranks` that "the element with i smaller ones" exists for every i, which is
what the models say of a sorted array.

### The ledger

`Conservation` needs its hypothesis: `full_table` checks the weaker property, and
`TransferArrives` shows how amounts vanish without it.

None of these is inductive. A block can be dropped at any moment, so the
snapshot must satisfy what the state does; in an open block `blockFees` is money,
in a sealed one it was paid out and the field is stale. `IInv` therefore says
`Sound` (types, accounts without an entry hold nothing, the stake total,
candidates backed) of the state and of the snapshot, and `Books` with the fees
counted the way that fits: `totalSupply` is at least the money there is, and equal
to it when the accounts fit. The proof goes bottom up: every operator on
states (`SetBalance`, `ChargeFee`, `Transfer`, `Faucet`, `Stake`, `Unstake`, `Claim`,
`Rewarded`, `PunishDowntime`, `RunElection`) keeps `Sound` and `KeepsBooks`; then
every action keeps `IInv`; then temporal logic. TLC agrees that `IInv` is an
invariant of the instance of `ledger`.

`JailServed` speaks of those who have a seat, but seats are given away at an
election and sentences in between, so `JailInv` claims more: nobody in jail has a
seat, and *nobody* outside jail has a sentence beyond the current epoch, in the
state and in the snapshot. Transactions only forget sentences (a fresh entry);
an election keeps the claim only if its epoch is not below the last one, which is
why `JailInv` also says `currentEpoch * EpochLength <= height`.

`NonceMovesOn` and `ProducerNotPunished` follow from `IInv` and the step alone.
For the nonce: `incrementNonce` does nothing for an owner without an account, but a
sender that passed the fee check has a balance, by `Sound` an account with it, and no
operator closes an account. For the producer: its misses are cleared by the
reward, before the election of the same block looks for misses.

`SkippedSlotsChargedOnce` bounds the sum of the new misses by the number of slots that
were skipped. A slot is the turn of one validator, so each slot charges at most one, and
the sum is counted slot by slot. That there are that many slots needs `SlotInv`: an open
block has a later slot than the last one, also when a prune has reset `lastSlot`.

The refinement needs to know how far an open block has got from its snapshot:
`CInv` says that since then as many nonces were counted as transactions executed,
some of these were grants of one size, and no seat was given away (`Progress`). Fees move tokens
and create none, so that every operator keeps the supply but `Faucet`, `Rewarded` and
the slashes of an election. `SealBlock` is then the one step that is visible outside.

### Mempool

`DrainMempool` is sorted, then a loop. `Ranks` gives the sorted pool; `RunInv` says of the
loop after every turn that what was selected is numbered without gaps and that what was
removed is either selected or stale, and `SelectInv` that nobody who has a place was passed
over. The second one is about the turns to come as well: places are given in the order
of the ids, and the senders that were looked at so far are the first of those to be served.

`PoolInv` is `TypeOK`, `ChainNonces` and that pools are finite. The chain's order rests on
`createBlock`: it compares nonces with those that the producer's own chain has counted, and
a producer produces on the whole chain. `ChainNonces` numbers places in blocks, so that
appending a block shifts nothing.

### Synchronisation

`SyncInv` is `TypeOK` and `StateOfTip`: the state moves with the tip in every branch of
`trySync`. `CheckpointLinked` follows from it and the step. `LongestKept` is harder: two
devices may give up their chains for each other's at the same time, and what a device
believes of a peer may be out of date. `KeptInv` therefore says that for every
tip that anybody has heard of, in an inbox or a peer table, some device still has a chain
that is longer or at the same height with a tip not larger. `Smaller` is a total order
on tips of one length, so that along whatever was given up there is always a best one left.

### Clock

`OneProducer` and the types need `Typed` only, which adds the domains of the variables to
`TypeOK`: a slot is a quotient, and two clocks that differ by no more than the idle part
of a slot name the same slot whenever both are in its window.
`CommonClock` needs `ClockInv`: no clock is older than the oldest start, no block comes
before the grace period of the oldest, everybody who runs was announced within the last
`DiscoveryInterval`, and whoever heard the holder of the oldest clock in time has taken it.

`NeverIdle` and `StakedInTime` depend on how the constants relate. A slot lasts 6 s in
`config.h`, three ticks, and the bootstrap 20 blocks. `QuickSetup` says that a device sets
itself up so fast that an announcement still reaches it within its grace period: with 5 s for
the announcement and 15 s of grace, in 10 s. This is a condition on the Wi-Fi and not
guaranteed by the code, which waits for it up to 15 s (`wifi.h:9`); `CommonClock` states the
same condition for the device it speaks of. `StakesComeInTime` also needs an epoch of two
blocks for each device and two more: with 20 blocks in `config.h` the theorem covers up to nine
devices. Nobody's stake is executed by another device's block, so that a
larger network may hold its first election before some have had two turns. The hypotheses hold
in the run `clock`.

Both theorems are about a network that is `Calm`: nothing was lost and all heard the first
clock in time. From the end of the first grace period on it has one clock, one set of peers
and one chain (`Regime`), and a check for production ends in one of three ways, because a
block of one's own is never refused: `Waits`, `Skips` and `Appends`. `BeatInv` is the
invariant of `NeverIdle`. Its last part says that every slot in which an empty block is due
has a block once the device whose turn it is has had it (`Passed`), or once the slot's first
tick is over: a tick waits for all devices, and by `Ranks` every slot is somebody's turn. To
keep that, `SlotsInv` has to say what a device may remember of the present slot: that it was
used, though no block was made, only where no empty block is due. `StakeInv` adds the pools. A
pool holds what its device has asked for and can be executed; what is pending is in the pool
or was executed, so that a pending flag never keeps a device from asking (`Pools`). `Progress`
counts turns: after the first of its turns behind the grace period a device has its tokens,
because `autoBootstrap` comes before the block in the same check, and after the second one its
stake. A turn is not lost when another device has used the slot, which `Reserved` excludes,
nor idled away, because a pool with a transaction makes a block. The bootstrap lasts so long
because blocks have increasing slots (`BootstrapLasts`).

### Code cache

`CodeInv` is `CoreInv` and `KeepInv`. The core is about the chain: the contracts of each
device are those of the root at its height, each root follows from the one before it by
running what the block's calls ran where they lacked what the block says (`Follows`), and each
contract of a root was deployed by a block below it with that code. For `ReplayAgrees` two
devices with one root have to run the same contracts in a call in which they lack the same.
`Running` is the least set that has the called contract and is closed under calling what is
runnable; `ReachIs` shows that it follows from the root and what is lacking alone (`Reach`),
although the root does not say whose code is here: what the contracts that run call is either
runnable or lacking. So a transaction leads from a root to a root (`RootStep`). `Path` carries
this through the transactions of a block. `CodeIsDeployed` is read off the core. `KeepInv` is
about who still has code: a steady device is never behind a block of its own, the code of what
waits in its pool is in its deploy cache, code comes into the cache by its own user alone,
what it called or hosts it has, and a validator borrows only what its user offered.
`HostServes` and `BackupKept` need all of these: a full cache forgets, and `discardTempCode`
drops a code that was borrowed.

### Machine

`VMInv` types every frame and every copy of `contracts[]`. The bounds on the stack come
from `Faulty`, those on words from the results of the operations; that AND, OR and XOR stay
within a word needs powers of two, which are counted as subsets of 1..n.

`CodesInv` follows a delegate call down: a contract whose code is not the one it had before
the block is being run by a frame that has saved a code, and the code that the outermost of
these frames has saved is the right one. Later frames of the same contract may save a wrong
one; the outermost is the last to put its copy back.

For `ReplicaAccepts` the machine has to be a function. `MachineStep` writes it as one:
`Outcome` is `contracts[]` and the frames after a step, and `MVM`'s actions agree with it
outside the replay (`Deterministic`). An instance of the module with parameters, `M(h, c, f)`,
is the machine on other contracts and frames, so that a run is a path of its states, `h` being
the contracts whose code the device has. Two paths from one state agree as far as both go,
hence a run has one end (`OneEnd`). `ReplicaInv` says that a path leads from `txSnap` to the
machine as it is now, that the calls which the producer has included lead from `base` to its
state between two transactions and at last to `sealed`, and that what is left of the block
leads the replica there: so each included call succeeds on the replica too, with the same gas,
and the roots are the same. A step depends on `h` only where XCALL looks for a contract
(`SameTargets`), and `sought` has all that were looked for: while the two devices agree on
those (`Alike`), a step of one is a step of the other (`StepAlike`). That a dropped call
leaves nothing behind is in the first part, that the replay does not is because `base` and
`sealed` are untouched by it.

`InstructionsHit` assumes that every deployed code is what `assemble` has made of some source:
all deployments of the sketch are (`webDeploy` and the commands of `mirkonet.ino`), and for
other bytes a jump may go into an operand. It has two halves. In the machine, `AlignInv` says
of every frame that it stands at an instruction of the code *that it will go on with*: while a
delegate call runs, that code is not in the contract but saved in the first of the later
frames of that contract that saved one, which will be the last to put it back (`RunsIn`). In
the assembler, `AssembledAligned` shows that what is accepted jumps to instructions alone.
`StartsAre` turns the recursion behind `Starts` into the least set that contains 0 and is
closed under reading on, so that the ends of the lines' code are shown to be those places. The
first pass takes a PUSH of a label for two bytes, and it is three if the label lies beyond
byte 255. This does no harm, because a code that is accepted has at most 255 bytes: the first
pass never counts more than the second (`PassesAgree`), so such a label would make the code
too long. For the same reason the target of a jump is never cut, and `off` never wraps around.

### Only model-checked

- Liveness under fairness is out of the prover's reach: `OwnServed`, `Converges`, `BlocksEnd`,
  `BlocksArrive`.
- Which bytes the assembler makes of a mnemonic, beyond how many: the run `vm` uses its output.

## Not modelled

- Signatures (`txauth.h`): a signature is valid or is not there.
- Wi-Fi, web pages, the serial console, the LED (`wifi.h`, `led.h`, half of `mirkonet.ino`):
  they show state or build transactions, which the models take as inputs.
- Saving to flash: switched off (`CHAINSTATE_NVS_PERSISTENCE` is 0, `config.h:53`), a restart
  finds nothing.
- The layout of messages and checkpoints, and the limits that only depend on byte
  counts (`MAX_CHECKPOINT_STATE_BYTES`).
- `disassemble` and the parsing of assembler lines.
- Eviction from a full peer table and `isAlive`: a peer, once known, stays known until a restart.
- Several replicas with full ledgers at once: a replica's ledger and the replicas' chains are
  separate modules, joined by the fact that a state is what its chain executes.

## Plan

1. The peer table: eviction and time-outs.
2. A device that refuses a block, in `Mempool`: what it takes out of its pool.
