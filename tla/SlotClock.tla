----------------------------- MODULE SlotClock -----------------------------
(***************************************************************************)
(* The slot clock of each device (consensus.h), how devices agree on it,   *)
(* and checkBlockProduction with autoBootstrap (mirkonet.ino): who makes   *)
(* the next block, when, and how a new network gets its validators.        *)
(*                                                                         *)
(* Time is explicit: one tick of `now' is two seconds, and a tick passes   *)
(* only when every running device has checked for production and announced *)
(* itself if that was due; loop() does both more often than that.  millis()*)
(* of a device is now - boot[d].  Forks are the subject of ChainSync: here *)
(* an announced height is heard at once, and a device that lacks a block   *)
(* makes none.                                                             *)
(***************************************************************************)
EXTENDS Integers, FiniteSetsExt, SequencesExt

CONSTANTS
    Devices,            \* identifiers, compared by memcmp and hash32
    Founder,            \* the genesis validator, a key that no device has
    BlockInterval,      \* BLOCK_INTERVAL, in ticks
    SlotTolerance,      \* SLOT_TOLERANCE
    BootGrace,          \* BOOT_GRACE_PERIOD
    DiscoveryInterval,  \* DISCOVERY_INTERVAL
    EmptyInterval,      \* EMPTY_BLOCK_INTERVAL
    EpochLength,        \* EPOCH_LENGTH and BOOTSTRAP_HEIGHT
    PruneTrigger,       \* PRUNE_TRIGGER
    BootTimes,          \* when devices are switched on
    SetupTimes,         \* how long setup() takes until g_consensus.init
    Faults,             \* "discovery", "gossip": such messages may be lost
    MaxTime             \* bound of the model

ASSUME ClockAssumption ==
    /\ IsFiniteSet(Devices) /\ Devices \subseteq Nat
    /\ Founder \in Nat \ Devices
    /\ BlockInterval \in Nat \ {0} /\ SlotTolerance \in 1..BlockInterval
    /\ BootGrace \in Nat /\ DiscoveryInterval \in Nat \ {0}
    /\ EmptyInterval \in Nat \ {0} /\ EpochLength \in Nat \ {0}
    /\ PruneTrigger \in Nat \ {0, 1}
    /\ BootTimes \subseteq Nat /\ SetupTimes \subseteq Nat \ {0}
    /\ Faults \subseteq {"discovery", "gossip"}
    /\ MaxTime \in Nat

VARIABLES
    now,                \* real time
    boot,               \* when millis() of a device was 0
    start,              \* when its setup() reached g_consensus.init
    genesis,            \* genesisTime of a device, in real time
    peers,              \* the alive peers it knows
    announced,          \* when it announced itself last (g_lastDiscovery)
    checked,            \* the devices that checked for production in this tick
    lastSlot,           \* lastProducedSlot
    chain,              \* the blocks after genesis
    view,               \* how many blocks, genesis included, a device has
    pool,               \* mempool
    pending,            \* g_bootstrapFaucetPending, g_bootstrapStakePending
    lost                \* whether any message was lost (no variable of the code)

clockVars == <<boot, start>>
vars == <<now, boot, start, genesis, peers, announced, checked, lastSlot, chain, view,
          pool, pending, lost>>

Txs == Devices \X {"faucet", "stake"}
Never == -1             \* UINT32_MAX in lastProducedSlot, 0 in g_lastDiscovery

Running(d) == now >= start[d]

Init ==
    /\ now = 0
    /\ boot \in [Devices -> BootTimes]
    /\ \E setup \in [Devices -> SetupTimes] : start = [d \in Devices |-> boot[d] + setup[d]]
    /\ genesis = start
    /\ peers = [d \in Devices |-> {}]
    /\ announced = [d \in Devices |-> Never]
    /\ checked = {}
    /\ lastSlot = [d \in Devices |-> Never]
    /\ chain = <<>>
    /\ view = [d \in Devices |-> 1]
    /\ pool = [d \in Devices |-> {}]
    /\ pending = [d \in Devices |-> {}]
    /\ lost = FALSE
-----------------------------------------------------------------------------
(* Slots *)

Slot(d) == (now - genesis[d]) \div BlockInterval

\* Mutant: a slot may be used until its end.
InWindowAlways(d) == now - (genesis[d] + Slot(d) * BlockInterval) < BlockInterval

\* isWithinSlotWindow
InWindow(d) == now - (genesis[d] + Slot(d) * BlockInterval) < SlotTolerance

GraceOver(d) == Running(d) /\ now - genesis[d] >= BootGrace

\* What chain[] holds after the prunings: chainLen.
InMemory(d) == view[d] % PruneTrigger

\* Mutant: the clock is learnt only by an empty chain, which no device has.
AdoptsEmpty(d, p) ==
    /\ InMemory(d) < 1
    /\ now - genesis[p] < now - boot[d]
    /\ genesis[p] < genesis[d]

\* Mutant: a clock from before this device was switched on is taken too.
AdoptsAny(d, p) == InMemory(d) <= 1 /\ genesis[p] < genesis[d]

\* syncGenesisTime, called while chainLen is at most 1: the clock of a peer is
\* older than ours but not older than our millis().
Adopts(d, p) ==
    /\ InMemory(d) <= 1
    /\ now - genesis[p] < now - boot[d]
    /\ genesis[p] < genesis[d]

\* sendDiscovery and what handleDiscovery does with it on the devices in heard.
Announce(p) ==
    /\ Running(p)
    /\ announced[p] = Never \/ now - announced[p] >= DiscoveryInterval
    /\ announced' = [announced EXCEPT ![p] = now]
    /\ LET others == {d \in Devices \ {p} : Running(d)}
       IN  \E heard \in SUBSET others :
            /\ heard = others \/ "discovery" \in Faults
            /\ peers' = [d \in Devices |-> IF d \in heard THEN peers[d] \cup {p} ELSE peers[d]]
            /\ genesis' = [d \in Devices |-> IF d \in heard /\ Adopts(d, p)
                                             THEN genesis[p] ELSE genesis[d]]
            /\ lost' = (lost \/ heard # others)
    /\ UNCHANGED <<now, clockVars, checked, lastSlot, chain, view, pool, pending>>
-----------------------------------------------------------------------------
(* The chain as a device with the first n blocks sees it *)

Executed(n) == UNION {chain[i].txs : i \in 1..n - 1}
Funded(n) == {d \in Devices : <<d, "faucet">> \in Executed(n)}
Staked(n) == {d \in Devices : <<d, "stake">> \in Executed(n)}
Earned(n) == {chain[i].by : i \in 1..n - 1}

IsBootstrap(n) == n < EpochLength

\* activeSet after the last election: sorted by identifier.
ActiveSet(n) == SetToSortSeq(Staked(n - (n % EpochLength)) \cup {Founder}, <)

\* The transactions of a pool that succeed, in the order of their nonces.
Included(n, txs) ==
    LET faucets == {t \in txs \ Executed(n) : t[2] = "faucet"}
        funded == {t[1] : t \in {t \in Executed(n) \cup faucets : t[2] = "faucet"}}
    IN  faucets \cup {t \in txs \ Executed(n) : t[2] = "stake" /\ t[1] \in funded}

TipSlot(n) == IF n = 1 THEN 0 ELSE chain[n - 1].slot
-----------------------------------------------------------------------------
(* Production *)

\* The device's place among itself and the alive peers it knows.
Rank(d) == Cardinality({p \in peers[d] : p < d})

BootstrapTurn(d) == Slot(d) % (Cardinality(peers[d]) + 1) = Rank(d)

\* shouldProduce: round robin over the active set.
ValidatorTurn(d) ==
    LET active == ActiveSet(view[d]) IN active[(Slot(d) % Len(active)) + 1] = d

\* Mutant: later than the last one, which is UINT32_MAX at first.
NotYetLater(d) == lastSlot[d] # Never /\ Slot(d) > lastSlot[d]

\* The device has not used this slot.
NotYet(d) == Slot(d) # lastSlot[d]

\* shouldProd in checkBlockProduction
ShouldProduce(d) ==
    /\ NotYet(d) /\ InWindow(d)
    /\ IF IsBootstrap(view[d]) THEN BootstrapTurn(d) ELSE ValidatorTurn(d)

\* Mutant: the faucet is asked for again only after a restart, the stake never.
AutoBootstrapOnce(d) ==
    IF pending[d] = {} /\ view[d] = 1 THEN {<<d, "faucet">>} ELSE {}

\* What autoBootstrap submits.  Staking takes half of the balance, which is then
\* below GENESIS_PER_NODE for the rest of the bootstrap.
AutoBootstrap(d) ==
    LET funded == d \in Funded(view[d]) /\ d \notin Staked(view[d])
    IN  IF funded THEN {<<d, "stake">>} \ pending[d]
        ELSE IF d \in Funded(view[d]) \cup Earned(view[d]) THEN {}
        ELSE {<<d, "faucet">>} \ pending[d]

\* The faucet flag is cleared when the tokens have arrived, the other one when
\* a staker has that much again, which does not happen in the bootstrap.
Pending(d, new) ==
    (IF d \in Funded(view[d]) THEN pending[d] \ {<<d, "faucet">>} ELSE pending[d]) \cup new

\* addToMempool signs the copy that goes into the own pool.  What is broadcast has
\* no signature and every peer refuses it: only a block of d itself executes it.
Submitted(d, txs) == [pool EXCEPT ![d] = @ \cup txs]

\* createBlock refuses a slot that is not later than that of the previous block,
\* when it still has that block.
Refused(d) == InMemory(d) > 0 /\ Slot(d) <= TipSlot(view[d])

\* BLOCK_FULL on another device, whose pool holds nothing of this block: refused
\* if its slot is too far ahead of the device's own.
Hears(e, b) == view[e] = Len(chain) + 1 /\ b.slot <= Slot(e) + 1

Rest(d, before) == UNCHANGED <<lastSlot, chain, view>> /\ pool' = before

\* What checkBlockProduction does from the slot check on, with the pools as
\* autoBootstrap left them.
Produce(d, before, heard) ==
    LET b == [slot |-> Slot(d), by |-> d, txs |-> Included(view[d], before[d])]
        hasTx == before[d] # {}
        cleaned == [before EXCEPT ![d] = {}]
    IN  IF ~ ShouldProduce(d) \/ Slot(d) < view[d]
        THEN Rest(d, before)
        ELSE IF ~ hasTx /\ Slot(d) % EmptyInterval # 0
        THEN /\ lastSlot' = [lastSlot EXCEPT ![d] = Slot(d)]
             /\ pool' = before /\ UNCHANGED <<chain, view>>
        ELSE IF Refused(d)
        THEN /\ lastSlot' = [lastSlot EXCEPT ![d] = Slot(d)]
             /\ pool' = cleaned /\ UNCHANGED <<chain, view>>
        ELSE LET applied == {d} \cup {e \in heard : Hears(e, b)}
             IN  /\ chain' = Append(chain, b)
                 /\ view' = [e \in Devices |-> IF e \in applied THEN view[e] + 1 ELSE view[e]]
                 /\ lastSlot' = [e \in Devices |-> IF e \in applied THEN b.slot ELSE lastSlot[e]]
                 /\ pool' = cleaned

\* checkBlockProduction, once in each tick: not in the grace period, not while
\* a peer is ahead; during the bootstrap autoBootstrap comes first.
Check(d) ==
    /\ Running(d) /\ d \notin checked
    /\ checked' = checked \cup {d}
    /\ IF ~ GraceOver(d) \/ view[d] <= Len(chain)
       THEN UNCHANGED <<lastSlot, chain, view, pool, pending, lost>>
       ELSE LET others == {e \in Devices \ {d} : Running(e)}
                new == IF IsBootstrap(view[d]) THEN AutoBootstrap(d) ELSE {}
            IN  \E heard \in SUBSET others :
                  /\ heard = others \/ "gossip" \in Faults
                  /\ pending' = [pending EXCEPT ![d] = Pending(d, new)]
                  /\ Produce(d, Submitted(d, new), heard)
                  /\ lost' = (lost \/ (chain' # chain /\ heard # others))
    /\ UNCHANGED <<now, clockVars, genesis, peers, announced>>

\* trySync applies the next block; the clock plays no part in it.
TrySync(d) ==
    /\ Running(d) /\ view[d] <= Len(chain)
    /\ view' = [view EXCEPT ![d] = @ + 1]
    /\ UNCHANGED <<now, clockVars, genesis, peers, announced, checked, lastSlot, chain,
                   pool, pending, lost>>

Tick ==
    /\ now < MaxTime
    /\ \A d \in Devices : Running(d) =>
          /\ d \in checked
          /\ announced[d] # Never /\ now - announced[d] < DiscoveryInterval
    /\ now' = now + 1
    /\ checked' = {}
    /\ UNCHANGED <<clockVars, genesis, peers, announced, lastSlot, chain, view, pool,
                   pending, lost>>

Next == Tick \/ \E d \in Devices : Announce(d) \/ Check(d) \/ TrySync(d)

Spec == Init /\ [][Next]_vars
-----------------------------------------------------------------------------
(* Properties *)

TypeOK ==
    /\ now \in 0..MaxTime /\ checked \subseteq Devices /\ lost \in BOOLEAN
    /\ \A d \in Devices :
        /\ boot[d] < start[d] /\ genesis[d] \in boot[d] + 1..start[d]
        /\ peers[d] \subseteq Devices \ {d}
        /\ announced[d] \in Never..now /\ lastSlot[d] \in Never..MaxTime
        /\ view[d] \in 1..Len(chain) + 1
        /\ pool[d] \subseteq Txs /\ pending[d] \subseteq {d} \X {"faucet", "stake"}
    /\ \A i \in DOMAIN chain : chain[i].by \in Devices /\ chain[i].txs \subseteq Txs

OldestStart == Min({start[d] : d \in Devices})

\* A device that was on when the first clock of the network started, and heard
\* the announcements, produces by that clock: the grace period and not the
\* height of its chain is what makes it hear one in time.
CommonClock ==
    \A d \in Devices :
        /\ GraceOver(d) /\ ~ lost
        /\ boot[d] < OldestStart
        /\ start[d] - boot[d] + DiscoveryInterval <= BootGrace
        => genesis[d] = OldestStart

\* Devices that know each other and whose clocks differ by no more than the end
\* of a slot in which nobody starts a block never have their turns at the same
\* time, in the bootstrap and after it.
OneProducer ==
    \A d, e \in Devices :
        /\ d < e /\ Running(d) /\ Running(e)
        /\ peers[d] \cup {d} = peers[e] \cup {e}
        /\ view[d] = view[e]
        /\ genesis[d] - genesis[e] <= BlockInterval - SlotTolerance
        /\ genesis[e] - genesis[d] <= BlockInterval - SlotTolerance
        => ~ (ShouldProduce(d) /\ ShouldProduce(e))

\* When no message is lost, a new device needs two rounds of turns after its grace
\* period for its tokens and its stake, both of which only its own blocks can
\* execute, so that the first election finds it.
StakedInTime ==
    \A d \in Devices :
        /\ ~ lost /\ \A e \in Devices : genesis[e] = OldestStart
        /\ now - start[d] >= BootGrace + 2 * Cardinality(Devices) * BlockInterval
        => d \in Staked(view[d])

\* During the bootstrap, and without any transaction, blocks keep coming.
NeverIdle ==
    \A d \in Devices :
        /\ ~ lost /\ \A e \in Devices : genesis[e] = OldestStart
        /\ GraceOver(d) /\ IsBootstrap(view[d])
        => Slot(d) <= Max({TipSlot(view[d]), BootGrace \div BlockInterval}) + EmptyInterval
=============================================================================
