---------------------------- MODULE StakingEngine ----------------------------
(***************************************************************************)
(* The class StakingEngine (staking.h): stakes, unstaking with a cooldown, *)
(* claims, downtime slashing, jail, and the election of the active set.    *)
(*                                                                         *)
(* Every method is a constant operator on the replicated state record s    *)
(* (Ledger!State), so that block execution can compose them as the code    *)
(* does.  The array stakes[] is held as functions and sets on Nodes: an    *)
(* entry that claim() marks unused is never found or reused again, so all  *)
(* that remains of it is the slot it keeps occupying in stakeCount.        *)
(***************************************************************************)
EXTENDS Totals

CONSTANTS
    Nodes,              \* node identities: every staker, account and producer
    Founder,            \* the hardcoded genesis founder, whose key nobody holds
    Hash32,             \* NodeID.hash32(): the tie-break and the slot order
    MinStake,           \* MIN_STAKE
    MaxCandidates,      \* MAX_CANDIDATES: slots of stakes[]
    MaxValidators,      \* MAX_VALIDATORS: seats of the active set
    UnstakeCooldown,    \* UNSTAKE_COOLDOWN, in blocks
    DowntimeThreshold,  \* DOWNTIME_THRESHOLD, in missed slots
    SlashPct,           \* SLASH_DOWNTIME_PCT
    JailEpochs,         \* SLASH_JAIL_EPOCHS
    Word                \* 2^w for the width w of the code's unsigned integers

ASSUME NodesAssumption ==
    /\ IsFiniteSet(Nodes)
    /\ Founder \in Nodes
    /\ Hash32 \in [Nodes -> Nat]
    /\ \A m, n \in Nodes : Hash32[m] = Hash32[n] => m = n

ASSUME StakingAssumption ==
    /\ MinStake \in Nat \ {0}
    /\ MaxCandidates \in Nat \ {0}
    /\ MaxValidators \in Nat \ {0}
    /\ UnstakeCooldown \in Nat
    /\ DowntimeThreshold \in Nat \ {0}
    /\ SlashPct \in Nat
    /\ JailEpochs \in Nat
    /\ Word \in Nat \ {0}

\* Addition and subtraction of the code's unsigned integers: both wrap around.
UAdd(a, b) == (a + b) % Word
USub(a, b) == (a - b) % Word

-----------------------------------------------------------------------------
(* stake, unstake, claim *)

\* stake() returns 0: the amount reaches the minimum, the balance covers it,
\* and the staker has an entry or a slot of the array was never used.
CanStake(s, who, amount) ==
    /\ amount >= MinStake
    /\ s.balance[who] >= amount
    /\ who \in s.stakers \/ s.stakeCount < MaxCandidates

\* A fresh entry is zeroed (memset), so jail and misses of an older one vanish.
NewEntry(s, who) ==
    [s EXCEPT !.stakers = @ \cup {who},
              !.stakeCount = @ + 1,
              !.jailed = @ \ {who},
              !.jailUntil[who] = 0,
              !.missed[who] = 0]

Stake(s, who, amount) ==
    LET e == IF who \in s.stakers THEN s ELSE NewEntry(s, who)
    IN  [e EXCEPT !.balance[who] = @ - amount,
                  !.staked[who] = @ + amount,
                  !.candidates = @ \cup {who},
                  !.totalStaked = @ + amount]

\* Mutant: the amount is not compared with the stake.
CanUnstakeUnchecked(s, who, amount) == who \in s.stakers /\ who \in s.candidates

\* unstake() returns 0.  A staker below the minimum is no candidate any more.
CanUnstake(s, who, amount) ==
    /\ who \in s.stakers
    /\ who \in s.candidates
    /\ amount <= s.staked[who]

\* Mutant: the minimum is checked before the amount is taken off.
UnstakeLateCheck(s, who, amount, currentBlock) ==
    [s EXCEPT !.staked[who] = @ - amount,
              !.unstaking[who] = @ + amount,
              !.unstakeBlock[who] = currentBlock,
              !.totalStaked = @ - amount,
              !.candidates = IF s.staked[who] < MinStake THEN @ \ {who} ELSE @]

Unstake(s, who, amount, currentBlock) ==
    [s EXCEPT !.staked[who] = @ - amount,
              !.unstaking[who] = @ + amount,
              !.unstakeBlock[who] = currentBlock,
              !.totalStaked = @ - amount,
              !.candidates = IF s.staked[who] - amount < MinStake
                             THEN @ \ {who} ELSE @]

\* What claim() pays out: 0 before the (unsigned) cooldown has passed.
Claimable(s, who, currentBlock) ==
    IF /\ who \in s.stakers
       /\ USub(currentBlock, s.unstakeBlock[who]) >= UnstakeCooldown
    THEN s.unstaking[who] ELSE 0

Claim(s, who) ==
    [s EXCEPT !.unstaking[who] = 0,
              !.unstakeBlock[who] = 0,
              !.stakers = IF s.staked[who] = 0 /\ who \notin s.candidates
                          THEN @ \ {who} ELSE @]

-----------------------------------------------------------------------------
(* Slot schedule and liveness accounting *)

\* activeSet[] is sorted by hash32, so a seat is the number of smaller hashes.
Seat(s, n) == Cardinality({m \in s.activeSet : Hash32[m] < Hash32[n]})

IsSlotProducer(s, n, slot) ==
    /\ n \in s.activeSet
    /\ Seat(s, n) = slot % Cardinality(s.activeSet)

\* Mutant: the slot of the previous block counts as skipped.
SkippedByFromPrev(s, n, prevSlot, slot) ==
    {q \in prevSlot..(slot - 1) : IsSlotProducer(s, n, q)}

\* Slots strictly between two blocks whose scheduled producer was n.
SkippedBy(s, n, prevSlot, slot) ==
    {q \in (prevSlot + 1)..(slot - 1) : IsSlotProducer(s, n, q)}

\* The loop of recordSkippedSlotsForBlock: the block's own producer, the
\* jailed and those without a stake entry are not charged.
CountSkippedSlots(s, prevSlot, slot, producer) ==
    [s EXCEPT !.missed = [n \in Nodes |->
        IF n # producer /\ n \in s.stakers /\ n \notin s.jailed
        THEN s.missed[n] + Cardinality(SkippedBy(s, n, prevSlot, slot))
        ELSE s.missed[n]]]

\* Mutant: producing a block does not clear the misses.
RecordBlockNotCleared(s, who) == s

RecordBlockProduced(s, who) ==
    [s EXCEPT !.missed[who] = IF who \in s.stakers THEN 0 ELSE @]

-----------------------------------------------------------------------------
(* Election *)

UnjailExpired(s, epoch) ==
    [s EXCEPT !.jailed = {n \in @ : n \in s.stakers => epoch < s.jailUntil[n]}]

Eligible(s) == (s.stakers \cap s.candidates) \ s.jailed

\* slash(): a percentage of the stake, at least one token, at most all of it.
SlashAmount(stake, pct) ==
    LET cut == (stake * pct) \div 100
    IN  IF stake = 0 THEN 0 ELSE IF cut = 0 THEN 1 ELSE IF cut > stake THEN stake ELSE cut

\* The downtime loop of runElection with checkDowntime and slash inlined.  The
\* entries are independent of each other, so they are all handled at once.
PunishDowntime(s, epoch) ==
    LET checked == Eligible(s)
        guilty  == {n \in checked : s.missed[n] >= DowntimeThreshold}
        cut     == [n \in Nodes |-> IF n \in guilty
                                    THEN SlashAmount(s.staked[n], SlashPct) ELSE 0]
        left    == Less(s.staked, cut)
    IN  [s EXCEPT !.staked = left,
                  !.totalStaked = @ - Total(cut),
                  !.totalSupply = @ - Total(cut),
                  !.jailed = @ \cup guilty,
                  !.jailUntil = [n \in Nodes |-> IF n \in guilty
                                                 THEN epoch + JailEpochs ELSE @[n]],
                  !.candidates = {n \in @ : n \in guilty => left[n] >= MinStake},
                  !.missed = [n \in Nodes |-> IF n \in checked THEN 0 ELSE @[n]]]

Outranks(s, m, n) ==
    \/ s.staked[m] > s.staked[n]
    \/ s.staked[m] = s.staked[n] /\ Hash32[m] < Hash32[n]

\* The MaxValidators eligible stakers with the largest stakes.
TopStakers(s) ==
    {n \in Eligible(s) : Cardinality({m \in Eligible(s) : Outranks(s, m, n)}) < MaxValidators}

\* Mutant: the seats are given away before the downtime check.
RunElectionUnchecked(s, epoch) ==
    LET u == UnjailExpired(s, epoch)
    IN  [PunishDowntime(u, epoch) EXCEPT !.currentEpoch = epoch,
                                         !.activeSet = TopStakers(u)]

RunElection(s, epoch) ==
    LET p == PunishDowntime(UnjailExpired(s, epoch), epoch)
    IN  [p EXCEPT !.currentEpoch = epoch, !.activeSet = TopStakers(p)]
=============================================================================
