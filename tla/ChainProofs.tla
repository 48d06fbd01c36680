----------------------------- MODULE ChainProofs -----------------------------
(***************************************************************************)
(* Proofs about the chain of blocks.  What a step of a block may never do, *)
(* repeat a transaction, punish the producer of the block, or charge a     *)
(* slot twice (Ledger!NonceMovesOn, ProducerNotPunished and                *)
(* SkippedSlotsChargedOnce); that Ledger implements AtomicChain            *)
(* (BlocksAtomic): every step is a step of the abstract chain or invisible *)
(* there, for which one has to know how far an open block has got from its *)
(* snapshot; and that whoever has a seat has served its sentence           *)
(* (JailServed).  Seats are given in elections only, but sentences are     *)
(* given and forgotten in between and blocks are rolled back: the          *)
(* invariant is about everybody outside jail, and about the snapshot too,  *)
(* and it needs the epoch never to go back, which follows from the height. *)
(***************************************************************************)
EXTENDS LedgerProofs

-----------------------------------------------------------------------------
(* The nonce *)

\* No account is ever forgotten, and no nonce is touched, from s to r.
KeepsNonces(s, r) == s.known \subseteq r.known /\ r.nonce = s.nonce

LEMMA SetBalanceNonces ==
    ASSUME NEW s, Sound(s), NEW n \in Nodes, NEW v \in Nat
    PROVE  KeepsNonces(s, SetBalance(s, n, v)) /\ Sound(SetBalance(s, n, v))
<1>1. Sound(SetBalance(s, n, v))
  BY SetBalanceFields DEF BalanceSet
<1>2. KeepsNonces(s, SetBalance(s, n, v))
  BY DEF SetBalance, KeepsNonces, Sound, States
<1> QED
  BY <1>1, <1>2

LEMMA ChargeFeeNonces ==
    ASSUME NEW s, Sound(s), NEW n \in Nodes, NEW fee \in Nat
    PROVE  KeepsNonces(s, ChargeFee(s, n, fee))
<1> DEFINE due == IF s.balance[n] < fee THEN s.balance[n] ELSE fee
           paid == SetBalance(s, n, s.balance[n] - due)
<1>1. s.balance[n] - due \in Nat
  BY DEF Sound, States, Amounts
<1> HIDE DEF due
<1>2. KeepsNonces(s, paid) /\ paid \in States
  BY <1>1, SetBalanceNonces DEF Sound
<1>3. ChargeFee(s, n, fee) = s \/ ChargeFee(s, n, fee) = [paid EXCEPT !.blockFees = @ + due]
  BY DEF ChargeFee, due
<1> HIDE DEF paid
<1> QED
  BY <1>2, <1>3 DEF KeepsNonces, States

\* executeTx counts the nonce only after the effect.
LEMMA EffectNonces ==
    ASSUME NEW s, Sound(s), NEW tx \in Txs, Succeeds(s, tx)
    PROVE  KeepsNonces(s, Effect(s, tx))
<1> DEFINE c == Charged(s, tx)
           who == tx.sender
<1>1. /\ who \in Nodes /\ tx.to \in Nodes /\ tx.value \in Nat
      /\ tx.gasPrice \in Nat /\ tx.gas \in Nat /\ tx.type \in TxTypes
  BY LedgerAssumption DEF TxRecords
<1>2. Sound(c) /\ KeepsNonces(s, c)
  BY <1>1, ChargeFeeKeeps, ChargeFeeNonces DEF Charged
<1> HIDE DEF c
<1>3. s \in States /\ c \in States
  BY <1>2 DEF Sound
<1>4. ASSUME NEW r, KeepsNonces(c, r), Effect(s, tx) = r
      PROVE  KeepsNonces(s, Effect(s, tx))
  BY <1>2, <1>4 DEF KeepsNonces
<1>5. CASE tx.type = "TRANSFER"
  <2> DEFINE taken == SetBalance(c, who, c.balance[who] - tx.value)
             r == SetBalance(taken, tx.to, taken.balance[tx.to] + tx.value)
  <2>1. Effect(s, tx) = r
    BY <1>5 DEF Effect, Transfer, c
  <2>2. c.balance[who] - tx.value \in Nat
    BY <1>1, <1>3, <1>5 DEF Succeeds, c, States, Amounts
  <2>3. Sound(taken) /\ KeepsNonces(c, taken)
    BY <1>1, <1>2, <2>2, SetBalanceNonces
  <2> HIDE DEF taken
  <2>4. taken.balance[tx.to] + tx.value \in Nat
    BY <1>1, <2>3 DEF Sound, States, Amounts
  <2>5. KeepsNonces(taken, r)
    BY <1>1, <2>3, <2>4, SetBalanceNonces
  <2> QED
    BY <1>4, <2>1, <2>3, <2>5 DEF KeepsNonces
<1>6. CASE tx.type = "STAKE"
  <2> DEFINE e == IF who \in c.stakers THEN c ELSE NewEntry(c, who)
  <2>1. e \in States
    BY <1>1, <1>2, <1>3, NewEntryFields
  <2>5. KeepsNonces(c, e)
    <3>1. CASE who \in c.stakers
      BY <3>1 DEF KeepsNonces
    <3>2. CASE who \notin c.stakers
      <4>1. e = NewEntry(c, who)
        BY <3>2
      <4> HIDE DEF e
      <4> QED
        BY <1>3, <4>1 DEF NewEntry, States, KeepsNonces
    <3> QED
      BY <3>1, <3>2
  <2>2. Stake(c, who, tx.value) = [e EXCEPT !.balance[who] = @ - tx.value,
                                            !.staked[who] = @ + tx.value,
                                            !.candidates = @ \cup {who},
                                            !.totalStaked = @ + tx.value]
    BY DEF Stake
  <2> HIDE DEF e
  <2>3. KeepsNonces(c, Stake(c, who, tx.value))
    BY <2>1, <2>2, <2>5 DEF KeepsNonces, States
  <2>4. Effect(s, tx) = Stake(c, who, tx.value)
    BY <1>6 DEF Effect, c
  <2> QED
    BY <1>4, <2>3, <2>4
<1>7. CASE tx.type = "UNSTAKE"
  <2>1. Effect(s, tx) = Unstake(c, who, tx.value, chainLen)
    BY <1>7 DEF Effect, c
  <2>2. KeepsNonces(c, Unstake(c, who, tx.value, chainLen))
    BY <1>3 DEF Unstake, States, KeepsNonces
  <2> QED
    BY <1>4, <2>1, <2>2
<1>8. CASE tx.type = "CLAIM"
  <2> DEFINE left == Claim(c, who)
             v == left.balance[who] + Claimable(c, who, chainLen)
  <2>1. Effect(s, tx) = SetBalance(left, who, v)
    BY <1>8 DEF Effect, ClaimedBack, c
  <2>2. Sound(left) /\ left.balance = c.balance
    BY <1>1, <1>2, ClaimFields
  <2>3. KeepsNonces(c, left)
    BY <1>3 DEF Claim, States, KeepsNonces
  <2> HIDE DEF left
  <2>4. v \in Nat
    <3>1. c.balance[who] \in Nat /\ c.unstaking[who] \in Nat
      BY <1>1, <1>3 DEF States, Amounts
    <3> QED
      BY <2>2, <3>1 DEF Claimable
  <2> HIDE DEF v
  <2>5. KeepsNonces(left, SetBalance(left, who, v))
    BY <1>1, <2>2, <2>4, SetBalanceNonces
  <2> QED
    BY <1>4, <2>1, <2>3, <2>5 DEF KeepsNonces
<1>9. CASE tx.type = "FAUCET"
  BY <1>3, <1>9 DEF Effect, Faucet, States, KeepsNonces
<1>10. CASE tx.type = "DATA"
  BY <1>2, <1>10 DEF Effect, c
<1>11. CASE tx.type \in {"CALL", "DEPLOY"}
  <2>1. Effect(s, tx) = ChargeFee(s, who, GasFee(tx))
    BY <1>11 DEF Effect
  <2>2. GasFee(tx) \in Nat
    <3>1. tx.gas * tx.gasPrice \in Nat
      BY <1>1
    <3> QED
      BY <3>1, StakingAssumption DEF GasFee
  <2> QED
    BY <1>1, <2>1, <2>2, ChargeFeeNonces
<1> QED
  BY <1>1, <1>5, <1>6, <1>7, <1>8, <1>9, <1>10, <1>11 DEF TxTypes

\* Whoever can pay a fee has an account, and a faucet opens one.
LEMMA SenderKnown ==
    ASSUME NEW s, Sound(s), NEW tx \in Txs, Succeeds(s, tx)
    PROVE  tx.sender \in Effect(s, tx).known
<1>1. tx.sender \in Nodes /\ tx.gasPrice \in Nat \ {0}
  BY LedgerAssumption DEF TxRecords
<1>2. CASE tx.type = "FAUCET"
  BY <1>2 DEF Effect, Faucet, Sound, States
<1>3. CASE tx.type # "FAUCET"
  <2>1. s.balance[tx.sender] >= tx.gasPrice
    BY <1>3 DEF Succeeds, CanAffordFee
  <2>2. tx.sender \in s.known
    BY <1>1, <2>1 DEF Sound
  <2> QED
    BY <2>2, EffectNonces DEF KeepsNonces
<1> QED
  BY <1>2, <1>3

LEMMA ExecTxCounts ==
    ASSUME IInv, NEW tx \in Txs, ExecTx(tx)
    PROVE  Total(state'.nonce) = Total(state.nonce) + 1
<1> DEFINE e == Effect(state, tx)
           who == tx.sender
<1>1. /\ Sound(state) /\ Succeeds(state, tx) /\ who \in Nodes
      /\ chainLen \in Nat /\ height \in Nat
  BY LedgerAssumption DEF IInv, TypeOK, ExecTx, height, TxRecords
<1>2. Sound(e) /\ KeepsNonces(state, e) /\ who \in e.known
  BY <1>1, EffectKeeps, EffectNonces, SenderKnown
<1>3. state' = IncrementNonce(e, who)
  BY DEF ExecTx
<1> HIDE DEF e
<1>4. state'.nonce = [state.nonce EXCEPT ![who] = state.nonce[who] + 1]
  BY <1>2, <1>3 DEF IncrementNonce, KeepsNonces, Sound, States
<1>5. state.nonce \in [Nodes -> Nat] /\ state.nonce[who] \in Nat
  BY <1>1 DEF Sound, States, Amounts
<1>6. /\ state'.nonce \in [Nodes -> Nat]
      /\ state'.nonce[who] = state.nonce[who] + 1
      /\ \A m \in Nodes \ {who} : state'.nonce[m] = state.nonce[m]
  BY <1>1, <1>4, <1>5
<1>7. Total(state'.nonce) = Total(state.nonce) - state.nonce[who] + state'.nonce[who]
  BY <1>1, <1>5, <1>6, NodesAssumption, TotalSet
<1>8. Total(state.nonce) \in Nat
  BY <1>5, NodesAssumption, TokensFinite
<1> QED
  BY <1>5, <1>6, <1>7, <1>8

\* An executed transaction moves its sender's nonce on, whatever its type and
\* however full accounts[] is, so that executeTx refuses it from then on.
THEOREM NoncesCount == Spec => NonceMovesOn
<1> DEFINE Counted == block # NoBlock /\ block' # NoBlock /\ block'.txCount > block.txCount =>
                          Total(state'.nonce) = Total(state.nonce) + 1
<1>1. ASSUME IInv, [Next]_vars PROVE [Counted]_vars
  <2>1. ASSUME NEW tx \in Txs, ExecTx(tx) PROVE Counted
    BY <1>1, <2>1, ExecTxCounts
  <2>2. ASSUME NEW mode \in {"create", "apply"}, NEW producer \in Devices,
               NEW slot \in 0..MaxSlot, BeginBlock(mode, producer, slot)
        PROVE  Counted
    BY <2>2 DEF BeginBlock
  <2>3. ASSUME block' = NoBlock PROVE Counted
    BY <2>3
  <2>4. ASSUME NEW tx \in Txs, FailTx(tx) PROVE [Counted]_vars
    BY <2>3, <2>4 DEF FailTx, DropBlock
  <2>5. ASSUME SealBlock \/ AbortBlock PROVE Counted
    BY <2>3, <2>5 DEF SealBlock, AbortBlock, DropBlock
  <2> QED
    BY <1>1, <2>1, <2>2, <2>4, <2>5 DEF Next
<1>2. Spec => [][Counted]_vars
  BY <1>1, Invariance, PTL DEF Spec
<1> QED
  BY <1>2 DEF NonceMovesOn

-----------------------------------------------------------------------------
(* The producer *)

\* p keeps its stake, and is in jail only if it already was.
Spared(s, r, p) == r.staked[p] = s.staked[p] /\ (p \in r.jailed => p \in s.jailed)

LEMMA SkipsCountedSpares ==
    ASSUME NEW s \in States, NEW p \in Nodes
    PROVE  Spared(s, SkipsCounted(s), p)
<1>1. Spared(s, CountSkippedSlots(s, lastSlot, block.slot, block.producer), p)
  BY DEF CountSkippedSlots, States, Spared
<1> QED
  BY <1>1 DEF SkipsCounted, Spared

\* The misses of the producer are cleared before the election looks at them.
LEMMA RewardedClears ==
    ASSUME NEW s, Sound(s), block.producer \in Nodes
    PROVE  LET p == block.producer
               r == Rewarded(s)
           IN  Spared(s, r, p) /\ (p \in r.stakers => r.missed[p] = 0)
<1> DEFINE p == block.producer
           v == s.balance[p] + BlockReward + s.blockFees
           paid == SetBalance(s, p, v)
           r == Rewarded(s)
<1>1. v \in Nat
  BY LedgerAssumption DEF Sound, States, Amounts
<1> HIDE DEF v
<1>2. OnlyAccounts(s, paid) /\ paid \in States /\ s \in States
  BY <1>1, SetBalanceFields DEF BalanceSet, Sound
<1>3. r = RecordBlockProduced([paid EXCEPT !.totalSupply = @ + BlockReward], p)
  BY DEF Rewarded, v
<1> HIDE DEF paid, r
<1>4. paid.staked = s.staked /\ paid.jailed = s.jailed
  BY <1>2 DEF OnlyAccounts, States
<1>5. /\ r.staked = paid.staked /\ r.jailed = paid.jailed /\ r.stakers = paid.stakers
      /\ r.missed = [paid.missed EXCEPT ![p] = IF p \in paid.stakers THEN 0 ELSE @]
  BY <1>2, <1>3 DEF RecordBlockProduced, States
<1>6. paid.missed \in [Nodes -> Nat]
  BY <1>2 DEF States, Amounts
<1> QED
  BY <1>4, <1>5, <1>6 DEF Spared, r

\* The election punishes stakers with misses, and nobody else.
LEMMA RunElectionSpares ==
    ASSUME NEW s \in States, NEW epoch, NEW p \in Nodes,
           p \in s.stakers => s.missed[p] = 0
    PROVE  Spared(s, RunElection(s, epoch), p)
<1> DEFINE u == UnjailExpired(s, epoch)
           guilty == {n \in Eligible(u) : u.missed[n] >= DowntimeThreshold}
           cut == [n \in Nodes |-> IF n \in guilty
                                   THEN SlashAmount(u.staked[n], SlashPct) ELSE 0]
           d == PunishDowntime(u, epoch)
           r == RunElection(s, epoch)
<1>1. /\ u = [s EXCEPT !.jailed = u.jailed]
      /\ u.jailed \subseteq s.jailed
  BY DEF UnjailExpired, States
<1> HIDE DEF u
<1>2. u \in States
  BY <1>1 DEF States
<1>3. u.staked = s.staked /\ u.missed = s.missed /\ u.stakers = s.stakers
  BY <1>1 DEF States
<1>4. s.staked \in [Nodes -> Nat]
  BY DEF States, Amounts
<1>5. p \notin guilty
  <2>1. ~(0 >= DowntimeThreshold)
    BY StakingAssumption
  <2> QED
    BY <1>3, <2>1 DEF Eligible
<1> HIDE DEF guilty
<1>6. d.staked = Less(u.staked, cut) /\ d.jailed = u.jailed \cup guilty
      /\ DOMAIN d = DOMAIN u
  BY <1>2 DEF PunishDowntime, States, guilty
<1>7. r.staked = d.staked /\ r.jailed = d.jailed
  <2>1. r = [d EXCEPT !.currentEpoch = epoch, !.activeSet = TopStakers(d)]
    BY DEF RunElection, u
  <2> HIDE DEF d, r
  <2> QED
    BY <1>2, <1>6, <2>1 DEF States
<1>8. d.staked[p] = s.staked[p]
  <2>1. cut[p] = 0
    BY <1>5
  <2> HIDE DEF cut
  <2>2. Less(u.staked, cut)[p] = s.staked[p] - 0
    BY <1>3, <1>4, <2>1 DEF Less
  <2> QED
    BY <1>4, <1>6, <2>2
<1> QED
  BY <1>1, <1>5, <1>6, <1>7, <1>8 DEF Spared, r

LEMMA SealBlockSpares ==
    ASSUME IInv, SealBlock
    PROVE  Spared(state, state', block.producer)
<1> DEFINE p == block.producer
           q == SkipsCounted(state)
           r == Rewarded(q)
           e == Elected(r)
<1>1. /\ block \in OpenBlocks /\ Sound(state) /\ lastSlot \in Nat
  BY DEF IInv, TypeOK, SealBlock
<1>2. block.slot \in Nat /\ p \in Nodes
  BY <1>1 DEF OpenBlocks, Devices
<1>3. state' = e
  BY DEF SealBlock
<1>4. Sound(q) /\ Spared(state, q, p)
  BY <1>1, <1>2, SkipsCountedKeeps, SkipsCountedSpares DEF Sound
<1> HIDE DEF q
<1>5. Sound(r) /\ Spared(q, r, p) /\ (p \in r.stakers => r.missed[p] = 0)
  BY <1>2, <1>4, RewardedKeeps, RewardedClears
<1> HIDE DEF r
<1>6. Spared(r, e, p)
  <2>1. CASE e = r
    BY <2>1 DEF Spared
  <2>2. CASE e = RunElection(r, (height + 1) \div EpochLength)
    BY <1>2, <1>5, <2>2, RunElectionSpares DEF Sound
  <2> QED
    BY <2>1, <2>2 DEF Elected
<1> HIDE DEF e
<1> QED
  BY <1>3, <1>4, <1>5, <1>6 DEF Spared

\* Whoever produces the last block of an epoch (distributeBlockRewards, then
\* runElection) is neither slashed nor jailed by the election of that block.
THEOREM ProducerSpared == Spec => ProducerNotPunished
<1> DEFINE Fair == SealBlock => /\ state'.staked[block.producer] = state.staked[block.producer]
                                /\ block.producer \in state'.jailed =>
                                       block.producer \in state.jailed
<1>1. ASSUME IInv, [Next]_vars PROVE [Fair]_vars
  BY <1>1, SealBlockSpares DEF Spared
<1>2. Spec => [][Fair]_vars
  BY <1>1, Invariance, PTL DEF Spec
<1> QED
  BY <1>2 DEF ProducerNotPunished
-----------------------------------------------------------------------------
(* The refinement *)

\* Neither tokens are created nor seats given away from s to r.
KeepsMint(s, r) == r.totalSupply = s.totalSupply /\ r.activeSet = s.activeSet

\* What a FAUCET creates.
Grant == IF isBootstrap THEN GenesisPerNode ELSE FaucetAmount

\* An open block has counted a nonce for every transaction it has executed
\* and has created a grant for some of them; the rest is as in its snapshot.
Progress ==
    block # NoBlock =>
        /\ state.activeSet = block.snap.activeSet
        /\ Total(state.nonce) = Total(block.snap.nonce) + block.txCount
        /\ \E g \in 0..block.txCount :
               state.totalSupply = block.snap.totalSupply + g * Grant

CInv == IInv /\ height \in Nat /\ Progress

-----------------------------------------------------------------------------
(* Transactions *)

LEMMA SetBalanceMint ==
    ASSUME NEW s, Sound(s), NEW n \in Nodes, NEW v \in Nat
    PROVE  KeepsMint(s, SetBalance(s, n, v))
  BY DEF SetBalance, KeepsMint, Sound, States

LEMMA ChargeFeeMint ==
    ASSUME NEW s, Sound(s), NEW n \in Nodes, NEW fee \in Nat
    PROVE  KeepsMint(s, ChargeFee(s, n, fee))
<1>1. OnlyPayment(s, ChargeFee(s, n, fee)) /\ s \in States
  BY ChargeFeeKeeps DEF Sound
<1> QED
  BY <1>1 DEF OnlyPayment, KeepsMint, States

LEMMA IncrementNonceMint ==
    ASSUME NEW s, Sound(s), NEW n \in Nodes
    PROVE  KeepsMint(s, IncrementNonce(s, n))
  BY DEF IncrementNonce, KeepsMint, Sound, States

\* Only a FAUCET creates tokens.
LEMMA EffectMint ==
    ASSUME NEW s, Sound(s), NEW tx \in Txs, Succeeds(s, tx)
    PROVE  /\ Effect(s, tx).activeSet = s.activeSet
           /\ Effect(s, tx).totalSupply = s.totalSupply \/
              Effect(s, tx).totalSupply = s.totalSupply + Grant
<1> DEFINE c == Charged(s, tx)
           who == tx.sender
<1>1. /\ who \in Nodes /\ tx.to \in Nodes /\ tx.value \in Nat
      /\ tx.gasPrice \in Nat /\ tx.gas \in Nat /\ tx.type \in TxTypes
  BY LedgerAssumption DEF TxRecords
<1>2. Sound(c) /\ KeepsMint(s, c)
  BY <1>1, ChargeFeeKeeps, ChargeFeeMint DEF Charged
<1> HIDE DEF c
<1>3. s \in States /\ c \in States
  BY <1>2 DEF Sound
<1>4. ASSUME NEW r, KeepsMint(c, r), Effect(s, tx) = r
      PROVE  KeepsMint(s, Effect(s, tx))
  BY <1>2, <1>4 DEF KeepsMint
<1>5. CASE tx.type = "TRANSFER"
  <2> DEFINE taken == SetBalance(c, who, c.balance[who] - tx.value)
             r == SetBalance(taken, tx.to, taken.balance[tx.to] + tx.value)
  <2>1. Effect(s, tx) = r
    BY <1>5 DEF Effect, Transfer, c
  <2>2. c.balance[who] - tx.value \in Nat
    BY <1>1, <1>3, <1>5 DEF Succeeds, c, States, Amounts
  <2>3. Sound(taken) /\ KeepsMint(c, taken)
    BY <1>1, <1>2, <2>2, SetBalanceNonces, SetBalanceMint
  <2> HIDE DEF taken
  <2>4. taken.balance[tx.to] + tx.value \in Nat
    BY <1>1, <2>3 DEF Sound, States, Amounts
  <2>5. KeepsMint(taken, r)
    BY <1>1, <2>3, <2>4, SetBalanceMint
  <2> HIDE DEF r
  <2> QED
    BY <1>4, <2>1, <2>3, <2>5 DEF KeepsMint
<1>6. CASE tx.type = "STAKE"
  <2> DEFINE e == IF who \in c.stakers THEN c ELSE NewEntry(c, who)
  <2>1. e \in States
    BY <1>1, <1>2, <1>3, NewEntryFields
  <2>2. KeepsMint(c, e)
    <3>1. CASE who \in c.stakers
      BY <3>1 DEF KeepsMint
    <3>2. CASE who \notin c.stakers
      <4>1. e = NewEntry(c, who)
        BY <3>2
      <4> HIDE DEF e
      <4> QED
        BY <1>3, <4>1 DEF NewEntry, States, KeepsMint
    <3> QED
      BY <3>1, <3>2
  <2>3. Stake(c, who, tx.value) = [e EXCEPT !.balance[who] = @ - tx.value,
                                            !.staked[who] = @ + tx.value,
                                            !.candidates = @ \cup {who},
                                            !.totalStaked = @ + tx.value]
    BY DEF Stake
  <2> HIDE DEF e
  <2>4. KeepsMint(c, Stake(c, who, tx.value))
    BY <2>1, <2>2, <2>3 DEF KeepsMint, States
  <2>5. Effect(s, tx) = Stake(c, who, tx.value)
    BY <1>6 DEF Effect, c
  <2> QED
    BY <1>4, <2>4, <2>5 DEF KeepsMint
<1>7. CASE tx.type = "UNSTAKE"
  <2>1. Effect(s, tx) = Unstake(c, who, tx.value, chainLen)
    BY <1>7 DEF Effect, c
  <2>2. KeepsMint(c, Unstake(c, who, tx.value, chainLen))
    BY <1>3 DEF Unstake, States, KeepsMint
  <2> QED
    BY <1>4, <2>1, <2>2 DEF KeepsMint
<1>8. CASE tx.type = "CLAIM"
  <2> DEFINE left == Claim(c, who)
             v == left.balance[who] + Claimable(c, who, chainLen)
  <2>1. Effect(s, tx) = SetBalance(left, who, v)
    BY <1>8 DEF Effect, ClaimedBack, c
  <2>2. Sound(left) /\ left.balance = c.balance
    BY <1>1, <1>2, ClaimFields
  <2>3. KeepsMint(c, left)
    BY <1>3 DEF Claim, States, KeepsMint
  <2> HIDE DEF left
  <2>4. v \in Nat
    <3>1. c.balance[who] \in Nat /\ c.unstaking[who] \in Nat
      BY <1>1, <1>3 DEF States, Amounts
    <3> QED
      BY <2>2, <3>1 DEF Claimable
  <2> HIDE DEF v
  <2>5. KeepsMint(left, SetBalance(left, who, v))
    BY <1>1, <2>2, <2>4, SetBalanceMint
  <2> QED
    BY <1>4, <2>1, <2>3, <2>5 DEF KeepsMint
<1>9. CASE tx.type = "FAUCET"
  BY <1>3, <1>9 DEF Effect, Faucet, States, Grant
<1>10. CASE tx.type = "DATA"
  BY <1>2, <1>10 DEF Effect, c, KeepsMint
<1>11. CASE tx.type \in {"CALL", "DEPLOY"}
  <2>1. Effect(s, tx) = ChargeFee(s, who, GasFee(tx))
    BY <1>11 DEF Effect
  <2>2. GasFee(tx) \in Nat
    <3>1. tx.gas * tx.gasPrice \in Nat
      BY <1>1
    <3> QED
      BY <3>1, StakingAssumption DEF GasFee
  <2> QED
    BY <1>1, <2>1, <2>2, ChargeFeeMint DEF KeepsMint
<1> QED
  BY <1>1, <1>5, <1>6, <1>7, <1>8, <1>9, <1>10, <1>11 DEF TxTypes

-----------------------------------------------------------------------------
(* The open block *)

LEMMA GrantNat == Grant \in Nat
  BY LedgerAssumption DEF Grant

LEMMA BeginBlockCInv ==
    ASSUME CInv, NEW mode \in {"create", "apply"}, NEW producer \in Devices,
           NEW slot \in 0..MaxSlot, BeginBlock(mode, producer, slot)
    PROVE  Progress'
<1>1. state \in States /\ Total(state.nonce) \in Nat
  <2>1. state \in States /\ state.nonce \in [Nodes -> Nat]
    BY DEF CInv, IInv, TypeOK, States, Amounts
  <2> QED
    BY <2>1, NodesAssumption, TokensFinite
<1>2. /\ state'.activeSet = state.activeSet /\ state'.nonce = state.nonce
      /\ state'.totalSupply = state.totalSupply
  BY <1>1 DEF BeginBlock, States
<1>3. block'.txCount = 0 /\ block'.snap \in {state, state'}
  BY DEF BeginBlock
<1>4. state.totalSupply \in Nat
  BY <1>1 DEF States
<1>5. 0 \in 0..0 /\ state.totalSupply = state.totalSupply + 0 * Grant'
  <2>1. Grant' \in Nat
    BY LedgerAssumption DEF Grant
  <2> QED
    BY <1>4, <2>1
<1> QED
  BY <1>1, <1>2, <1>3, <1>5 DEF Progress

LEMMA ExecTxCInv ==
    ASSUME CInv, NEW tx \in Txs, ExecTx(tx)
    PROVE  Progress'
<1> DEFINE e == Effect(state, tx)
           who == tx.sender
           snap == block.snap
<1>1. /\ Sound(state) /\ Succeeds(state, tx) /\ who \in Nodes
      /\ chainLen \in Nat /\ height \in Nat /\ block # NoBlock
      /\ block \in OpenBlocks
  BY LedgerAssumption DEF CInv, IInv, TypeOK, ExecTx, TxRecords
<1>2. Sound(e)
  BY <1>1, EffectKeeps
<1>3. /\ e.activeSet = state.activeSet
      /\ e.totalSupply = state.totalSupply \/ e.totalSupply = state.totalSupply + Grant
  BY <1>1, EffectMint
<1>4. state' = IncrementNonce(e, who) /\ KeepsMint(e, state')
  BY <1>1, <1>2, IncrementNonceMint DEF ExecTx
<1> HIDE DEF e
<1>5. block'.txCount = block.txCount + 1 /\ block'.snap = snap /\ block.txCount \in Nat
  BY <1>1 DEF ExecTx, OpenBlocks
<1>6. Total(state'.nonce) = Total(snap.nonce) + block'.txCount
  <2>1. Total(state'.nonce) = Total(state.nonce) + 1
    BY ExecTxCounts DEF CInv
  <2>2. Total(snap.nonce) \in Nat
    <3>1. snap.nonce \in [Nodes -> Nat]
      BY <1>1 DEF OpenBlocks, States, Amounts
    <3> QED
      BY <3>1, NodesAssumption, TokensFinite
  <2> QED
    BY <1>1, <1>5, <2>1, <2>2 DEF CInv, Progress
<1>7. state'.activeSet = snap.activeSet
  BY <1>1, <1>3, <1>4 DEF CInv, Progress, KeepsMint
<1>8. Grant' = Grant
  BY <1>3, <1>4 DEF Grant, isBootstrap, height, ExecTx, KeepsMint
<1>9. PICK g \in 0..block.txCount : state.totalSupply = snap.totalSupply + g * Grant
  BY <1>1 DEF CInv, Progress
<1>10. Grant \in Nat /\ snap.totalSupply \in Nat /\ g \in Nat
  BY <1>1, <1>5, GrantNat DEF OpenBlocks, States
<1>11. \E h \in 0..block'.txCount : state'.totalSupply = snap.totalSupply + h * Grant
  <2>1. CASE e.totalSupply = state.totalSupply
    BY <1>4, <1>5, <1>9, <2>1 DEF KeepsMint
  <2>2. CASE e.totalSupply = state.totalSupply + Grant
    <3>1. (g + 1) * Grant = g * Grant + Grant /\ g * Grant \in Nat
      BY <1>10
    <3>2. state'.totalSupply = snap.totalSupply + (g + 1) * Grant
      BY <1>4, <1>9, <1>10, <2>2, <3>1 DEF KeepsMint
    <3>3. g + 1 \in 0..block'.txCount
      BY <1>5, <1>9
    <3> QED
      BY <3>2, <3>3
  <2> QED
    BY <1>3, <2>1, <2>2
<1> QED
  BY <1>5, <1>6, <1>7, <1>8, <1>11 DEF Progress

LEMMA NextCInv == CInv /\ [Next]_vars => CInv'
<1> SUFFICES ASSUME CInv, [Next]_vars PROVE CInv'
  OBVIOUS
<1>1. IInv'
  BY NextIInv DEF CInv
<1>2. height' \in Nat
  <2>1. TypeOK'
    BY <1>1 DEF IInv
  <2>2. chainLen' \in Nat /\ chainOffset' \in Nat
    BY <2>1, LedgerAssumption DEF TypeOK
  <2>3. \A m, n \in Nat : m + n \in Nat
    OBVIOUS
  <2>4. chainOffset' + chainLen' \in Nat
    BY <2>2, <2>3
  <2> QED
    BY <2>4 DEF height
<1>3. ASSUME block' = NoBlock PROVE Progress'
  BY <1>3 DEF Progress
<1>4. ASSUME UNCHANGED vars PROVE Progress'
  BY <1>4 DEF vars, CInv, Progress, Grant, isBootstrap, height
<1>5. ASSUME NEW tx \in Txs, FailTx(tx) PROVE Progress'
  BY <1>3, <1>4, <1>5 DEF FailTx, DropBlock
<1>6. ASSUME SealBlock \/ AbortBlock PROVE Progress'
  BY <1>3, <1>6 DEF SealBlock, AbortBlock, DropBlock
<1>7. Progress'
  BY <1>4, <1>5, <1>6, BeginBlockCInv, ExecTxCInv DEF Next
<1> QED
  BY <1>1, <1>2, <1>7 DEF CInv

-----------------------------------------------------------------------------
(* The finished block *)

LEMMA SkipsCountedMint ==
    ASSUME NEW s \in States
    PROVE  KeepsMint(s, SkipsCounted(s)) /\ SkipsCounted(s).nonce = s.nonce
<1>1. LET q == CountSkippedSlots(s, lastSlot, block.slot, block.producer)
      IN  KeepsMint(s, q) /\ q.nonce = s.nonce
  BY DEF CountSkippedSlots, States, KeepsMint
<1> QED
  BY <1>1 DEF SkipsCounted, KeepsMint

LEMMA RewardedMint ==
    ASSUME NEW s, Sound(s), block.producer \in Nodes
    PROVE  /\ Rewarded(s).totalSupply = s.totalSupply + BlockReward
           /\ Rewarded(s).nonce = s.nonce
<1> DEFINE p == block.producer
           v == s.balance[p] + BlockReward + s.blockFees
           paid == SetBalance(s, p, v)
           minted == [paid EXCEPT !.totalSupply = @ + BlockReward]
<1>1. v \in Nat
  BY LedgerAssumption DEF Sound, States, Amounts
<1>2. Rewarded(s) = RecordBlockProduced(minted, p)
  BY DEF Rewarded
<1> HIDE DEF v
<1>3. KeepsMint(s, paid) /\ KeepsNonces(s, paid) /\ paid \in States
  BY <1>1, SetBalanceMint, SetBalanceNonces DEF Sound
<1> HIDE DEF paid
<1>4. Rewarded(s).totalSupply = paid.totalSupply + BlockReward /\ Rewarded(s).nonce = paid.nonce
  BY <1>2, <1>3 DEF RecordBlockProduced, States
<1> QED
  BY <1>3, <1>4 DEF KeepsMint, KeepsNonces

\* An election destroys what it slashes, and leaves the nonces alone.
LEMMA RunElectionMint ==
    ASSUME NEW s, Sound(s), NEW epoch \in Nat, Lost(s) + s.blockFees >= 0
    PROVE  /\ RunElection(s, epoch).totalSupply \in 0..s.totalSupply
           /\ RunElection(s, epoch).nonce = s.nonce
<1> DEFINE u == UnjailExpired(s, epoch)
           guilty == {n \in Eligible(u) : u.missed[n] >= DowntimeThreshold}
           cut == [n \in Nodes |-> IF n \in guilty
                                   THEN SlashAmount(u.staked[n], SlashPct) ELSE 0]
           d == PunishDowntime(u, epoch)
           r == RunElection(s, epoch)
<1>1. u = [s EXCEPT !.jailed = u.jailed] /\ s \in States /\ u \in States
  BY UnjailExpiredKeeps DEF UnjailExpired, Sound, States
<1> HIDE DEF u
<1>2. u.totalSupply = s.totalSupply /\ u.nonce = s.nonce /\ u.staked \in [Nodes -> Nat]
  BY <1>1 DEF States, Amounts
<1>3. Total(cut) \in Nat
  <2>1. cut \in [Nodes -> Nat]
    BY <1>2, SlashAmountBound, StakingAssumption
  <2> QED
    BY <2>1, NodesAssumption, TokensFinite
<1>4. d.totalSupply = u.totalSupply - Total(cut) /\ d.nonce = u.nonce /\ DOMAIN d = DOMAIN u
  BY <1>1 DEF PunishDowntime, States
<1>5. r.totalSupply = d.totalSupply /\ r.nonce = d.nonce
  <2>1. r = [d EXCEPT !.currentEpoch = epoch, !.activeSet = TopStakers(d)]
    BY DEF RunElection, u
  <2> HIDE DEF d, r
  <2> QED
    BY <1>1, <1>4, <2>1 DEF States
<1>6. r.totalSupply \in Nat /\ s.totalSupply \in Nat
  BY <1>1, RunElectionKeeps DEF Sound, States
<1> HIDE DEF cut, d, r
<1>7. r.totalSupply = s.totalSupply - Total(cut)
  BY <1>2, <1>4, <1>5
<1>8. r.totalSupply \in 0..s.totalSupply /\ r.nonce = s.nonce
  BY <1>2, <1>3, <1>4, <1>5, <1>6, <1>7
<1> QED
  BY <1>8 DEF r

LEMMA SealImplements ==
    ASSUME CInv, SealBlock
    PROVE  Atomic!Block
<1> DEFINE q == SkipsCounted(state)
           r == Rewarded(q)
           e == Elected(r)
           n == block.txCount
           snap == block.snap
<1>1. /\ block # NoBlock /\ block \in OpenBlocks /\ Sound(state) /\ Books(state, 0)
      /\ lastSlot \in Nat /\ chainLen \in Nat /\ chainOffset \in Nat /\ height \in Nat
  BY LedgerAssumption DEF CInv, IInv, TypeOK, SealBlock
<1>2. /\ block.slot \in Nat /\ block.producer \in Nodes /\ n \in 0..MaxTxnPerBlock
      /\ snap \in States
  BY <1>1 DEF OpenBlocks, Devices
<1>3. /\ state' = e /\ block' = NoBlock
      /\ height' = height + 1
  BY <1>1 DEF SealBlock, height
<1>4. Sound(q) /\ KeepsBooks(state, q) /\ KeepsMint(state, q) /\ q.nonce = state.nonce
      /\ q.blockFees = state.blockFees
  BY <1>1, <1>2, SkipsCountedKeeps, SkipsCountedMint DEF Sound
<1> HIDE DEF q
<1>5. /\ Sound(r) /\ r.totalSupply = q.totalSupply + BlockReward /\ r.nonce = q.nonce
      /\ Lost(r) + r.blockFees >= Lost(q)
  BY <1>2, <1>4, RewardedKeeps, RewardedMint
<1>6. Lost(r) + r.blockFees >= 0
  <2>1. /\ Lost(state) \in Int /\ Lost(q) \in Int /\ Lost(r) \in Int
        /\ r.blockFees \in Nat
    <3>1. ASSUME NEW x \in States PROVE Lost(x) \in Int /\ x.blockFees \in Nat
      BY MoneyNat DEF Lost, States
    <3> QED
      BY <1>1, <1>4, <1>5, <3>1 DEF Sound
  <2> QED
    BY <1>1, <1>4, <1>5, <2>1 DEF Books, KeepsBooks
<1> HIDE DEF r
<1>7. /\ e.nonce = r.nonce
      /\ IF height' % EpochLength = 0 THEN e.totalSupply \in 0..r.totalSupply
         ELSE e.totalSupply = r.totalSupply
  <2>1. CASE (height + 1) % EpochLength = 0
    <3>1. (height + 1) \div EpochLength \in Nat
      BY <1>1, LedgerAssumption
    <3>2. e = RunElection(r, (height + 1) \div EpochLength)
      BY <2>1 DEF Elected
    <3> HIDE DEF e
    <3> QED
      BY <1>3, <1>5, <1>6, <2>1, <3>1, <3>2, RunElectionMint
  <2>2. CASE (height + 1) % EpochLength # 0
    <3>1. e = r
      BY <2>2 DEF Elected
    <3> QED
      BY <1>3, <2>2, <3>1
  <2> QED
    BY <2>1, <2>2
<1> HIDE DEF e
<1>8. committed = snap /\ committed' = e
  BY <1>1, <1>3 DEF committed
<1>9. Total(e.nonce) = Total(snap.nonce) + n
  BY <1>1, <1>4, <1>5, <1>7 DEF CInv, Progress
<1>10. PICK g \in 0..n : state.totalSupply = snap.totalSupply + g * Grant
  BY <1>1 DEF CInv, Progress
<1>11. Grant \in Atomic!Grants
  BY DEF Grant, Atomic!Grants, isBootstrap
<1>12. r.totalSupply = snap.totalSupply + BlockReward + g * Grant
  <2>1. snap.totalSupply \in Nat /\ g \in Nat /\ BlockReward \in Nat
    BY <1>2, LedgerAssumption DEF States
  <2>2. g * Grant \in Nat
    BY <2>1, GrantNat
  <2> QED
    BY <1>4, <1>5, <1>10, <2>1, <2>2 DEF KeepsMint
<1> DEFINE funded == committed.totalSupply + BlockReward + g * Grant
<1>13. IF height' % EpochLength = 0 THEN committed'.totalSupply \in 0..funded
       ELSE committed'.totalSupply = funded
  BY <1>7, <1>8, <1>12
<1>14. Total(committed'.nonce) = Total(committed.nonce) + n
  BY <1>8, <1>9
<1> QED
  BY <1>2, <1>3, <1>10, <1>11, <1>13, <1>14 DEF Atomic!Block

LEMMA InitImplements == Init => Atomic!Init
<1> SUFFICES ASSUME Init PROVE Atomic!Init
  OBVIOUS
<1>1. committed = GenesisState /\ height = 1
  BY DEF Init, committed, height
<1>2. GenesisState.totalSupply = GenesisPerNode /\ GenesisState.nonce = [n \in Nodes |-> 0]
  BY DEF GenesisState
<1>3. Total([n \in Nodes |-> 0]) = 0
  <2>1. [n \in Nodes |-> 0] = Only(Nodes, Founder, 0)
    BY DEF Only
  <2>2. Founder \in Nodes /\ 0 \in Nat
    BY NodesAssumption
  <2>3. Total(Only(Nodes, Founder, 0)) = 0
    BY <2>2, TotalOnly
  <2> QED
    BY <2>1, <2>3
<1> QED
  BY <1>1, <1>2, <1>3 DEF Atomic!Init

\* Every step of a replica is a finished block or nothing at all for somebody
\* who cannot look into a block that is being executed: createBlock and
\* applyNetworkBlock apply a block as a whole or leave no trace of it.
THEOREM LedgerImplementsAtomicChain == Spec => BlocksAtomic
<1> DEFINE seen == <<height, committed.totalSupply, Total(committed.nonce)>>
<1>1. Init => Atomic!Init
  BY InitImplements
<1>2. Init => CInv
  BY InitIInv DEF CInv, Progress, Init, height
<1>3. ASSUME CInv, [Next]_vars PROVE [Atomic!Block]_seen
  <2>1. ASSUME NEW mode \in {"create", "apply"}, NEW producer \in Devices,
               NEW slot \in 0..MaxSlot, BeginBlock(mode, producer, slot)
        PROVE  UNCHANGED seen
    <3>1. state \in States /\ block = NoBlock /\ block' # NoBlock
      BY <1>3, <2>1 DEF CInv, IInv, TypeOK, BeginBlock, NoBlock
    <3>2. committed = state /\ committed' \in {state, state'}
      BY <2>1, <3>1 DEF committed, BeginBlock
    <3>3. state'.totalSupply = state.totalSupply /\ state'.nonce = state.nonce
      BY <2>1, <3>1 DEF BeginBlock, States
    <3> QED
      BY <2>1, <3>2, <3>3 DEF height, BeginBlock
  <2>2. ASSUME NEW tx \in Txs, ExecTx(tx) PROVE UNCHANGED seen
    <3>1. block # NoBlock /\ block' # NoBlock /\ block'.snap = block.snap
      <4>1. block # NoBlock /\ block \in OpenBlocks /\ block' \in OpenBlocks
        BY <1>3, <2>2, NextIInv DEF CInv, IInv, TypeOK, ExecTx, OpenBlocks, NoBlock
      <4> QED
        BY <2>2, <4>1, OpenOrNot DEF ExecTx, OpenBlocks
    <3> QED
      BY <2>2, <3>1 DEF committed, height, ExecTx
  <2>3. ASSUME block # NoBlock, DropBlock PROVE UNCHANGED seen
    BY <2>3 DEF DropBlock, committed, height
  <2>4. ASSUME NEW tx \in Txs, FailTx(tx) PROVE UNCHANGED seen
    BY <2>3, <2>4 DEF FailTx, vars, committed, height
  <2>5. ASSUME AbortBlock PROVE UNCHANGED seen
    BY <2>3, <2>5 DEF AbortBlock
  <2>6. ASSUME UNCHANGED vars PROVE UNCHANGED seen
    BY <2>6 DEF vars, committed, height
  <2> QED
    BY <1>3, <2>1, <2>2, <2>4, <2>5, <2>6, SealImplements DEF Next
<1> QED
  BY <1>1, <1>2, <1>3, NextCInv, PTL DEF Spec, BlocksAtomic, Atomic!Spec
-----------------------------------------------------------------------------
(* Jail *)

\* No seat for the jailed, and nobody outside jail has a sentence to serve.
Jailing(s) ==
    /\ s.activeSet \cap s.jailed = {}
    /\ \A n \in Nodes \ s.jailed : s.jailUntil[n] <= s.currentEpoch

\* The chain is long enough for the epoch it is in.
EpochReached(s) == s.currentEpoch * EpochLength <= height

\* From s to r no seat changes and no sentence is given; some may be forgotten
\* (the fresh entry of stake()).
OnlyForgets(s, r) ==
    /\ r.activeSet = s.activeSet /\ r.currentEpoch = s.currentEpoch
    /\ r.jailed \subseteq s.jailed
    /\ \A n \in Nodes :
        \/ r.jailUntil[n] = s.jailUntil[n] /\ (n \in s.jailed => n \in r.jailed)
        \/ r.jailUntil[n] = 0

\* The fields Jailing looks at.
SameSentences(s, r) ==
    /\ r.activeSet = s.activeSet /\ r.currentEpoch = s.currentEpoch
    /\ r.jailed = s.jailed /\ r.jailUntil = s.jailUntil

-----------------------------------------------------------------------------
(* Transactions *)

LEMMA SameForgets ==
    ASSUME NEW s, NEW r, SameSentences(s, r)
    PROVE  OnlyForgets(s, r)
BY DEF SameSentences, OnlyForgets

LEMMA ForgetsTwice ==
    ASSUME NEW s, NEW r, NEW q, OnlyForgets(s, r), OnlyForgets(r, q)
    PROVE  OnlyForgets(s, q)
<1>1. /\ q.activeSet = s.activeSet /\ q.currentEpoch = s.currentEpoch
      /\ q.jailed \subseteq s.jailed
  BY DEF OnlyForgets
<1>2. ASSUME NEW n \in Nodes
      PROVE  \/ q.jailUntil[n] = s.jailUntil[n] /\ (n \in s.jailed => n \in q.jailed)
             \/ q.jailUntil[n] = 0
  BY DEF OnlyForgets
<1> QED
  BY <1>1, <1>2 DEF OnlyForgets

\* To forget a sentence keeps what is claimed of the others.
LEMMA ForgetsKeeps ==
    ASSUME NEW s \in States, NEW r \in States, OnlyForgets(s, r), Jailing(s)
    PROVE  Jailing(r)
<1>1. r.activeSet \cap r.jailed = {}
  BY DEF OnlyForgets, Jailing
<1>2. ASSUME NEW n \in Nodes \ r.jailed PROVE r.jailUntil[n] <= r.currentEpoch
  <2>1. r.currentEpoch = s.currentEpoch /\ s.currentEpoch \in Nat
    BY DEF OnlyForgets, States
  <2>2. CASE r.jailUntil[n] = 0
    BY <2>1, <2>2
  <2>3. CASE r.jailUntil[n] = s.jailUntil[n] /\ (n \in s.jailed => n \in r.jailed)
    BY <1>2, <2>1, <2>3 DEF Jailing
  <2> QED
    BY <2>2, <2>3 DEF OnlyForgets
<1> QED
  BY <1>1, <1>2 DEF Jailing

LEMMA SetBalanceForgets ==
    ASSUME NEW s, Sound(s), NEW n \in Nodes, NEW v \in Nat
    PROVE  SameSentences(s, SetBalance(s, n, v)) /\ Sound(SetBalance(s, n, v))
<1> DEFINE r == SetBalance(s, n, v)
<1>1. Sound(r) /\ OnlyAccounts(s, r)
  BY SetBalanceFields DEF BalanceSet
<1> HIDE DEF r
<1>2. s \in States
  BY DEF Sound
<1>3. SameSentences(s, r)
  BY <1>1, <1>2 DEF OnlyAccounts, States, SameSentences
<1> QED
  BY <1>1, <1>3 DEF r

LEMMA ChargeFeeForgets ==
    ASSUME NEW s, Sound(s), NEW n \in Nodes, NEW fee \in Nat
    PROVE  SameSentences(s, ChargeFee(s, n, fee))
<1> DEFINE r == ChargeFee(s, n, fee)
<1>1. OnlyPayment(s, r)
  BY ChargeFeeKeeps
<1> HIDE DEF r
<1>2. SameSentences(s, r)
  BY <1>1 DEF OnlyPayment, Sound, States, SameSentences
<1> QED
  BY <1>2 DEF r

\* stake() forgets the sentence of whoever has no entry any more.
LEMMA StakeForgets ==
    ASSUME NEW s, Sound(s), NEW who \in Nodes, NEW amount \in Nat
    PROVE  OnlyForgets(s, Stake(s, who, amount))
<1> DEFINE e == IF who \in s.stakers THEN s ELSE NewEntry(s, who)
<1>1. s \in States /\ s.jailUntil \in [Nodes -> Nat]
  BY DEF Sound, States, Amounts
<1>2. e \in States
  BY <1>1, NewEntryFields
<1>3. OnlyForgets(s, e)
  <2>1. CASE who \in s.stakers
    BY <2>1 DEF OnlyForgets
  <2>2. CASE who \notin s.stakers
    <3>1. e = NewEntry(s, who)
      BY <2>2
    <3>2. /\ e.activeSet = s.activeSet /\ e.currentEpoch = s.currentEpoch
          /\ e.jailed = s.jailed \ {who}
          /\ e.jailUntil = [s.jailUntil EXCEPT ![who] = 0]
      BY <1>1, <3>1 DEF NewEntry, States
    <3> HIDE DEF e
    <3> QED
      BY <1>1, <3>2 DEF OnlyForgets
  <2> QED
    BY <2>1, <2>2
<1>4. SameSentences(e, Stake(s, who, amount))
  <2>1. Stake(s, who, amount) = [e EXCEPT !.balance[who] = @ - amount,
                                          !.staked[who] = @ + amount,
                                          !.candidates = @ \cup {who},
                                          !.totalStaked = @ + amount]
    BY DEF Stake
  <2> HIDE DEF e
  <2> QED
    BY <1>2, <2>1 DEF States, SameSentences
<1> QED
  BY <1>3, <1>4, SameForgets, ForgetsTwice

LEMMA EffectForgets ==
    ASSUME NEW s, Sound(s), NEW tx \in Txs, Succeeds(s, tx), chainLen \in Nat
    PROVE  OnlyForgets(s, Effect(s, tx))
<1> DEFINE c == Charged(s, tx)
           who == tx.sender
<1>1. /\ who \in Nodes /\ tx.to \in Nodes /\ tx.value \in Nat
      /\ tx.gasPrice \in Nat /\ tx.gas \in Nat /\ tx.type \in TxTypes
  BY LedgerAssumption DEF TxRecords
<1>2. Sound(c) /\ SameSentences(s, c) /\ OnlyPayment(s, c)
  BY <1>1, ChargeFeeKeeps, ChargeFeeForgets DEF Charged
<1> HIDE DEF c
<1>3. s \in States /\ c \in States
  BY <1>2 DEF Sound
<1>4. OnlyForgets(s, c)
  BY <1>2, SameForgets
<1>5. ASSUME NEW r, SameSentences(c, r), Effect(s, tx) = r
      PROVE  OnlyForgets(s, Effect(s, tx))
  BY <1>4, <1>5, SameForgets, ForgetsTwice
<1>6. CASE tx.type = "TRANSFER"
  <2> DEFINE taken == SetBalance(c, who, c.balance[who] - tx.value)
             r == SetBalance(taken, tx.to, taken.balance[tx.to] + tx.value)
  <2>1. Effect(s, tx) = r
    BY <1>6 DEF Effect, Transfer, c
  <2>2. c.balance[who] - tx.value \in Nat
    BY <1>1, <1>3, <1>6 DEF Succeeds, c, States, Amounts
  <2>3. Sound(taken) /\ SameSentences(c, taken)
    BY <1>1, <1>2, <2>2, SetBalanceForgets
  <2> HIDE DEF taken
  <2>4. taken.balance[tx.to] + tx.value \in Nat
    BY <1>1, <2>3 DEF Sound, States, Amounts
  <2>5. SameSentences(taken, r)
    BY <1>1, <2>3, <2>4, SetBalanceForgets
  <2> QED
    BY <1>5, <2>1, <2>3, <2>5 DEF SameSentences
<1>7. CASE tx.type = "STAKE"
  <2>1. Effect(s, tx) = Stake(c, who, tx.value)
    BY <1>7 DEF Effect, c
  <2> QED
    BY <1>1, <1>2, <1>4, <2>1, StakeForgets, ForgetsTwice
<1>8. CASE tx.type = "UNSTAKE"
  <2>1. Effect(s, tx) = Unstake(c, who, tx.value, chainLen)
    BY <1>8 DEF Effect, c
  <2>2. SameSentences(c, Unstake(c, who, tx.value, chainLen))
    BY <1>3 DEF Unstake, States, SameSentences
  <2> QED
    BY <1>5, <2>1, <2>2
<1>9. CASE tx.type = "CLAIM"
  <2> DEFINE left == Claim(c, who)
             v == left.balance[who] + Claimable(c, who, chainLen)
  <2>1. Effect(s, tx) = SetBalance(left, who, v)
    BY <1>9 DEF Effect, ClaimedBack, c
  <2>2. Sound(left) /\ left.balance = c.balance
    BY <1>1, <1>2, ClaimFields
  <2>3. SameSentences(c, left)
    BY <1>3 DEF Claim, States, SameSentences
  <2> HIDE DEF left
  <2>4. v \in Nat
    <3>1. c.balance[who] \in Nat /\ c.unstaking[who] \in Nat
      BY <1>1, <1>3 DEF States, Amounts
    <3> QED
      BY <2>2, <3>1 DEF Claimable
  <2> HIDE DEF v
  <2>5. SameSentences(left, SetBalance(left, who, v))
    BY <1>1, <2>2, <2>4, SetBalanceForgets
  <2> QED
    BY <1>5, <2>1, <2>3, <2>5 DEF SameSentences
<1>10. CASE tx.type = "FAUCET"
  <2>1. Effect(s, tx) = Faucet(s, who)
    BY <1>10 DEF Effect
  <2>2. SameSentences(s, Faucet(s, who))
    BY <1>3 DEF Faucet, States, SameSentences
  <2> QED
    BY <2>1, <2>2, SameForgets
<1>11. CASE tx.type = "DATA"
  <2>1. Effect(s, tx) = c
    BY <1>11 DEF Effect, c
  <2> QED
    BY <1>4, <2>1
<1>12. CASE tx.type \in {"CALL", "DEPLOY"}
  <2>1. Effect(s, tx) = ChargeFee(s, who, GasFee(tx))
    BY <1>12 DEF Effect
  <2>2. GasFee(tx) \in Nat
    <3>1. tx.gas * tx.gasPrice \in Nat
      BY <1>1
    <3> QED
      BY <3>1, StakingAssumption DEF GasFee
  <2>3. SameSentences(s, ChargeFee(s, who, GasFee(tx)))
    BY <1>1, <2>2, ChargeFeeForgets
  <2> QED
    BY <2>1, <2>3, SameForgets
<1> QED
  BY <1>1, <1>6, <1>7, <1>8, <1>9, <1>10, <1>11, <1>12 DEF TxTypes

-----------------------------------------------------------------------------
(* The seal of a block *)

LEMMA SkipsCountedForgets ==
    ASSUME NEW s \in States
    PROVE  SameSentences(s, SkipsCounted(s))
<1>1. SameSentences(s, CountSkippedSlots(s, lastSlot, block.slot, block.producer))
  BY DEF CountSkippedSlots, States, SameSentences
<1>2. SameSentences(s, s)
  BY DEF SameSentences
<1> QED
  BY <1>1, <1>2 DEF SkipsCounted

LEMMA RewardedForgets ==
    ASSUME NEW s, Sound(s), block.producer \in Nodes
    PROVE  SameSentences(s, Rewarded(s))
<1> DEFINE p == block.producer
           v == s.balance[p] + BlockReward + s.blockFees
           paid == SetBalance(s, p, v)
<1>1. v \in Nat
  BY LedgerAssumption DEF Sound, States, Amounts
<1> HIDE DEF v
<1>2. SameSentences(s, paid) /\ paid \in States
  BY <1>1, SetBalanceForgets DEF Sound
<1>3. Rewarded(s) = RecordBlockProduced([paid EXCEPT !.totalSupply = @ + BlockReward], p)
  BY DEF Rewarded, v
<1> HIDE DEF paid
<1>4. SameSentences(paid, Rewarded(s))
  BY <1>2, <1>3 DEF RecordBlockProduced, States, SameSentences
<1> QED
  BY <1>2, <1>4 DEF SameSentences

\* An election releases who has served, sentences the guilty, and only then
\* gives the seats to those outside jail.
LEMMA RunElectionJails ==
    ASSUME NEW s \in States, Jailing(s), NEW epoch \in Nat, s.currentEpoch <= epoch
    PROVE  Jailing(RunElection(s, epoch)) /\ RunElection(s, epoch).currentEpoch = epoch
<1> DEFINE u == UnjailExpired(s, epoch)
           guilty == {n \in Eligible(u) : u.missed[n] >= DowntimeThreshold}
           p == PunishDowntime(u, epoch)
           r == RunElection(s, epoch)
<1>1. /\ u = [s EXCEPT !.jailed = u.jailed]
      /\ u.jailed = {n \in s.jailed : n \in s.stakers => epoch < s.jailUntil[n]}
  BY DEF UnjailExpired, States
<1> HIDE DEF u
<1>2. s.jailUntil \in [Nodes -> Nat] /\ s.currentEpoch \in Nat /\ s.jailed \subseteq Nodes
  BY DEF States, Amounts
<1>3. u \in States /\ u.jailUntil = s.jailUntil
  BY <1>1, <1>2 DEF States
<1>4. /\ p.jailed = u.jailed \cup guilty
      /\ p.jailUntil = [n \in Nodes |-> IF n \in guilty THEN epoch + JailEpochs
                                                        ELSE u.jailUntil[n]]
      /\ p = [p EXCEPT !.currentEpoch = p.currentEpoch]
      /\ DOMAIN p = DOMAIN u
  <2> DEFINE cut == [n \in Nodes |-> IF n \in guilty
                                     THEN SlashAmount(u.staked[n], SlashPct) ELSE 0]
             left == Less(u.staked, cut)
  <2>1. p = [u EXCEPT !.staked = left,
                      !.totalStaked = @ - Total(cut),
                      !.totalSupply = @ - Total(cut),
                      !.jailed = @ \cup guilty,
                      !.jailUntil = [n \in Nodes |-> IF n \in guilty
                                                     THEN epoch + JailEpochs ELSE @[n]],
                      !.candidates = {n \in @ : n \in guilty => left[n] >= MinStake},
                      !.missed = [n \in Nodes |-> IF n \in Eligible(u) THEN 0 ELSE @[n]]]
    BY DEF PunishDowntime
  <2> HIDE DEF p, guilty, left, cut
  <2>2. "jailed" \in DOMAIN u /\ "jailUntil" \in DOMAIN u /\ "currentEpoch" \in DOMAIN u
    BY <1>3 DEF States
  <2>3. DOMAIN p = DOMAIN u
    BY <2>1
  <2>4. p = [p EXCEPT !.currentEpoch = p.currentEpoch]
    BY <2>1
  <2>5. p.jailed = u.jailed \cup guilty
    BY <2>1, <2>2
  <2>6. p.jailUntil = [n \in Nodes |-> IF n \in guilty THEN epoch + JailEpochs
                                                         ELSE u.jailUntil[n]]
    BY <2>1, <2>2
  <2> QED
    BY <2>3, <2>4, <2>5, <2>6
<1>5. r = [p EXCEPT !.currentEpoch = epoch, !.activeSet = TopStakers(p)]
  BY DEF RunElection, u
<1> HIDE DEF p, guilty
<1>6. /\ r.currentEpoch = epoch /\ r.activeSet = TopStakers(p)
      /\ r.jailed = p.jailed /\ r.jailUntil = p.jailUntil
  BY <1>3, <1>4, <1>5 DEF States
<1>7. r.activeSet \cap r.jailed = {}
  BY <1>6 DEF TopStakers, Eligible
<1>8. ASSUME NEW n \in Nodes \ r.jailed PROVE r.jailUntil[n] <= r.currentEpoch
  <2>1. n \notin u.jailed /\ r.jailUntil[n] = s.jailUntil[n]
    BY <1>3, <1>4, <1>6, <1>8
  <2>2. CASE n \in s.jailed
    BY <1>1, <1>2, <1>6, <2>1, <2>2
  <2>3. CASE n \notin s.jailed
    <3>1. s.jailUntil[n] <= s.currentEpoch
      BY <2>3 DEF Jailing
    <3> QED
      BY <1>2, <1>6, <2>1, <3>1
  <2> QED
    BY <2>2, <2>3
<1>9. Jailing(r)
  BY <1>7, <1>8 DEF Jailing
<1> QED
  BY <1>6, <1>9 DEF r

LEMMA ProductOrder ==
    ASSUME NEW a \in Nat, NEW b \in Nat, NEW k \in Nat \ {0}, a * k <= b * k
    PROVE  a <= b
<1> SUFFICES ASSUME a >= b + 1 PROVE FALSE
  OBVIOUS
<1> DEFINE d == a - b - 1
<1>1. d \in Nat /\ a = b + 1 + d
  OBVIOUS
<1> HIDE DEF d
<1>2. a * k = b * k + k + d * k
  BY <1>1
<1>3. d * k \in Nat /\ b * k \in Nat
  BY <1>1
<1> QED
  BY <1>2, <1>3

\* An election begins the epoch the height has reached.
LEMMA ElectedJails ==
    ASSUME NEW s \in States, Jailing(s), EpochReached(s), height \in Nat
    PROVE  /\ Jailing(Elected(s))
           /\ Elected(s).currentEpoch * EpochLength <= height + 1
<1> DEFINE epoch == (height + 1) \div EpochLength
<1>1. s.currentEpoch \in Nat /\ EpochLength \in Nat \ {0}
  BY LedgerAssumption DEF States
<1>2. s.currentEpoch * EpochLength \in Nat
  BY <1>1
<1>3. CASE (height + 1) % EpochLength = 0
  <2>1. epoch \in Nat /\ epoch * EpochLength = height + 1
    BY <1>1, <1>3
  <2> HIDE DEF epoch
  <2>2. s.currentEpoch <= epoch
    BY <1>1, <1>2, <2>1, ProductOrder DEF EpochReached
  <2>3. Elected(s) = RunElection(s, epoch)
    BY <1>3 DEF Elected, epoch
  <2>4. Jailing(Elected(s)) /\ Elected(s).currentEpoch = epoch
    BY <2>1, <2>2, <2>3, RunElectionJails
  <2> QED
    BY <2>1, <2>4
<1>4. CASE (height + 1) % EpochLength # 0
  <2>1. Elected(s) = s
    BY <1>4 DEF Elected
  <2> QED
    BY <1>2, <2>1 DEF EpochReached
<1> QED
  BY <1>3, <1>4

-----------------------------------------------------------------------------
(* The invariant *)

JailInv ==
    /\ IInv
    /\ Jailing(state) /\ EpochReached(state)
    /\ block # NoBlock => Jailing(block.snap) /\ EpochReached(block.snap)

LEMMA InitJailInv == Init => JailInv
<1> SUFFICES ASSUME Init PROVE JailInv
  OBVIOUS
<1>1. IInv
  BY InitIInv
<1>2. /\ state.activeSet = {Founder} /\ state.jailed = {} /\ state.currentEpoch = 0
      /\ state.jailUntil = [n \in Nodes |-> 0]
  BY DEF Init, GenesisState
<1>3. Jailing(state)
  BY <1>2 DEF Jailing
<1>4. EpochReached(state)
  <2>1. 0 * EpochLength = 0 /\ height = 1
    BY LedgerAssumption DEF Init, height
  <2> QED
    BY <1>2, <2>1 DEF EpochReached
<1> QED
  BY <1>1, <1>3, <1>4 DEF JailInv, Init

LEMMA BeginBlockJailInv ==
    ASSUME JailInv, NEW mode \in {"create", "apply"}, NEW producer \in Devices,
           NEW slot \in 0..MaxSlot, BeginBlock(mode, producer, slot)
    PROVE  JailInv'
<1>1. IInv'
  BY BeginBlockIInv DEF JailInv
<1>2. state \in States
  BY DEF JailInv, IInv, TypeOK
<1>3. /\ SameSentences(state, state')
      /\ block'.snap = state \/ block'.snap = state'
      /\ UNCHANGED height
  BY <1>2 DEF BeginBlock, States, SameSentences, height
<1>4. Jailing(state) /\ EpochReached(state) /\ Jailing(state') /\ EpochReached(state)'
  BY <1>3 DEF JailInv, SameSentences, Jailing, EpochReached
<1>5. Jailing(block'.snap) /\ EpochReached(block.snap)'
  BY <1>3, <1>4 DEF EpochReached
<1> QED
  BY <1>1, <1>4, <1>5 DEF JailInv, Jailing

LEMMA ExecTxJailInv ==
    ASSUME JailInv, NEW tx \in Txs, ExecTx(tx)
    PROVE  JailInv'
<1> DEFINE e == Effect(state, tx)
<1>1. IInv'
  BY ExecTxIInv DEF JailInv
<1>2. /\ Sound(state) /\ block \in OpenBlocks /\ chainLen \in Nat /\ height \in Nat
      /\ Succeeds(state, tx) /\ tx.sender \in Nodes
  BY LedgerAssumption DEF JailInv, IInv, TypeOK, ExecTx, height, TxRecords
<1>3. Sound(e) /\ OnlyForgets(state, e)
  BY <1>2, EffectKeeps, EffectForgets
<1>4. state' = IncrementNonce(e, tx.sender) /\ UNCHANGED height /\ block'.snap = block.snap
  BY <1>2 DEF ExecTx, height, OpenBlocks
<1> HIDE DEF e
<1>5. SameSentences(e, state')
  BY <1>3, <1>4 DEF IncrementNonce, Sound, States, SameSentences
<1>6. OnlyForgets(state, state')
  BY <1>3, <1>5, SameForgets, ForgetsTwice
<1>7. state \in States /\ state' \in States
  BY <1>1, <1>2 DEF IInv, Sound, TypeOK
<1>8. Jailing(state') /\ EpochReached(state)'
  BY <1>4, <1>6, <1>7, ForgetsKeeps DEF JailInv, EpochReached, OnlyForgets
<1>9. Jailing(block'.snap) /\ EpochReached(block.snap)'
  BY <1>4 DEF JailInv, EpochReached, ExecTx
<1> QED
  BY <1>1, <1>8, <1>9 DEF JailInv, Jailing

\* A dropped block takes sentences and epoch back together.
LEMMA DropBlockJailInv ==
    ASSUME JailInv, block # NoBlock, DropBlock
    PROVE  JailInv'
<1>1. IInv'
  BY DropBlockIInv DEF JailInv
<1>2. /\ state' = block.snap /\ block' = NoBlock /\ UNCHANGED height
      /\ Jailing(block.snap) /\ EpochReached(block.snap)
  BY DEF JailInv, DropBlock, height
<1>3. Jailing(state') /\ EpochReached(state)'
  BY <1>2 DEF EpochReached
<1> QED
  BY <1>1, <1>2, <1>3 DEF JailInv, Jailing

LEMMA SealBlockJailInv ==
    ASSUME JailInv, SealBlock
    PROVE  JailInv'
<1> DEFINE q == SkipsCounted(state)
           r == Rewarded(q)
           e == Elected(r)
<1>1. IInv'
  BY SealBlockIInv DEF JailInv
<1>2. /\ block \in OpenBlocks /\ Sound(state) /\ lastSlot \in Nat
      /\ chainLen \in Nat /\ chainOffset \in Nat /\ height \in Nat
  BY LedgerAssumption DEF JailInv, IInv, TypeOK, SealBlock, height
<1>3. block.slot \in Nat /\ block.producer \in Nodes
  BY <1>2 DEF OpenBlocks, Devices
<1>4. Sound(q) /\ SameSentences(state, q)
  BY <1>2, <1>3, SkipsCountedKeeps, SkipsCountedForgets DEF Sound
<1>5. state' = e /\ block' = NoBlock
  BY DEF SealBlock
<1> HIDE DEF q
<1>6. Sound(r) /\ SameSentences(q, r)
  BY <1>3, <1>4, RewardedKeeps, RewardedForgets
<1> HIDE DEF r
<1>7. r \in States /\ Jailing(r) /\ EpochReached(r)
  BY <1>4, <1>6 DEF JailInv, SameSentences, Jailing, EpochReached, Sound
<1>8. Jailing(e) /\ e.currentEpoch * EpochLength <= height + 1
  BY <1>2, <1>7, ElectedJails
<1> HIDE DEF e
<1>9. height' = height + 1
  BY <1>2 DEF SealBlock, height
<1>10. Jailing(state') /\ EpochReached(state)'
  BY <1>5, <1>8, <1>9 DEF EpochReached
<1> QED
  BY <1>1, <1>5, <1>10 DEF JailInv, Jailing

LEMMA NextJailInv == JailInv /\ [Next]_vars => JailInv'
<1> SUFFICES ASSUME JailInv, [Next]_vars PROVE JailInv'
  OBVIOUS
<1>1. ASSUME NEW mode \in {"create", "apply"}, NEW producer \in Devices,
             NEW slot \in 0..MaxSlot, BeginBlock(mode, producer, slot)
      PROVE  JailInv'
  BY <1>1, BeginBlockJailInv
<1>2. ASSUME NEW tx \in Txs, ExecTx(tx) PROVE JailInv'
  BY <1>2, ExecTxJailInv
<1>3. ASSUME UNCHANGED vars PROVE JailInv'
  <2>1. IInv'
    BY <1>3, NextIInv DEF JailInv
  <2>2. UNCHANGED <<state, block, height>>
    BY <1>3 DEF vars, height
  <2> QED
    BY <2>1, <2>2 DEF JailInv, Jailing, EpochReached
<1>4. ASSUME NEW tx \in Txs, FailTx(tx) PROVE JailInv'
  BY <1>3, <1>4, DropBlockJailInv DEF FailTx
<1>5. ASSUME SealBlock PROVE JailInv'
  BY <1>5, SealBlockJailInv
<1>6. ASSUME AbortBlock PROVE JailInv'
  BY <1>6, DropBlockJailInv DEF AbortBlock
<1> QED
  BY <1>1, <1>2, <1>3, <1>4, <1>5, <1>6 DEF Next

\* Whoever has a seat in the active set is not in jail and is past the epoch
\* its entry was jailed until (StakingEngine::runElection), in every state of
\* every block, dropped ones included.
THEOREM SentencesServed == Spec => []JailServed
<1>1. Init => JailInv
  BY InitJailInv
<1>2. JailInv /\ [Next]_vars => JailInv'
  BY NextJailInv
<1>3. JailInv => JailServed
  BY DEF JailInv, IInv, TypeOK, States, Jailing, JailServed
<1> QED
  BY <1>1, <1>2, <1>3, PTL DEF Spec
-----------------------------------------------------------------------------
(* Downtime *)

\* A slot is the turn of one validator at most.
LEMMA OneTurn ==
    ASSUME NEW s \in States, NEW m \in Nodes, NEW n \in Nodes, NEW slot \in Nat,
           IsSlotProducer(s, m, slot), IsSlotProducer(s, n, slot)
    PROVE  m = n
<1> DEFINE R == {p \in Nodes \X Nodes : Hash32[p[1]] < Hash32[p[2]]}
           A == s.activeSet
<1>1. IsFiniteSet(A) /\ A \subseteq Nodes
  BY NodesAssumption, FS_Subset DEF States
<1>2. \A x, y \in Nodes : <<x, y>> \in R <=> Hash32[x] < Hash32[y]
  OBVIOUS
<1>3. StrictOrder(A, R)
  <2>1. \A x \in Nodes : Hash32[x] \in Nat
    BY NodesAssumption
  <2> HIDE DEF R, A
  <2>2. \A x, y \in A : x = y \/ <<x, y>> \in R \/ <<y, x>> \in R
    <3> TAKE x, y \in A
    <3>1. Hash32[x] = Hash32[y] \/ Hash32[x] < Hash32[y] \/ Hash32[y] < Hash32[x]
      BY <1>1, <2>1
    <3> QED
      BY <1>1, <1>2, <3>1, NodesAssumption
  <2>3. /\ \A x \in A : <<x, x>> \notin R
        /\ \A x, y, z \in A : <<x, y>> \in R /\ <<y, z>> \in R => <<x, z>> \in R
    BY <1>1, <1>2, <2>1
  <2> QED
    BY <2>2, <2>3 DEF StrictOrder
<1>4. \A x \in A : Seat(s, x) = Cardinality(Below(A, R, x))
  <2> TAKE x \in A
  <2>1. {y \in A : Hash32[y] < Hash32[x]} = Below(A, R, x)
    BY <1>1, <1>2 DEF Below
  <2> QED
    BY <2>1 DEF Seat
<1>5. m \in A /\ n \in A /\ Seat(s, m) = Seat(s, n)
  BY DEF IsSlotProducer
<1> HIDE DEF R, A
<1> QED
  BY <1>1, <1>3, <1>4, <1>5, Ranks

\* Blocks come in the order of their slots, also after a pruning has made the
\* device forget the slot of the block before.
SlotInv ==
    /\ height >= 1
    /\ chainLen = 0 => lastSlot = 0
    /\ block # NoBlock => block.slot > lastSlot

LEMMA InitSlotInv == Init => SlotInv
  BY DEF Init, SlotInv, height

LEMMA NextSlotInv ==
    ASSUME IInv, SlotInv, [Next]_vars
    PROVE  SlotInv'
<1>1. chainLen \in Nat /\ chainOffset \in Nat /\ lastSlot \in Nat
  BY LedgerAssumption DEF IInv, TypeOK
<1>2. CASE UNCHANGED vars
  BY <1>2 DEF vars, SlotInv, height
<1>3. ASSUME NEW mode \in {"create", "apply"}, NEW producer \in Devices,
             NEW slot \in 0..MaxSlot, BeginBlock(mode, producer, slot)
      PROVE  SlotInv'
  <2>1. slot \in Nat /\ slot >= height /\ height \in Nat
    BY <1>1, <1>3, LedgerAssumption DEF BeginBlock, height
  <2>2. block'.slot = slot /\ UNCHANGED <<chainLen, chainOffset, lastSlot>>
    BY <1>3 DEF BeginBlock
  <2>3. slot > lastSlot
    BY <1>1, <1>3, <2>1 DEF BeginBlock, SlotInv
  <2> QED
    BY <2>2, <2>3 DEF SlotInv, height
<1>4. ASSUME NEW tx \in Txs, ExecTx(tx)
      PROVE  SlotInv'
  <2>1. block'.slot = block.slot /\ UNCHANGED <<chainLen, chainOffset, lastSlot>>
        /\ block # NoBlock
    BY <1>4 DEF ExecTx, IInv, TypeOK, OpenBlocks
  <2> QED
    BY <2>1 DEF SlotInv, height
<1>5. ASSUME DropBlock
      PROVE  SlotInv'
  BY <1>5 DEF DropBlock, SlotInv, height
<1>6. ASSUME SealBlock
      PROVE  SlotInv'
  <2>1. chainLen + 1 # 0 /\ chainOffset + chainLen + 1 >= 1
    BY <1>1
  <2> QED
    BY <1>1, <1>6, <2>1 DEF SealBlock, SlotInv, height
<1> QED
  BY <1>2, <1>3, <1>4, <1>5, <1>6 DEF Next, FailTx, AbortBlock

\* The misses that the sealed block adds to a validator other than its producer.
LEMMA SealCharges ==
    ASSUME NEW s, Sound(s), block.slot \in Nat, lastSlot \in Nat, block.producer \in Nodes,
           NEW n \in Nodes \ {block.producer}
    PROVE  LET missed == Rewarded(SkipsCounted(s)).missed[n]
               turns  == SkippedBy(s, n, lastSlot, block.slot)
           IN  missed = s.missed[n] \/ missed = s.missed[n] + Cardinality(turns)
<1> DEFINE q == SkipsCounted(s)
           r == Rewarded(q)
           p == block.producer
           v == q.balance[p] + BlockReward + q.blockFees
           paid == SetBalance(q, p, v)
           turns == SkippedBy(s, n, lastSlot, block.slot)
<1>1. Sound(q)
  BY SkipsCountedKeeps
<1>2. q.missed[n] = s.missed[n] \/ q.missed[n] = s.missed[n] + Cardinality(turns)
  BY DEF SkipsCounted, CountSkippedSlots, Sound, States
<1> HIDE DEF q, turns
<1>3. v \in Nat
  BY <1>1, LedgerAssumption DEF Sound, States, Amounts
<1>4. r = RecordBlockProduced([paid EXCEPT !.totalSupply = @ + BlockReward], p)
  BY DEF Rewarded
<1> HIDE DEF v
<1>5. OnlyAccounts(q, paid) /\ paid \in States
  BY <1>1, <1>3, SetBalanceFields DEF BalanceSet, Sound
<1> HIDE DEF paid, r
<1>6. paid.missed = q.missed /\ paid.missed \in [Nodes -> Nat]
  BY <1>1, <1>5 DEF OnlyAccounts, Sound, States, Amounts
<1>7. r.missed = [paid.missed EXCEPT ![p] = IF p \in paid.stakers THEN 0 ELSE @]
  BY <1>4, <1>5 DEF RecordBlockProduced, States
<1>8. r.missed[n] = q.missed[n]
  BY <1>6, <1>7
<1> QED
  BY <1>2, <1>8 DEF r, q, turns

LEMMA SealChargesOnce ==
    ASSUME IInv, SlotInv, SealBlock, (height + 1) % EpochLength # 0
    PROVE  LET others == Nodes \ {block.producer}
               new    == [n \in others |-> state'.missed[n] - state.missed[n]]
           IN  Total(new) <= block.slot - lastSlot - 1
<1> DEFINE others == Nodes \ {block.producer}
           new    == [n \in others |-> state'.missed[n] - state.missed[n]]
           slots  == (lastSlot + 1)..(block.slot - 1)
           turns  == [n \in others |-> SkippedBy(state, n, lastSlot, block.slot)]
<1>1. /\ Sound(state) /\ lastSlot \in Nat /\ block # NoBlock /\ block \in OpenBlocks
  BY DEF IInv, TypeOK, SealBlock
<1>2. /\ block.slot \in Nat /\ block.producer \in Nodes /\ block.slot > lastSlot
      /\ state \in States /\ state.missed \in [Nodes -> Nat]
  BY <1>1 DEF OpenBlocks, Devices, SlotInv, Sound, States, Amounts
<1>3. state' = Rewarded(SkipsCounted(state))
  BY DEF SealBlock, Elected
<1>4. IsFiniteSet(slots) /\ Cardinality(slots) = block.slot - lastSlot - 1
  <2>1. lastSlot + 1 \in Int /\ block.slot - 1 \in Int
    BY <1>1, <1>2
  <2>2. IsFiniteSet(slots)
    BY <2>1, FS_Interval
  <2>3. Cardinality(slots) = IF lastSlot + 1 > block.slot - 1 THEN 0
                             ELSE (block.slot - 1) - (lastSlot + 1) + 1
    BY <2>1, FS_Interval
  <2> QED
    BY <1>1, <1>2, <2>2, <2>3
<1>5. turns \in [others -> SUBSET slots]
  BY DEF SkippedBy
<1>6. \A m, n \in others : m = n \/ turns[m] \cap turns[n] = {}
  <2> SUFFICES ASSUME NEW m \in others, NEW n \in others,
                      NEW q \in turns[m], q \in turns[n]
               PROVE  m = n
    OBVIOUS
  <2>1. /\ q \in Nat /\ IsSlotProducer(state, m, q) /\ IsSlotProducer(state, n, q)
    BY <1>1 DEF SkippedBy
  <2> QED
    BY <1>2, <2>1, OneTurn
<1>7. ASSUME NEW n \in others
      PROVE  new[n] \in Nat /\ new[n] <= Cardinality(turns[n])
  <2>1. \/ state'.missed[n] = state.missed[n]
        \/ state'.missed[n] = state.missed[n] + Cardinality(turns[n])
    BY <1>1, <1>2, <1>3, SealCharges
  <2>2. Cardinality(turns[n]) \in Nat
    <3>1. turns[n] \subseteq slots
      BY <1>5
    <3> HIDE DEF turns, slots
    <3> QED
      BY <1>4, <3>1, FS_Subset, FS_CardinalityType
  <2>3. new[n] = state'.missed[n] - state.missed[n] /\ state.missed[n] \in Nat
    BY <1>2
  <2> HIDE DEF turns, new
  <2> QED
    BY <2>1, <2>2, <2>3
<1>8. new \in [others -> Nat] /\ \A n \in others : new[n] <= Cardinality(turns[n])
  BY <1>7
<1> HIDE DEF turns, slots, new
<1>9. Total(new) <= Cardinality(slots)
  BY <1>4, <1>5, <1>6, <1>8, TotalDisjoint
<1> QED
  BY <1>4, <1>9 DEF new

\* recordSkippedSlotsForBlock charges a slot without a block to the validator
\* whose turn it was, so a block adds no more misses than slots were skipped,
\* and none for its own slot or that of the block before.
THEOREM SkipsChargedOnce == Spec => SkippedSlotsChargedOnce
<1> DEFINE Once == SealBlock /\ (height + 1) % EpochLength # 0 =>
         LET others == Nodes \ {block.producer}
             new    == [n \in others |-> state'.missed[n] - state.missed[n]]
         IN  Total(new) <= block.slot - lastSlot - 1
<1>1. IInv /\ SlotInv /\ [Next]_vars => [Once]_vars
  BY SealChargesOnce
<1>2. IInv /\ SlotInv /\ [Next]_vars => SlotInv'
  BY NextSlotInv
<1> QED
  BY <1>1, <1>2, InitSlotInv, Invariance, PTL DEF Spec, SkippedSlotsChargedOnce
=============================================================================
