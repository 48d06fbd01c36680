---------------------------- MODULE LedgerProofs ----------------------------
(***************************************************************************)
(* Proofs about the ledger for every number of nodes, transactions and     *)
(* every value of the parameters.  A block may be rolled back at any       *)
(* moment, so what holds of the state must be known of its snapshot too;   *)
(* within a block the fees collected so far are part of the money.         *)
(***************************************************************************)
EXTENDS Ledger, Lemmas

\* All the tokens there are in state s, whoever they belong to.
Money(s) == Total(s.balance) + Total(s.staked) + Total(s.unstaking) + s.blockFees

\* What every state has, within a block and between blocks.
Sound(s) ==
    /\ s \in States
    /\ \A n \in Nodes \ s.known : s.balance[n] = 0
    /\ s.totalStaked = Total(s.staked)
    /\ \A n \in s.candidates : n \in s.stakers /\ s.staked[n] >= MinStake

\* The account table has room for everybody.
AccountsFit == MaxAccounts >= Cardinality(Nodes)

\* What the supply counts and nobody has.
Lost(s) == s.totalSupply - Money(s)

\* From s to r tokens may get lost but none is spent twice, and none gets lost
\* when the accounts fit.
KeepsBooks(s, r) ==
    /\ Lost(r) >= Lost(s)
    /\ AccountsFit => Lost(r) = Lost(s)

\* r differs from s in the accounts (and the fees of the block) only.
OnlyAccounts(s, r) ==
    r = [s EXCEPT !.known = r.known, !.balance = r.balance]
OnlyPayment(s, r) ==
    r = [s EXCEPT !.known = r.known, !.balance = r.balance, !.blockFees = r.blockFees]

\* What setBalance(n, v) makes of s: the balance is set, or nothing happens to
\* an owner without an account because accounts[] is full.
BalanceSet(s, r, n, v) ==
    /\ Sound(r)
    /\ OnlyAccounts(s, r)
    /\ \A m \in Nodes \ {n} : r.balance[m] = s.balance[m]
    /\ \/ r.balance[n] = v
       \/ ~AccountsFit /\ n \notin s.known /\ r.balance[n] = 0

-----------------------------------------------------------------------------
(* Accounts *)

LEMMA MoneyNat ==
    ASSUME NEW s \in States
    PROVE  /\ Total(s.balance) \in Nat /\ Total(s.staked) \in Nat
           /\ Total(s.unstaking) \in Nat /\ s.blockFees \in Nat
           /\ Money(s) \in Nat
<1>1. s.balance \in [Nodes -> Nat] /\ s.staked \in [Nodes -> Nat]
      /\ s.unstaking \in [Nodes -> Nat] /\ s.blockFees \in Nat
  BY DEF States, Amounts
<1>2. Total(s.balance) \in Nat /\ Total(s.staked) \in Nat /\ Total(s.unstaking) \in Nat
  BY <1>1, NodesAssumption, TokensFinite
<1> QED
  BY <1>1, <1>2 DEF Money

\* setBalance changes one balance and nothing else, or nothing at all: the
\* latter only for an owner without an account, and never when accounts fit.
LEMMA SetBalanceFields ==
    ASSUME NEW s, Sound(s), NEW n \in Nodes, NEW v \in Nat
    PROVE  BalanceSet(s, SetBalance(s, n, v), n, v)
<1>1. s \in States /\ s.known \subseteq Nodes /\ s.balance \in [Nodes -> Nat]
  BY DEF Sound, States, Amounts
<1>2. CASE n \in s.known
  BY <1>1, <1>2 DEF SetBalance, BalanceSet, OnlyAccounts, Sound, States, Amounts
<1>3. CASE n \notin s.known /\ Cardinality(s.known) < MaxAccounts
  BY <1>1, <1>3 DEF SetBalance, BalanceSet, OnlyAccounts, Sound, States, Amounts
<1>4. CASE n \notin s.known /\ ~(Cardinality(s.known) < MaxAccounts)
  <2>1. IsFiniteSet(Nodes) /\ MaxAccounts \in Nat
    BY NodesAssumption, LedgerAssumption
  <2>2. Cardinality(s.known) <= Cardinality(Nodes) /\ Cardinality(s.known) # Cardinality(Nodes)
    BY <1>1, <1>4, <2>1, FS_Subset
  <2>3. IsFiniteSet(s.known) /\ Cardinality(s.known) \in Nat /\ Cardinality(Nodes) \in Nat
    BY <1>1, <2>1, FS_Subset, FS_CardinalityType
  <2>4. ~AccountsFit
    BY <1>4, <2>1, <2>2, <2>3 DEF AccountsFit
  <2>5. SetBalance(s, n, v) = s
    BY <1>4 DEF SetBalance
  <2>6. s.balance[n] = 0
    BY <1>4 DEF Sound
  <2>7. s = [s EXCEPT !.known = s.known, !.balance = s.balance]
    BY <1>1 DEF States
  <2> QED
    BY <1>4, <2>4, <2>5, <2>6, <2>7 DEF BalanceSet, OnlyAccounts
<1> QED
  BY <1>2, <1>3, <1>4

\* What setBalance does to the money there is.
LEMMA SetBalanceMoney ==
    ASSUME NEW s, Sound(s), NEW n \in Nodes, NEW v \in Nat
    PROVE  /\ Money(SetBalance(s, n, v)) <= Money(s) - s.balance[n] + v
           /\ AccountsFit => Money(SetBalance(s, n, v)) = Money(s) - s.balance[n] + v
<1> DEFINE r == SetBalance(s, n, v)
<1>1. BalanceSet(s, r, n, v)
  BY SetBalanceFields
<1> HIDE DEF r
<1>2. s \in States /\ r \in States
  BY <1>1 DEF Sound, BalanceSet
<1>3. s.balance \in [Nodes -> Nat] /\ r.balance \in [Nodes -> Nat]
  BY <1>2 DEF States, Amounts
<1>4. Total(r.balance) = Total(s.balance) - s.balance[n] + r.balance[n]
  BY <1>1, <1>3, NodesAssumption, TotalSet DEF BalanceSet
<1>5. r.staked = s.staked /\ r.unstaking = s.unstaking /\ r.blockFees = s.blockFees
  BY <1>1, <1>2 DEF BalanceSet, OnlyAccounts, States
<1>6. Money(r) = Money(s) - s.balance[n] + r.balance[n]
  <2>1. s.balance[n] \in Nat /\ r.balance[n] \in Nat
    BY <1>3
  <2>2. /\ Total(s.balance) \in Nat /\ Total(s.staked) \in Nat
        /\ Total(s.unstaking) \in Nat /\ s.blockFees \in Nat
    BY <1>2, MoneyNat
  <2> QED
    BY <1>4, <1>5, <2>1, <2>2 DEF Money
<1>7. r.balance[n] <= v /\ (AccountsFit => r.balance[n] = v)
  BY <1>1 DEF BalanceSet
<1>8. Money(s) \in Nat /\ s.balance[n] \in Nat /\ r.balance[n] \in Nat
  BY <1>2, <1>3, MoneyNat
<1> QED
  BY <1>6, <1>7, <1>8 DEF r

\* A fee moves from the sender's balance to the fees of the block, clipped.
LEMMA ChargeFeeKeeps ==
    ASSUME NEW s, Sound(s), NEW n \in Nodes, NEW fee \in Nat
    PROVE  /\ Sound(ChargeFee(s, n, fee))
           /\ KeepsBooks(s, ChargeFee(s, n, fee))
           /\ OnlyPayment(s, ChargeFee(s, n, fee))
<1> DEFINE due == IF s.balance[n] < fee THEN s.balance[n] ELSE fee
           paid == SetBalance(s, n, s.balance[n] - due)
           r == [paid EXCEPT !.blockFees = @ + due]
<1>1. s \in States /\ s.balance[n] \in Nat /\ due \in Nat /\ s.balance[n] - due \in Nat
  BY DEF Sound, States, Amounts
<1>2. CASE fee = 0
  <2>1. OnlyPayment(s, s)
    BY <1>1 DEF OnlyPayment, States
  <2>2. Money(s) \in Nat /\ s.totalSupply \in Nat
    BY <1>1, MoneyNat DEF States
  <2> QED
    BY <1>2, <2>1, <2>2 DEF ChargeFee, KeepsBooks, Lost
<1>3. CASE fee # 0
  <2>1. ChargeFee(s, n, fee) = r
    BY <1>3 DEF ChargeFee
  <2> HIDE DEF due
  <2>2. Sound(paid) /\ OnlyAccounts(s, paid)
    BY <1>1, SetBalanceFields DEF BalanceSet
  <2>3. /\ Money(paid) <= Money(s) - due
        /\ AccountsFit => Money(paid) = Money(s) - due
    <3>1. /\ Money(paid) <= Money(s) - s.balance[n] + (s.balance[n] - due)
          /\ AccountsFit => Money(paid) = Money(s) - s.balance[n] + (s.balance[n] - due)
      BY <1>1, SetBalanceMoney
    <3>2. Money(s) \in Nat /\ Money(paid) \in Nat
      BY <1>1, <2>2, MoneyNat DEF Sound
    <3> QED
      BY <1>1, <3>1, <3>2
  <2> HIDE DEF paid
  <2>4. Sound(r)
    BY <1>1, <2>2 DEF Sound, States
  <2>5. r.balance = paid.balance /\ r.staked = paid.staked /\ r.unstaking = paid.unstaking
        /\ r.blockFees = paid.blockFees + due /\ r.totalSupply = s.totalSupply
    BY <2>2, <1>1 DEF Sound, OnlyAccounts, States
  <2>6. Money(r) = Money(paid) + due
    BY <1>1, <2>2, <2>5, MoneyNat DEF Money, Sound
  <2>7. OnlyPayment(s, r)
    BY <1>1, <2>2 DEF OnlyAccounts, OnlyPayment, Sound, States
  <2>8. Money(s) \in Nat /\ Money(paid) \in Nat /\ s.totalSupply \in Nat
    BY <1>1, <2>2, MoneyNat DEF Sound, States
  <2> QED
    BY <1>1, <2>1, <2>3, <2>4, <2>5, <2>6, <2>7, <2>8 DEF KeepsBooks, Lost
<1> QED
  BY <1>2, <1>3

\* Keeping the books is transitive.
LEMMA KeepsBooksTwice ==
    ASSUME NEW s \in States, NEW r \in States, NEW q \in States,
           KeepsBooks(s, r), KeepsBooks(r, q)
    PROVE  KeepsBooks(s, q)
<1>1. Lost(s) \in Int /\ Lost(r) \in Int /\ Lost(q) \in Int
  <2>1. ASSUME NEW x \in States PROVE Lost(x) \in Int
    BY MoneyNat DEF Lost, States
  <2> QED
    BY <2>1
<1> QED
  BY <1>1 DEF KeepsBooks

\* A transfer that the balance covers, also to oneself.
LEMMA TransferKeeps ==
    ASSUME NEW s, Sound(s), NEW from \in Nodes, NEW to \in Nodes, NEW amount \in Nat,
           amount <= s.balance[from]
    PROVE  /\ Sound(Transfer(s, from, to, amount))
           /\ KeepsBooks(s, Transfer(s, from, to, amount))
<1> DEFINE taken == SetBalance(s, from, s.balance[from] - amount)
           r == SetBalance(taken, to, taken.balance[to] + amount)
<1>1. s \in States /\ s.balance[from] \in Nat /\ s.balance[from] - amount \in Nat
  BY DEF Sound, States, Amounts
<1>2. Sound(taken) /\ OnlyAccounts(s, taken)
  BY <1>1, SetBalanceFields DEF BalanceSet
<1>3. /\ Money(taken) <= Money(s) - s.balance[from] + (s.balance[from] - amount)
      /\ AccountsFit => Money(taken) = Money(s) - s.balance[from] + (s.balance[from] - amount)
  BY <1>1, SetBalanceMoney
<1>4. Transfer(s, from, to, amount) = r
  BY DEF Transfer
<1> HIDE DEF taken
<1>5. taken \in States /\ taken.balance[to] \in Nat /\ taken.balance[to] + amount \in Nat
  BY <1>2 DEF Sound, States, Amounts
<1>6. Sound(r) /\ OnlyAccounts(taken, r)
  BY <1>2, <1>5, SetBalanceFields DEF BalanceSet
<1>7. /\ Money(r) <= Money(taken) - taken.balance[to] + (taken.balance[to] + amount)
      /\ AccountsFit => Money(r) = Money(taken) - taken.balance[to] + (taken.balance[to] + amount)
  BY <1>2, <1>5, SetBalanceMoney
<1> HIDE DEF r
<1>8. r.totalSupply = s.totalSupply /\ s.totalSupply \in Nat
  BY <1>1, <1>2, <1>5, <1>6 DEF OnlyAccounts, States
<1>9. Money(s) \in Nat /\ Money(taken) \in Nat /\ Money(r) \in Nat
  BY <1>1, <1>5, <1>6, MoneyNat DEF Sound
<1> QED
  BY <1>1, <1>3, <1>4, <1>5, <1>6, <1>7, <1>8, <1>9 DEF KeepsBooks, Lost

\* The faucet mints what it gives.
LEMMA FaucetKeeps ==
    ASSUME NEW s, Sound(s), NEW n \in Nodes, height \in Nat
    PROVE  Sound(Faucet(s, n)) /\ KeepsBooks(s, Faucet(s, n))
<1> DEFINE amount == IF isBootstrap THEN GenesisPerNode ELSE FaucetAmount
           r == Faucet(s, n)
<1>1. amount \in Nat
  BY LedgerAssumption
<1> HIDE DEF amount
<1>2. r = [s EXCEPT !.known = s.known \cup {n},
                    !.balance[n] = s.balance[n] + amount,
                    !.lastFaucet[n] = height,
                    !.totalSupply = s.totalSupply + amount]
  BY DEF Faucet, amount
<1> HIDE DEF r
<1>3. s \in States
  BY DEF Sound
<1>4. r \in States
  <2>1. /\ s.known \cup {n} \in SUBSET Nodes
        /\ [s.balance EXCEPT ![n] = s.balance[n] + amount] \in Amounts
        /\ [s.lastFaucet EXCEPT ![n] = height] \in Amounts
        /\ s.totalSupply + amount \in Nat
    BY <1>1, <1>3 DEF States, Amounts
  <2> QED
    BY <1>2, <1>3, <2>1 DEF States
<1>5. /\ s.balance \in [Nodes -> Nat] /\ r.balance \in [Nodes -> Nat]
      /\ r.balance[n] = s.balance[n] + amount
      /\ \A m \in Nodes \ {n} : r.balance[m] = s.balance[m]
      /\ r.known = s.known \cup {n}
      /\ r.totalSupply = s.totalSupply + amount /\ s.totalSupply \in Nat
      /\ r.staked = s.staked /\ r.unstaking = s.unstaking /\ r.blockFees = s.blockFees
      /\ r.totalStaked = s.totalStaked /\ r.candidates = s.candidates /\ r.stakers = s.stakers
  BY <1>1, <1>2, <1>3, <1>4 DEF States, Amounts
<1>6. Sound(r)
  BY <1>4, <1>5 DEF Sound
<1>7. Total(r.balance) = Total(s.balance) + amount
  BY <1>1, <1>5, NodesAssumption, TotalAdd
<1>8. Money(r) = Money(s) + amount
  BY <1>1, <1>3, <1>5, <1>7, MoneyNat DEF Money
<1>9. Money(s) \in Nat /\ Money(r) \in Nat
  BY <1>3, <1>4, MoneyNat
<1>10. Sound(r) /\ KeepsBooks(s, r)
  BY <1>1, <1>5, <1>6, <1>8, <1>9 DEF KeepsBooks, Lost
<1> QED
  BY <1>10 DEF r

-----------------------------------------------------------------------------
(* Stakes *)

\* A new entry changes neither amounts nor candidates.
LEMMA NewEntryFields ==
    ASSUME NEW s, Sound(s), NEW who \in Nodes
    PROVE  LET e == NewEntry(s, who)
           IN  /\ e \in States
               /\ e.stakers = s.stakers \cup {who}
               /\ e.known = s.known /\ e.balance = s.balance /\ e.staked = s.staked
               /\ e.unstaking = s.unstaking /\ e.candidates = s.candidates
               /\ e.totalStaked = s.totalStaked /\ e.totalSupply = s.totalSupply
               /\ e.blockFees = s.blockFees
<1>1. s \in States
  BY DEF Sound
<1>2. /\ s.stakers \cup {who} \in SUBSET Nodes
      /\ s.stakeCount + 1 \in Nat
      /\ s.jailed \ {who} \in SUBSET Nodes
      /\ [s.jailUntil EXCEPT ![who] = 0] \in Amounts
      /\ [s.missed EXCEPT ![who] = 0] \in Amounts
  BY <1>1 DEF States, Amounts
<1> QED
  BY <1>1, <1>2 DEF NewEntry, States

\* stake() moves the amount from the balance to the stake.
LEMMA StakeKeeps ==
    ASSUME NEW s, Sound(s), NEW who \in Nodes, NEW amount \in Nat,
           CanStake(s, who, amount)
    PROVE  Sound(Stake(s, who, amount)) /\ KeepsBooks(s, Stake(s, who, amount))
<1> DEFINE e == IF who \in s.stakers THEN s ELSE NewEntry(s, who)
           r == Stake(s, who, amount)
<1>1. s \in States
  BY DEF Sound
<1>2. /\ e \in States
      /\ e.stakers = s.stakers \cup {who}
      /\ e.known = s.known /\ e.balance = s.balance /\ e.staked = s.staked
      /\ e.unstaking = s.unstaking /\ e.candidates = s.candidates
      /\ e.totalStaked = s.totalStaked /\ e.totalSupply = s.totalSupply
      /\ e.blockFees = s.blockFees
  BY <1>1, NewEntryFields
<1>3. r = [e EXCEPT !.balance[who] = e.balance[who] - amount,
                    !.staked[who] = e.staked[who] + amount,
                    !.candidates = e.candidates \cup {who},
                    !.totalStaked = e.totalStaked + amount]
  BY DEF Stake
<1> HIDE DEF e, r
<1>4. /\ s.balance \in [Nodes -> Nat] /\ s.staked \in [Nodes -> Nat]
      /\ s.candidates \subseteq Nodes /\ s.totalStaked \in Nat
  BY <1>1 DEF States, Amounts
<1>5. amount >= MinStake /\ s.balance[who] >= amount /\ MinStake \in Nat \ {0}
  BY StakingAssumption DEF CanStake
<1>6. /\ [e.balance EXCEPT ![who] = e.balance[who] - amount] \in Amounts
      /\ [e.staked EXCEPT ![who] = e.staked[who] + amount] \in Amounts
      /\ e.candidates \cup {who} \in SUBSET Nodes
      /\ e.totalStaked + amount \in Nat
  BY <1>2, <1>4, <1>5 DEF Amounts
<1>7. r \in States
  BY <1>2, <1>3, <1>6 DEF States
<1>8. /\ r.balance = [e.balance EXCEPT ![who] = e.balance[who] - amount]
      /\ r.staked = [e.staked EXCEPT ![who] = e.staked[who] + amount]
      /\ r.candidates = s.candidates \cup {who} /\ r.stakers = s.stakers \cup {who}
      /\ r.totalStaked = s.totalStaked + amount /\ r.known = s.known
      /\ r.unstaking = s.unstaking /\ r.blockFees = s.blockFees
      /\ r.totalSupply = s.totalSupply
  BY <1>2, <1>3 DEF States
<1>9. /\ r.balance \in [Nodes -> Nat] /\ r.staked \in [Nodes -> Nat]
      /\ r.balance[who] = s.balance[who] - amount
      /\ \A m \in Nodes \ {who} : r.balance[m] = s.balance[m]
      /\ r.staked[who] = s.staked[who] + amount
      /\ \A m \in Nodes \ {who} : r.staked[m] = s.staked[m]
  BY <1>2, <1>4, <1>6, <1>8 DEF Amounts
<1>10. Total(r.balance) = Total(s.balance) - amount
  <2>1. Total(r.balance) = Total(s.balance) - s.balance[who] + r.balance[who]
    BY <1>4, <1>9, NodesAssumption, TotalSet
  <2> QED
    BY <1>1, <1>4, <1>9, <2>1, MoneyNat
<1>11. Total(r.staked) = Total(s.staked) + amount
  BY <1>4, <1>9, NodesAssumption, TotalAdd
<1>12. who \in s.known
  BY <1>4, <1>5 DEF Sound
<1>13. Sound(r)
  <2>1. \A n \in Nodes \ r.known : r.balance[n] = 0
    BY <1>8, <1>9, <1>12 DEF Sound
  <2>2. r.totalStaked = Total(r.staked)
    BY <1>8, <1>11 DEF Sound
  <2>3. \A n \in r.candidates : n \in r.stakers /\ r.staked[n] >= MinStake
    BY <1>4, <1>5, <1>8, <1>9 DEF Sound
  <2> QED
    BY <1>7, <2>1, <2>2, <2>3 DEF Sound
<1>14. Money(r) = Money(s)
  BY <1>1, <1>8, <1>10, <1>11, MoneyNat DEF Money
<1>15. KeepsBooks(s, r)
  BY <1>1, <1>8, <1>14, MoneyNat DEF KeepsBooks, Lost, States
<1> QED
  BY <1>13, <1>15 DEF r

\* unstake() moves the amount from the stake to what waits for the cooldown.
LEMMA UnstakeKeeps ==
    ASSUME NEW s, Sound(s), NEW who \in Nodes, NEW amount \in Nat,
           NEW currentBlock \in Nat, CanUnstake(s, who, amount)
    PROVE  /\ Sound(Unstake(s, who, amount, currentBlock))
           /\ KeepsBooks(s, Unstake(s, who, amount, currentBlock))
<1> DEFINE r == Unstake(s, who, amount, currentBlock)
           c == IF s.staked[who] - amount < MinStake
                THEN s.candidates \ {who} ELSE s.candidates
<1>1. s \in States
  BY DEF Sound
<1>2. r = [s EXCEPT !.staked[who] = s.staked[who] - amount,
                    !.unstaking[who] = s.unstaking[who] + amount,
                    !.unstakeBlock[who] = currentBlock,
                    !.totalStaked = s.totalStaked - amount,
                    !.candidates = c]
  BY DEF Unstake
<1>3. /\ s.unstaking \in [Nodes -> Nat] /\ s.staked \in [Nodes -> Nat]
      /\ s.candidates \subseteq Nodes /\ s.totalStaked \in Nat
      /\ s.unstakeBlock \in [Nodes -> Nat]
  BY <1>1 DEF States, Amounts
<1>4. amount <= s.staked[who] /\ MinStake \in Nat \ {0}
  BY StakingAssumption DEF CanUnstake
<1>5. s.totalStaked = Total(s.staked) /\ s.staked[who] <= Total(s.staked)
  BY <1>3, NodesAssumption, TotalSet DEF Sound
<1>6. /\ [s.staked EXCEPT ![who] = s.staked[who] - amount] \in Amounts
      /\ [s.unstaking EXCEPT ![who] = s.unstaking[who] + amount] \in Amounts
      /\ [s.unstakeBlock EXCEPT ![who] = currentBlock] \in Amounts
      /\ c \in SUBSET Nodes
      /\ s.totalStaked - amount \in Nat
  BY <1>3, <1>4, <1>5 DEF Amounts
<1> HIDE DEF c, r
<1>7. r \in States
  BY <1>1, <1>2, <1>6 DEF States
<1>8. /\ r.unstaking = [s.unstaking EXCEPT ![who] = s.unstaking[who] + amount]
      /\ r.staked = [s.staked EXCEPT ![who] = s.staked[who] - amount]
      /\ r.candidates = c /\ r.stakers = s.stakers
      /\ r.totalStaked = s.totalStaked - amount /\ r.known = s.known
      /\ r.balance = s.balance /\ r.blockFees = s.blockFees
      /\ r.totalSupply = s.totalSupply
  BY <1>1, <1>2 DEF States
<1>9. /\ r.unstaking \in [Nodes -> Nat] /\ r.staked \in [Nodes -> Nat]
      /\ r.staked[who] = s.staked[who] - amount
      /\ \A m \in Nodes \ {who} : r.staked[m] = s.staked[m]
      /\ r.unstaking[who] = s.unstaking[who] + amount
      /\ \A m \in Nodes \ {who} : r.unstaking[m] = s.unstaking[m]
  BY <1>3, <1>6, <1>8 DEF Amounts
<1>10. Total(r.staked) = Total(s.staked) - amount
  <2>1. Total(r.staked) = Total(s.staked) - s.staked[who] + r.staked[who]
    BY <1>3, <1>9, NodesAssumption, TotalSet
  <2> QED
    BY <1>1, <1>3, <1>9, <2>1, MoneyNat
<1>11. Total(r.unstaking) = Total(s.unstaking) + amount
  <2>1. /\ s.unstaking \in [Nodes -> Nat] /\ r.unstaking \in [Nodes -> Nat]
        /\ r.unstaking[who] = s.unstaking[who] + amount
        /\ \A m \in Nodes \ {who} : r.unstaking[m] = s.unstaking[m]
    BY <1>3, <1>9
  <2> QED
    BY <2>1, NodesAssumption, TotalAdd
<1>12. Sound(r)
  <2>1. \A n \in Nodes \ r.known : r.balance[n] = 0
    BY <1>8 DEF Sound
  <2>2. r.totalStaked = Total(r.staked)
    BY <1>5, <1>8, <1>10
  <2>3. \A n \in r.candidates : n \in r.stakers /\ r.staked[n] >= MinStake
    BY <1>3, <1>4, <1>8, <1>9 DEF Sound, c
  <2> QED
    BY <1>7, <2>1, <2>2, <2>3 DEF Sound
<1>13. Money(r) = Money(s)
  BY <1>1, <1>8, <1>10, <1>11, MoneyNat DEF Money
<1>14. KeepsBooks(s, r)
  BY <1>1, <1>8, <1>13, MoneyNat DEF KeepsBooks, Lost, States
<1> QED
  BY <1>12, <1>14 DEF r

\* Clearing what claim() pays out takes it away from the money there is.
LEMMA ClaimFields ==
    ASSUME NEW s, Sound(s), NEW who \in Nodes
    PROVE  LET r == Claim(s, who)
           IN  /\ Sound(r)
               /\ Money(r) = Money(s) - s.unstaking[who]
               /\ r.totalSupply = s.totalSupply /\ r.balance = s.balance
<1> DEFINE r == Claim(s, who)
           st == IF s.staked[who] = 0 /\ who \notin s.candidates
                 THEN s.stakers \ {who} ELSE s.stakers
<1>1. s \in States
  BY DEF Sound
<1>2. r = [s EXCEPT !.unstaking[who] = 0, !.unstakeBlock[who] = 0, !.stakers = st]
  BY DEF Claim
<1>3. /\ s.unstaking \in [Nodes -> Nat] /\ s.unstakeBlock \in [Nodes -> Nat]
      /\ s.stakers \subseteq Nodes /\ s.candidates \subseteq Nodes
  BY <1>1 DEF States, Amounts
<1>4. /\ [s.unstaking EXCEPT ![who] = 0] \in Amounts
      /\ [s.unstakeBlock EXCEPT ![who] = 0] \in Amounts
      /\ st \in SUBSET Nodes
  BY <1>3 DEF Amounts
<1>5. \A n \in s.candidates : n \in st
  BY DEF Sound
<1> HIDE DEF st, r
<1>6. r \in States
  BY <1>1, <1>2, <1>4 DEF States
<1>7. /\ r.unstaking = [s.unstaking EXCEPT ![who] = 0]
      /\ r.stakers = st /\ r.candidates = s.candidates
      /\ r.staked = s.staked /\ r.totalStaked = s.totalStaked
      /\ r.known = s.known /\ r.balance = s.balance /\ r.blockFees = s.blockFees
      /\ r.totalSupply = s.totalSupply
  BY <1>1, <1>2 DEF States
<1>8. Sound(r)
  BY <1>5, <1>6, <1>7 DEF Sound
<1>9. Total(r.unstaking) = Total(s.unstaking) - s.unstaking[who]
  <2>1. /\ r.unstaking \in [Nodes -> Nat] /\ r.unstaking[who] = 0
        /\ \A m \in Nodes \ {who} : r.unstaking[m] = s.unstaking[m]
    BY <1>3, <1>4, <1>7 DEF Amounts
  <2>2. Total(r.unstaking) = Total(s.unstaking) - s.unstaking[who] + r.unstaking[who]
    BY <1>3, <2>1, NodesAssumption, TotalSet
  <2> QED
    BY <1>1, <1>3, <2>1, <2>2, MoneyNat
<1>10. Money(r) = Money(s) - s.unstaking[who]
  BY <1>1, <1>3, <1>7, <1>9, MoneyNat DEF Money
<1> QED
  BY <1>7, <1>8, <1>10 DEF r

\* A CLAIM that pays pays exactly what claim() clears.
LEMMA ClaimKeeps ==
    ASSUME NEW s, Sound(s), NEW tx, tx.sender \in Nodes,
           Claimable(s, tx.sender, chainLen) > 0
    PROVE  Sound(ClaimedBack(s, tx)) /\ KeepsBooks(s, ClaimedBack(s, tx))
<1> DEFINE who == tx.sender
           left == Claim(s, who)
           v == left.balance[who] + Claimable(s, who, chainLen)
           r == SetBalance(left, who, v)
<1>1. s \in States /\ s.unstaking[who] \in Nat
  BY DEF Sound, States, Amounts
<1>2. Claimable(s, who, chainLen) = s.unstaking[who]
  BY DEF Claimable
<1>3. /\ Sound(left)
      /\ Money(left) = Money(s) - s.unstaking[who]
      /\ left.totalSupply = s.totalSupply
  BY ClaimFields
<1>4. ClaimedBack(s, tx) = r
  BY DEF ClaimedBack
<1> HIDE DEF left
<1>5. left \in States /\ left.balance[who] \in Nat
  BY <1>3 DEF Sound, States, Amounts
<1>6. v \in Nat /\ v = left.balance[who] + s.unstaking[who]
  BY <1>1, <1>2, <1>5
<1> HIDE DEF v
<1>7. Sound(r) /\ OnlyAccounts(left, r)
  BY <1>3, <1>6, SetBalanceFields DEF BalanceSet
<1>8. /\ Money(r) <= Money(left) - left.balance[who] + v
      /\ AccountsFit => Money(r) = Money(left) - left.balance[who] + v
  BY <1>3, <1>6, SetBalanceMoney
<1> HIDE DEF r
<1>9. r.totalSupply = s.totalSupply /\ s.totalSupply \in Nat
  BY <1>1, <1>3, <1>5, <1>7 DEF OnlyAccounts, States
<1>10. Money(s) \in Nat /\ Money(left) \in Nat /\ Money(r) \in Nat
  BY <1>1, <1>5, <1>7, MoneyNat DEF Sound
<1>11. KeepsBooks(s, r)
  BY <1>1, <1>3, <1>5, <1>6, <1>8, <1>9, <1>10 DEF KeepsBooks, Lost
<1> QED
  BY <1>4, <1>7, <1>11

-----------------------------------------------------------------------------
(* Transactions *)

\* Two states with the same amounts have the same money.
LEMMA SameAmounts ==
    ASSUME NEW s, Sound(s), NEW r \in States,
           r.known = s.known, r.balance = s.balance, r.staked = s.staked,
           r.unstaking = s.unstaking, r.blockFees = s.blockFees,
           r.totalStaked = s.totalStaked, r.totalSupply = s.totalSupply,
           r.candidates = s.candidates, r.stakers = s.stakers
    PROVE  Sound(r) /\ KeepsBooks(s, r)
<1>1. Sound(r)
  BY DEF Sound
<1>2. Lost(r) = Lost(s)
  BY DEF Lost, Money
<1>3. Lost(s) \in Int
  BY MoneyNat DEF Sound, States, Lost
<1> QED
  BY <1>1, <1>2, <1>3 DEF KeepsBooks

LEMMA IncrementNonceKeeps ==
    ASSUME NEW s, Sound(s), NEW n \in Nodes
    PROVE  Sound(IncrementNonce(s, n)) /\ KeepsBooks(s, IncrementNonce(s, n))
<1> DEFINE r == IncrementNonce(s, n)
<1>1. s \in States /\ [s.nonce EXCEPT ![n] = s.nonce[n] + 1] \in Amounts
  BY DEF Sound, States, Amounts
<1>2. /\ r \in States
      /\ r.known = s.known /\ r.balance = s.balance /\ r.staked = s.staked
      /\ r.unstaking = s.unstaking /\ r.blockFees = s.blockFees
      /\ r.totalStaked = s.totalStaked /\ r.totalSupply = s.totalSupply
      /\ r.candidates = s.candidates /\ r.stakers = s.stakers
  BY <1>1 DEF IncrementNonce, States
<1> HIDE DEF r
<1>3. Sound(r) /\ KeepsBooks(s, r)
  BY <1>2, SameAmounts
<1> QED
  BY <1>3 DEF r

\* What a transaction that succeeds does to the state, fee included.
LEMMA EffectKeeps ==
    ASSUME NEW s, Sound(s), NEW tx \in Txs, Succeeds(s, tx),
           height \in Nat, chainLen \in Nat
    PROVE  Sound(Effect(s, tx)) /\ KeepsBooks(s, Effect(s, tx))
<1> DEFINE c == Charged(s, tx)
<1>1. /\ tx.sender \in Nodes /\ tx.to \in Nodes /\ tx.value \in Nat
      /\ tx.gasPrice \in Nat /\ tx.gas \in Nat /\ tx.type \in TxTypes
  BY LedgerAssumption DEF TxRecords
<1>2. Sound(c) /\ KeepsBooks(s, c) /\ OnlyPayment(s, c)
  BY <1>1, ChargeFeeKeeps DEF Charged
<1> HIDE DEF c
<1>3. s \in States /\ c \in States
  BY <1>2 DEF Sound
<1>4. /\ c.staked = s.staked /\ c.stakers = s.stakers /\ c.candidates = s.candidates
      /\ c.unstaking = s.unstaking /\ c.unstakeBlock = s.unstakeBlock
  BY <1>2, <1>3 DEF OnlyPayment, States
<1>5. ASSUME NEW r, Sound(r), KeepsBooks(c, r), Effect(s, tx) = r
      PROVE  Sound(Effect(s, tx)) /\ KeepsBooks(s, Effect(s, tx))
  BY <1>2, <1>3, <1>5, KeepsBooksTwice DEF Sound
<1>6. CASE tx.type = "TRANSFER"
  <2>1. tx.value <= c.balance[tx.sender]
    BY <1>1, <1>3, <1>6 DEF Succeeds, c, States, Amounts
  <2>2. Effect(s, tx) = Transfer(c, tx.sender, tx.to, tx.value)
    BY <1>6 DEF Effect, c
  <2> QED
    BY <1>1, <1>2, <1>5, <2>1, <2>2, TransferKeeps
<1>7. CASE tx.type = "STAKE"
  <2>1. CanStake(c, tx.sender, tx.value)
    BY <1>7 DEF Succeeds, c
  <2>2. Effect(s, tx) = Stake(c, tx.sender, tx.value)
    BY <1>7 DEF Effect, c
  <2> QED
    BY <1>1, <1>2, <1>5, <2>1, <2>2, StakeKeeps
<1>8. CASE tx.type = "UNSTAKE"
  <2>1. CanUnstake(c, tx.sender, tx.value)
    BY <1>4, <1>8 DEF Succeeds, CanUnstake
  <2>2. Effect(s, tx) = Unstake(c, tx.sender, tx.value, chainLen)
    BY <1>8 DEF Effect, c
  <2> QED
    BY <1>1, <1>2, <1>5, <2>1, <2>2, UnstakeKeeps
<1>9. CASE tx.type = "CLAIM"
  <2>1. Claimable(c, tx.sender, chainLen) > 0
    BY <1>4, <1>9 DEF Succeeds, Claimable
  <2>2. Effect(s, tx) = ClaimedBack(c, tx)
    BY <1>9 DEF Effect, c
  <2> QED
    BY <1>1, <1>2, <1>5, <2>1, <2>2, ClaimKeeps
<1>10. CASE tx.type = "FAUCET"
  <2>1. Effect(s, tx) = Faucet(s, tx.sender)
    BY <1>10 DEF Effect
  <2> QED
    BY <1>1, <2>1, FaucetKeeps
<1>11. CASE tx.type = "DATA"
  <2>1. Effect(s, tx) = c
    BY <1>11 DEF Effect, c
  <2> QED
    BY <1>2, <2>1
<1>12. CASE tx.type \in {"CALL", "DEPLOY"}
  <2>1. Effect(s, tx) = ChargeFee(s, tx.sender, GasFee(tx))
    BY <1>12 DEF Effect
  <2>2. GasFee(tx) \in Nat
    <3>1. tx.gas * tx.gasPrice \in Nat
      BY <1>1
    <3> QED
      BY <3>1, StakingAssumption DEF GasFee
  <2> QED
    BY <1>1, <2>1, <2>2, ChargeFeeKeeps
<1> QED
  BY <1>1, <1>6, <1>7, <1>8, <1>9, <1>10, <1>11, <1>12 DEF TxTypes

-----------------------------------------------------------------------------
(* The seal of a block *)

LEMMA SkipsCountedKeeps ==
    ASSUME NEW s, Sound(s), lastSlot \in Nat, block.slot \in Nat
    PROVE  /\ Sound(SkipsCounted(s)) /\ KeepsBooks(s, SkipsCounted(s))
           /\ SkipsCounted(s).blockFees = s.blockFees
<1> DEFINE q == CountSkippedSlots(s, lastSlot, block.slot, block.producer)
           more(n) == Cardinality(SkippedBy(s, n, lastSlot, block.slot))
<1>1. s \in States /\ s.missed \in [Nodes -> Nat]
  BY DEF Sound, States, Amounts
<1>2. ASSUME NEW n \in Nodes PROVE more(n) \in Nat
  <2>1. IsFiniteSet((lastSlot + 1)..(block.slot - 1))
    BY FS_Interval
  <2>2. SkippedBy(s, n, lastSlot, block.slot) \subseteq (lastSlot + 1)..(block.slot - 1)
    BY DEF SkippedBy
  <2> QED
    BY <2>1, <2>2, FS_Subset, FS_CardinalityType
<1> HIDE DEF more
<1>3. [n \in Nodes |-> IF n # block.producer /\ n \in s.stakers /\ n \notin s.jailed
                       THEN s.missed[n] + more(n) ELSE s.missed[n]] \in Amounts
  BY <1>1, <1>2 DEF Amounts
<1>4. q = [s EXCEPT !.missed =
             [n \in Nodes |-> IF n # block.producer /\ n \in s.stakers /\ n \notin s.jailed
                              THEN s.missed[n] + more(n) ELSE s.missed[n]]]
  BY <1>1 DEF CountSkippedSlots, States, more
<1> HIDE DEF q
<1>5. /\ q \in States
      /\ q.known = s.known /\ q.balance = s.balance /\ q.staked = s.staked
      /\ q.unstaking = s.unstaking /\ q.blockFees = s.blockFees
      /\ q.totalStaked = s.totalStaked /\ q.totalSupply = s.totalSupply
      /\ q.candidates = s.candidates /\ q.stakers = s.stakers
  BY <1>1, <1>3, <1>4 DEF States
<1>6. Sound(q) /\ KeepsBooks(s, q)
  BY <1>5, SameAmounts
<1>7. Sound(s) /\ KeepsBooks(s, s)
  BY <1>1, SameAmounts
<1>8. SkipsCounted(s) = s \/ SkipsCounted(s) = q
  BY DEF SkipsCounted, q
<1> QED
  BY <1>5, <1>6, <1>7, <1>8

\* The producer is paid the reward, which is minted, and the fees of the block,
\* which from now on are counted in its balance.
LEMMA RewardedKeeps ==
    ASSUME NEW s, Sound(s), block.producer \in Nodes
    PROVE  /\ Sound(Rewarded(s))
           /\ Lost(Rewarded(s)) + Rewarded(s).blockFees >= Lost(s)
           /\ AccountsFit => Lost(Rewarded(s)) + Rewarded(s).blockFees = Lost(s)
<1> DEFINE p == block.producer
           v == s.balance[p] + BlockReward + s.blockFees
           paid == SetBalance(s, p, v)
           minted == [paid EXCEPT !.totalSupply = @ + BlockReward]
           r == Rewarded(s)
<1>1. s \in States /\ s.balance[p] \in Nat /\ s.blockFees \in Nat /\ s.totalSupply \in Nat
      /\ BlockReward \in Nat /\ v \in Nat
  BY LedgerAssumption DEF Sound, States, Amounts
<1> HIDE DEF v
<1>2. Sound(paid) /\ OnlyAccounts(s, paid)
  BY <1>1, SetBalanceFields DEF BalanceSet
<1>3. /\ Money(paid) <= Money(s) - s.balance[p] + v
      /\ AccountsFit => Money(paid) = Money(s) - s.balance[p] + v
  BY <1>1, SetBalanceMoney
<1>4. r = RecordBlockProduced(minted, p)
  BY DEF Rewarded, v
<1> HIDE DEF paid, r
<1>5. /\ paid \in States
      /\ paid.totalSupply = s.totalSupply /\ paid.blockFees = s.blockFees
  BY <1>1, <1>2 DEF OnlyAccounts, Sound, States
<1>6. minted \in States /\ minted = [paid EXCEPT !.totalSupply = paid.totalSupply + BlockReward]
  BY <1>1, <1>5 DEF States
<1> HIDE DEF minted
<1>7. r = [minted EXCEPT !.missed = r.missed] /\ r.missed \in Amounts
  BY <1>4, <1>6 DEF RecordBlockProduced, States, Amounts
<1>8. /\ r \in States
      /\ r.known = paid.known /\ r.balance = paid.balance /\ r.staked = paid.staked
      /\ r.unstaking = paid.unstaking /\ r.blockFees = s.blockFees
      /\ r.totalStaked = paid.totalStaked /\ r.totalSupply = s.totalSupply + BlockReward
      /\ r.candidates = paid.candidates /\ r.stakers = paid.stakers
  BY <1>5, <1>6, <1>7 DEF States
<1>9. Sound(r)
  BY <1>2, <1>8 DEF Sound
<1>10. Money(r) = Money(paid)
  BY <1>5, <1>8 DEF Money
<1>11. Money(s) \in Nat /\ Money(paid) \in Nat
  BY <1>1, <1>5, MoneyNat
<1>12. v = s.balance[p] + BlockReward + s.blockFees
  BY DEF v
<1>13. Lost(r) + r.blockFees >= Lost(s) /\ (AccountsFit => Lost(r) + r.blockFees = Lost(s))
  BY <1>1, <1>3, <1>8, <1>10, <1>11, <1>12 DEF Lost
<1> QED
  BY <1>9, <1>13 DEF r

\* A slash takes at most the stake there is.
LEMMA SlashAmountBound ==
    ASSUME NEW stake \in Nat, NEW pct \in Nat
    PROVE  SlashAmount(stake, pct) \in Nat /\ SlashAmount(stake, pct) <= stake
<1>1. stake * pct \in Nat
  OBVIOUS
<1>2. (stake * pct) \div 100 \in Nat
  BY <1>1
<1> QED
  BY <1>2 DEF SlashAmount

LEMMA UnjailExpiredKeeps ==
    ASSUME NEW s, Sound(s), NEW epoch \in Nat
    PROVE  /\ Sound(UnjailExpired(s, epoch)) /\ KeepsBooks(s, UnjailExpired(s, epoch))
           /\ UnjailExpired(s, epoch).blockFees = s.blockFees
<1> DEFINE r == UnjailExpired(s, epoch)
           j == {n \in s.jailed : n \in s.stakers => epoch < s.jailUntil[n]}
<1>1. s \in States /\ j \in SUBSET Nodes
  BY DEF Sound, States
<1>2. r = [s EXCEPT !.jailed = j]
  BY DEF UnjailExpired
<1> HIDE DEF j, r
<1>3. /\ r \in States
      /\ r.known = s.known /\ r.balance = s.balance /\ r.staked = s.staked
      /\ r.unstaking = s.unstaking /\ r.blockFees = s.blockFees
      /\ r.totalStaked = s.totalStaked /\ r.totalSupply = s.totalSupply
      /\ r.candidates = s.candidates /\ r.stakers = s.stakers
  BY <1>1, <1>2 DEF States
<1>4. Sound(r) /\ KeepsBooks(s, r)
  BY <1>3, SameAmounts
<1> QED
  BY <1>3, <1>4 DEF r

\* What is slashed leaves the stakes, both totals and the candidacy behind.
LEMMA PunishDowntimeKeeps ==
    ASSUME NEW s, Sound(s), NEW epoch \in Nat, Lost(s) + s.blockFees >= 0
    PROVE  /\ Sound(PunishDowntime(s, epoch)) /\ KeepsBooks(s, PunishDowntime(s, epoch))
           /\ PunishDowntime(s, epoch).blockFees = s.blockFees
<1> DEFINE checked == Eligible(s)
           guilty  == {n \in checked : s.missed[n] >= DowntimeThreshold}
           cut     == [n \in Nodes |-> IF n \in guilty
                                       THEN SlashAmount(s.staked[n], SlashPct) ELSE 0]
           left    == Less(s.staked, cut)
           until   == [n \in Nodes |-> IF n \in guilty
                                       THEN epoch + JailEpochs ELSE s.jailUntil[n]]
           cands   == {n \in s.candidates : n \in guilty => left[n] >= MinStake}
           misses  == [n \in Nodes |-> IF n \in checked THEN 0 ELSE s.missed[n]]
           r == PunishDowntime(s, epoch)
<1>1. /\ s \in States /\ s.staked \in [Nodes -> Nat] /\ s.jailUntil \in [Nodes -> Nat]
      /\ s.missed \in [Nodes -> Nat] /\ s.jailed \subseteq Nodes
      /\ s.stakers \subseteq Nodes /\ s.candidates \subseteq Nodes
      /\ s.totalStaked \in Nat /\ s.totalSupply \in Nat /\ s.blockFees \in Nat
  BY DEF Sound, States, Amounts
<1>2. r = [s EXCEPT !.staked = left,
                    !.totalStaked = s.totalStaked - Total(cut),
                    !.totalSupply = s.totalSupply - Total(cut),
                    !.jailed = s.jailed \cup guilty,
                    !.jailUntil = until,
                    !.candidates = cands,
                    !.missed = misses]
  BY <1>1 DEF PunishDowntime, States
<1>3. guilty \subseteq Nodes /\ cands \subseteq s.candidates
  BY <1>1 DEF Eligible
<1>4. cut \in [Nodes -> Nat] /\ \A n \in Nodes : cut[n] <= s.staked[n]
  <2>1. ASSUME NEW n \in Nodes PROVE cut[n] \in Nat /\ cut[n] <= s.staked[n]
    <3>1. s.staked[n] \in Nat /\ SlashPct \in Nat
      BY <1>1, StakingAssumption
    <3>2. SlashAmount(s.staked[n], SlashPct) \in Nat
          /\ SlashAmount(s.staked[n], SlashPct) <= s.staked[n]
      BY <3>1, SlashAmountBound
    <3> HIDE DEF guilty
    <3> QED
      BY <3>1, <3>2
  <2>2. \A n \in Nodes : cut[n] \in Nat /\ cut[n] <= s.staked[n]
    BY <2>1
  <2> QED
    BY <2>2
<1>5. \A n \in Nodes \ guilty : cut[n] = 0
  OBVIOUS
<1>6. until \in Amounts /\ misses \in Amounts
  BY <1>1, StakingAssumption DEF Amounts
<1>7. \A n \in cands : n \in s.candidates /\ (n \in guilty => left[n] >= MinStake)
  OBVIOUS
<1> HIDE DEF guilty, cut, until, cands, misses, checked, r
<1>8. left \in [Nodes -> Nat] /\ Total(left) = Total(s.staked) - Total(cut)
  BY <1>1, <1>4, NodesAssumption, TotalLess
<1>9. \A n \in Nodes \ guilty : left[n] = s.staked[n]
  BY <1>1, <1>4, <1>5 DEF Less
<1>10. Total(cut) \in Nat /\ Total(left) \in Nat /\ Total(s.staked) \in Nat
  BY <1>1, <1>4, <1>8, NodesAssumption, TokensFinite
<1> HIDE DEF left
<1>11. /\ s.totalStaked = Total(s.staked) /\ s.totalStaked - Total(cut) = Total(left)
  BY <1>8, <1>10 DEF Sound
<1>12. /\ Total(s.balance) \in Nat /\ Total(s.unstaking) \in Nat /\ s.blockFees \in Nat
       /\ Money(s) = Total(s.balance) + Total(s.staked) + Total(s.unstaking) + s.blockFees
  BY <1>1, MoneyNat DEF Money
<1>13. Total(cut) <= Total(s.staked) /\ s.totalSupply - Total(cut) \in Nat
  <2>1. Total(cut) <= Total(s.staked)
    BY <1>8, <1>10
  <2>2. s.totalSupply >= Total(s.staked)
    BY <1>1, <1>10, <1>12 DEF Lost
  <2> QED
    BY <1>1, <1>10, <2>1, <2>2
<1>14. r \in States
  <2>1. /\ left \in Amounts /\ s.totalStaked - Total(cut) \in Nat
        /\ s.jailed \cup guilty \in SUBSET Nodes /\ cands \in SUBSET Nodes
    BY <1>1, <1>3, <1>8, <1>10, <1>11 DEF Amounts
  <2> QED
    BY <1>1, <1>2, <1>6, <1>13, <2>1 DEF States
<1>15. /\ r.staked = left /\ r.totalStaked = Total(left)
       /\ r.totalSupply = s.totalSupply - Total(cut) /\ r.candidates = cands
       /\ r.known = s.known /\ r.balance = s.balance /\ r.unstaking = s.unstaking
       /\ r.stakers = s.stakers /\ r.blockFees = s.blockFees
  BY <1>1, <1>2, <1>11 DEF States
<1>16. Sound(r)
  <2>1. ASSUME NEW n \in r.candidates
        PROVE  n \in r.stakers /\ r.staked[n] >= MinStake
    <3>1. n \in s.candidates /\ n \in Nodes /\ n \in s.stakers /\ s.staked[n] >= MinStake
      BY <1>1, <1>3, <1>15, <2>1 DEF Sound
    <3> QED
      BY <1>7, <1>9, <1>15, <2>1, <3>1
  <2>2. \A n \in Nodes \ r.known : r.balance[n] = 0
    BY <1>15 DEF Sound
  <2> QED
    BY <1>14, <1>15, <2>1, <2>2 DEF Sound
<1>17. Money(r) = Total(s.balance) + Total(left) + Total(s.unstaking) + s.blockFees
  BY <1>15 DEF Money
<1>18. Lost(r) = Lost(s)
  BY <1>1, <1>8, <1>10, <1>12, <1>15, <1>17 DEF Lost
<1>19. Lost(s) \in Int
  BY <1>1, <1>10, <1>12 DEF Lost
<1> QED
  BY <1>15, <1>16, <1>18, <1>19 DEF r, KeepsBooks

\* The election seats stakers only, and changes no amount beyond the slashes.
LEMMA RunElectionKeeps ==
    ASSUME NEW s, Sound(s), NEW epoch \in Nat, Lost(s) + s.blockFees >= 0
    PROVE  /\ Sound(RunElection(s, epoch)) /\ KeepsBooks(s, RunElection(s, epoch))
           /\ RunElection(s, epoch).blockFees = s.blockFees
<1> DEFINE u == UnjailExpired(s, epoch)
           p == PunishDowntime(u, epoch)
           seats == TopStakers(p)
           r == RunElection(s, epoch)
<1>1. Sound(u) /\ KeepsBooks(s, u) /\ u.blockFees = s.blockFees
  BY UnjailExpiredKeeps
<1>2. r = [p EXCEPT !.currentEpoch = epoch, !.activeSet = seats]
  BY DEF RunElection
<1> HIDE DEF u
<1>3. s \in States /\ u \in States
  BY <1>1 DEF Sound
<1>4. Lost(s) \in Int /\ Lost(u) \in Int /\ s.blockFees \in Nat
  <2>1. Money(s) \in Nat /\ Money(u) \in Nat
    BY <1>3, MoneyNat
  <2> QED
    BY <1>3, <2>1 DEF Lost, States
<1>5. Lost(u) + u.blockFees >= 0
  BY <1>1, <1>4 DEF KeepsBooks
<1>6. Sound(p) /\ KeepsBooks(u, p) /\ p.blockFees = u.blockFees
  BY <1>1, <1>5, PunishDowntimeKeeps
<1> HIDE DEF p
<1>7. p \in States /\ seats \in SUBSET Nodes
  BY <1>6 DEF TopStakers, Eligible, Sound, States
<1> HIDE DEF seats, r
<1>8. /\ r \in States
      /\ r.known = p.known /\ r.balance = p.balance /\ r.staked = p.staked
      /\ r.unstaking = p.unstaking /\ r.blockFees = p.blockFees
      /\ r.totalStaked = p.totalStaked /\ r.totalSupply = p.totalSupply
      /\ r.candidates = p.candidates /\ r.stakers = p.stakers
  BY <1>2, <1>7 DEF States
<1>9. Sound(r) /\ KeepsBooks(p, r)
  BY <1>6, <1>8, SameAmounts
<1>10. KeepsBooks(s, p)
  BY <1>1, <1>3, <1>6, <1>7, KeepsBooksTwice
<1>11. KeepsBooks(s, r)
  BY <1>3, <1>7, <1>8, <1>9, <1>10, KeepsBooksTwice
<1> QED
  BY <1>1, <1>6, <1>8, <1>9, <1>11 DEF r

LEMMA ElectedKeeps ==
    ASSUME NEW s, Sound(s), Lost(s) + s.blockFees >= 0, height \in Nat
    PROVE  /\ Sound(Elected(s)) /\ KeepsBooks(s, Elected(s))
           /\ Elected(s).blockFees = s.blockFees
<1>1. CASE (height + 1) % EpochLength = 0
  <2>1. (height + 1) \div EpochLength \in Nat
    BY LedgerAssumption
  <2>2. Elected(s) = RunElection(s, (height + 1) \div EpochLength)
    BY <1>1 DEF Elected
  <2> QED
    BY <2>1, <2>2, RunElectionKeeps
<1>2. CASE (height + 1) % EpochLength # 0
  <2>1. Elected(s) = s
    BY <1>2 DEF Elected
  <2> QED
    BY <2>1, SameAmounts DEF Sound
<1> QED
  BY <1>1, <1>2

-----------------------------------------------------------------------------
(* The inductive invariant *)

\* The supply and the money agree; fees that were paid out to a producer are
\* still in blockFees, so that they have to be left out.
Books(s, paidOut) ==
    /\ Lost(s) + paidOut >= 0
    /\ AccountsFit => Lost(s) + paidOut = 0

\* A block can be dropped at any time: its snapshot is as good as the state.
IInv ==
    /\ TypeOK
    /\ Sound(state)
    /\ block = NoBlock => Books(state, state.blockFees)
    /\ block # NoBlock => /\ Books(state, 0)
                          /\ Sound(block.snap)
                          /\ Books(block.snap, block.snap.blockFees)

\* An open block is not NoBlock, whatever the fields are.
LEMMA OpenOrNot == \A b \in OpenBlocks : b # NoBlock
  BY DEF OpenBlocks, NoBlock

\* The genesis block splits what the founder has, all of it locked.
LEMMA GenesisSound == Sound(GenesisState) /\ Lost(GenesisState) = 0 /\ GenesisState.blockFees = 0
<1> DEFINE zero == [n \in Nodes |-> 0]
           bond == GenesisPerNode \div 2
           rest == GenesisPerNode - bond
           g == GenesisState
<1>1. /\ bond \in Nat /\ rest \in Nat /\ bond >= MinStake
      /\ MinStake \in Nat \ {0} /\ GenesisPerNode \in Nat
  BY LedgerAssumption, StakingAssumption
<1>2. GenesisPerNode = rest + bond
  BY <1>1
<1> HIDE DEF bond, rest
<1>3. zero = Only(Nodes, Founder, 0)
  BY DEF Only
<1>4. zero \in [Nodes -> Nat] /\ Total(zero) = 0
  <2>1. Founder \in Nodes /\ 0 \in Nat
    BY NodesAssumption
  <2>2. Only(Nodes, Founder, 0) \in [Nodes -> Nat] /\ Total(Only(Nodes, Founder, 0)) = 0
    BY <2>1, TotalOnly
  <2> HIDE DEF zero
  <2> QED
    BY <1>3, <2>2
<1>5. Only(Nodes, Founder, rest) \in [Nodes -> Nat] /\ Total(Only(Nodes, Founder, rest)) = rest
  BY <1>1, NodesAssumption, TotalOnly
<1>6. Only(Nodes, Founder, bond) \in [Nodes -> Nat] /\ Total(Only(Nodes, Founder, bond)) = bond
  BY <1>1, NodesAssumption, TotalOnly
<1>7. /\ g.known = {Founder} /\ g.balance = Only(Nodes, Founder, rest)
      /\ g.staked = Only(Nodes, Founder, bond) /\ g.unstaking = zero
      /\ g.stakers = {Founder} /\ g.candidates = {Founder}
      /\ g.totalStaked = bond /\ g.totalSupply = GenesisPerNode /\ g.blockFees = 0
  BY DEF GenesisState, bond, rest
<1>8. g \in States
  BY <1>1, <1>4, <1>5, <1>6, NodesAssumption DEF GenesisState, States, Amounts, bond, rest
<1> HIDE DEF g, zero
<1>9. \A n \in Nodes \ {Founder} : Only(Nodes, Founder, rest)[n] = 0
  BY DEF Only
<1>10. Only(Nodes, Founder, bond)[Founder] = bond
  BY NodesAssumption DEF Only
<1>11. Sound(g)
  BY <1>1, <1>6, <1>7, <1>8, <1>9, <1>10 DEF Sound
<1>12. Money(g) = rest + bond
  BY <1>1, <1>4, <1>5, <1>6, <1>7 DEF Money
<1>13. Lost(g) = 0
  BY <1>1, <1>2, <1>7, <1>12 DEF Lost
<1> QED
  BY <1>7, <1>11, <1>13 DEF g

LEMMA InitIInv == Init => IInv
<1> SUFFICES ASSUME Init PROVE IInv
  OBVIOUS
<1>1. Sound(state) /\ Lost(state) = 0 /\ state.blockFees = 0
  BY GenesisSound DEF Init
<1>2. TypeOK
  BY <1>1, LedgerAssumption DEF Init, TypeOK, Sound
<1>3. Books(state, state.blockFees)
  BY <1>1 DEF Books
<1> QED
  BY <1>1, <1>2, <1>3 DEF IInv, Init

\* A block begins with no fees; what is left of the last block's was paid out.
LEMMA BeginBlockIInv ==
    ASSUME IInv, NEW mode \in {"create", "apply"}, NEW producer \in Devices,
           NEW slot \in 0..MaxSlot, BeginBlock(mode, producer, slot)
    PROVE  IInv'
<1>1. /\ block = NoBlock /\ state \in States /\ Sound(state)
      /\ Books(state, state.blockFees)
  BY DEF IInv, TypeOK, BeginBlock
<1>2. state' = [state EXCEPT !.blockFees = 0]
  BY DEF BeginBlock
<1>3. /\ state' \in States
      /\ state'.known = state.known /\ state'.balance = state.balance
      /\ state'.staked = state.staked /\ state'.unstaking = state.unstaking
      /\ state'.blockFees = 0 /\ state'.totalStaked = state.totalStaked
      /\ state'.totalSupply = state.totalSupply
      /\ state'.candidates = state.candidates /\ state'.stakers = state.stakers
  BY <1>1, <1>2 DEF States
<1>4. Sound(state')
  BY <1>1, <1>3 DEF Sound
<1>5. Lost(state') = Lost(state) + state.blockFees
  <2>1. /\ Total(state.balance) \in Nat /\ Total(state.staked) \in Nat
        /\ Total(state.unstaking) \in Nat /\ state.blockFees \in Nat
        /\ state.totalSupply \in Nat
    BY <1>1, MoneyNat DEF States
  <2> QED
    BY <1>3, <2>1 DEF Lost, Money
<1>6. Lost(state') \in Int
  <2>1. Money(state') \in Nat
    BY <1>3, MoneyNat
  <2> QED
    BY <1>3, <2>1 DEF Lost, States
<1>7. Books(state', 0) /\ Books(state', state'.blockFees)
  BY <1>1, <1>3, <1>5, <1>6 DEF Books, AccountsFit
<1>8. /\ block'.snap = state \/ block'.snap = state'
      /\ block' \in OpenBlocks
  <2>1. block' = [mode |-> mode, producer |-> producer, slot |-> slot, txCount |-> 0,
                  snap |-> IF mode = "create" THEN state ELSE state']
    BY DEF BeginBlock
  <2>2. slot \in Nat /\ 0 \in 0..MaxTxnPerBlock
    BY LedgerAssumption
  <2> QED
    BY <1>1, <1>3, <2>1, <2>2 DEF OpenBlocks
<1>9. Sound(block'.snap) /\ Books(block'.snap, block'.snap.blockFees)
  BY <1>1, <1>4, <1>7, <1>8
<1>10. TypeOK'
  BY <1>3, <1>8 DEF IInv, TypeOK, BeginBlock
<1>11. block' # NoBlock
  BY <1>8, OpenOrNot
<1> QED
  BY <1>4, <1>7, <1>9, <1>10, <1>11 DEF IInv, Books, Sound, Lost, Money, AccountsFit

\* One more transaction: its effect is sound, the nonce changes no amount.
LEMMA ExecTxIInv ==
    ASSUME IInv, NEW tx \in Txs, ExecTx(tx)
    PROVE  IInv'
<1> DEFINE e == Effect(state, tx)
<1>1. /\ block # NoBlock /\ block \in OpenBlocks /\ Sound(state) /\ Books(state, 0)
      /\ Sound(block.snap) /\ Books(block.snap, block.snap.blockFees)
      /\ block.txCount < MaxTxnPerBlock
  BY DEF IInv, TypeOK, ExecTx
<1>2. chainLen \in Nat /\ height \in Nat
  BY LedgerAssumption DEF IInv, TypeOK, height
<1>3. tx.sender \in Nodes
  BY LedgerAssumption DEF TxRecords
<1>4. Sound(e) /\ KeepsBooks(state, e)
  BY <1>1, <1>2, EffectKeeps DEF ExecTx
<1>5. state' = IncrementNonce(e, tx.sender)
  BY DEF ExecTx
<1> HIDE DEF e
<1>6. Sound(state') /\ KeepsBooks(e, state')
  BY <1>3, <1>4, <1>5, IncrementNonceKeeps
<1>7. state \in States /\ state' \in States
  BY <1>1, <1>6 DEF Sound
<1>8. KeepsBooks(state, state')
  BY <1>4, <1>6, <1>7, KeepsBooksTwice DEF Sound
<1>9. Books(state', 0)
  <2>1. Lost(state) \in Int /\ Lost(state') \in Int
    <3>1. Money(state) \in Nat /\ Money(state') \in Nat
      BY <1>7, MoneyNat
    <3> QED
      BY <1>7, <3>1 DEF Lost, States
  <2> QED
    BY <1>1, <1>8, <2>1 DEF Books, KeepsBooks
<1>10. block' \in OpenBlocks /\ block'.snap = block.snap
  <2>1. block' = [block EXCEPT !.txCount = block.txCount + 1]
    BY DEF ExecTx
  <2>2. block.txCount + 1 \in 0..MaxTxnPerBlock
    BY <1>1, LedgerAssumption DEF OpenBlocks
  <2> QED
    BY <1>1, <2>1, <2>2 DEF OpenBlocks
<1>11. TypeOK'
  BY <1>7, <1>10 DEF IInv, TypeOK, ExecTx
<1>12. block' # NoBlock
  BY <1>10, OpenOrNot
<1> QED
  BY <1>1, <1>6, <1>9, <1>10, <1>11, <1>12 DEF IInv, Books, Sound, Lost, Money, AccountsFit

\* A dropped block leaves the snapshot behind.
LEMMA DropBlockIInv ==
    ASSUME IInv, block # NoBlock, DropBlock
    PROVE  IInv'
<1>1. /\ Sound(block.snap) /\ Books(block.snap, block.snap.blockFees)
      /\ state' = block.snap /\ block' = NoBlock
  BY DEF IInv, DropBlock
<1>2. TypeOK'
  BY <1>1 DEF IInv, TypeOK, DropBlock, Sound
<1> QED
  BY <1>1, <1>2 DEF IInv, Books, Sound, Lost, Money, AccountsFit

\* The seal pays the fees out with the reward, then perhaps elects.
LEMMA SealBlockIInv ==
    ASSUME IInv, SealBlock
    PROVE  IInv'
<1> DEFINE q == SkipsCounted(state)
           r == Rewarded(q)
           e == Elected(r)
<1>1. /\ block # NoBlock /\ block \in OpenBlocks /\ Sound(state) /\ Books(state, 0)
      /\ lastSlot \in Nat /\ chainLen \in 0..(PruneTrigger - 1) /\ chainOffset \in Nat
  BY DEF IInv, TypeOK, SealBlock
<1>2. block.slot \in Nat /\ block.producer \in Nodes /\ height \in Nat
  BY <1>1, LedgerAssumption DEF OpenBlocks, Devices, height
<1>3. Sound(q) /\ KeepsBooks(state, q)
  BY <1>1, <1>2, SkipsCountedKeeps
<1>4. state' = e
  BY DEF SealBlock
<1> HIDE DEF q
<1>5. /\ Sound(r)
      /\ Lost(r) + r.blockFees >= Lost(q)
      /\ AccountsFit => Lost(r) + r.blockFees = Lost(q)
  BY <1>2, <1>3, RewardedKeeps
<1> HIDE DEF r
<1>6. state \in States /\ q \in States /\ r \in States
  BY <1>1, <1>3, <1>5 DEF Sound
<1>7. Lost(state) \in Int /\ Lost(q) \in Int /\ Lost(r) \in Int /\ r.blockFees \in Nat
  <2>1. Money(state) \in Nat /\ Money(q) \in Nat /\ Money(r) \in Nat
    BY <1>6, MoneyNat
  <2> QED
    BY <1>6, <2>1 DEF Lost, States
<1>8. Books(r, r.blockFees)
  BY <1>1, <1>3, <1>5, <1>7 DEF Books, KeepsBooks
<1>9. Sound(e) /\ KeepsBooks(r, e) /\ e.blockFees = r.blockFees
  BY <1>2, <1>5, <1>8, ElectedKeeps DEF Books
<1> HIDE DEF e
<1>10. e \in States
  BY <1>9 DEF Sound
<1>11. Lost(e) \in Int
  <2>1. Money(e) \in Nat
    BY <1>10, MoneyNat
  <2> QED
    BY <1>10, <2>1 DEF Lost, States
<1>12. Books(e, e.blockFees)
  BY <1>7, <1>8, <1>9, <1>11 DEF Books, KeepsBooks
<1>13. TypeOK'
  <2>1. chainLen' \in 0..(PruneTrigger - 1) /\ chainOffset' \in Nat /\ lastSlot' \in Nat
    BY <1>1, <1>2, LedgerAssumption DEF SealBlock
  <2> QED
    BY <1>4, <1>10, <2>1 DEF TypeOK, SealBlock
<1>14. block' = NoBlock
  BY DEF SealBlock
<1> QED
  BY <1>4, <1>9, <1>12, <1>13, <1>14 DEF IInv, Books, Sound, Lost, Money, AccountsFit

LEMMA NextIInv == IInv /\ [Next]_vars => IInv'
<1> SUFFICES ASSUME IInv, [Next]_vars PROVE IInv'
  OBVIOUS
<1>1. ASSUME NEW mode \in {"create", "apply"}, NEW producer \in Devices,
             NEW slot \in 0..MaxSlot, BeginBlock(mode, producer, slot)
      PROVE  IInv'
  BY <1>1, BeginBlockIInv
<1>2. ASSUME NEW tx \in Txs, ExecTx(tx) PROVE IInv'
  BY <1>2, ExecTxIInv
<1>3. ASSUME UNCHANGED vars PROVE IInv'
  BY <1>3 DEF IInv, TypeOK, vars, Books, Sound, Lost, Money
<1>4. ASSUME NEW tx \in Txs, FailTx(tx) PROVE IInv'
  BY <1>3, <1>4, DropBlockIInv DEF FailTx
<1>5. ASSUME SealBlock PROVE IInv'
  BY <1>5, SealBlockIInv
<1>6. ASSUME AbortBlock PROVE IInv'
  BY <1>6, DropBlockIInv DEF AbortBlock
<1> QED
  BY <1>1, <1>2, <1>3, <1>4, <1>5, <1>6 DEF Next

-----------------------------------------------------------------------------
(* Theorems *)

\* The invariant holds in every reachable state.
THEOREM Invariance == Spec => []IInv
<1>1. Init => IInv
  BY InitIInv
<1>2. IInv /\ [Next]_vars => IInv'
  BY NextIInv
<1> QED
  BY <1>1, <1>2, PTL DEF Spec

\* All variables keep their types (Ledger!TypeOK): in particular no balance,
\* stake or total of the code's unsigned integers is ever taken below 0.
THEOREM TypeCorrect == Spec => []TypeOK
<1>1. IInv => TypeOK
  BY DEF IInv
<1> QED
  BY <1>1, Invariance, PTL

\* StakingEngine.totalStaked is the sum of the entries in every state, within
\* and between blocks.
THEOREM StakeTotal == Spec => []StakeTotalExact
<1>1. IInv => StakeTotalExact
  BY DEF IInv, Sound, StakeTotalExact
<1> QED
  BY <1>1, Invariance, PTL

\* Every candidate of an election has an entry with MIN_STAKE.
THEOREM Backing == Spec => []CandidateBacked
<1>1. IInv => CandidateBacked
  BY DEF IInv, Sound, CandidateBacked
<1> QED
  BY <1>1, Invariance, PTL

\* Books, in the words of the two properties about the supply.
LEMMA BooksOfSupply ==
    ASSUME IInv
    PROVE  SupplyNeverOverspent /\ (AccountsFit => SupplyConserved)
<1>1. /\ Total(state.balance) \in Nat /\ Total(state.staked) \in Nat
      /\ Total(state.unstaking) \in Nat /\ state.blockFees \in Nat
      /\ state.totalSupply \in Nat
  BY MoneyNat DEF IInv, TypeOK, States
<1>2. Books(state, state.blockFees - PendingFees)
  BY <1>1 DEF IInv, PendingFees
<1>3. Lost(state) = state.totalSupply - (Total(state.balance) + Total(state.staked)
                        + Total(state.unstaking) + state.blockFees)
  BY DEF Lost, Money
<1>4. PendingFees \in Nat
  BY <1>1 DEF PendingFees
<1> QED
  BY <1>1, <1>2, <1>3, <1>4 DEF Books, SupplyNeverOverspent, SupplyConserved

\* No token exists that totalSupply does not count, also when accounts[] is
\* full and setBalance fails unseen.
THEOREM NeverOverspent == Spec => []SupplyNeverOverspent
<1>1. IInv => SupplyNeverOverspent
  BY BooksOfSupply
<1> QED
  BY <1>1, Invariance, PTL

\* When the account table has room for every node, no token is lost either:
\* totalSupply is exactly what there is, at every moment of every block.
THEOREM Conservation ==
    ASSUME AccountsFit
    PROVE  Spec => []SupplyConserved
<1>1. IInv => SupplyConserved
  BY BooksOfSupply
<1> QED
  BY <1>1, Invariance, PTL
=============================================================================
