------------------------------ MODULE CodeCache ------------------------------
(***************************************************************************)
(* Where the bytecode of the contracts is.  A DEPLOY puts only the length  *)
(* and the hash of the code on the chain; the code stays with the device   *)
(* that deploys, its host, and every device that has to execute a CALL     *)
(* fetches it, from its deploy cache or from a peer.  Only the contract    *)
(* that the CALL names is fetched: what that one calls in its turn runs    *)
(* where its code happens to be, and is skipped elsewhere.                 *)
(*                                                                         *)
(* A code and its hash are one value.  Devices agree on one chain of which *)
(* each has a prefix; a block holds its producer's own transactions, since *)
(* those of other devices arrive without a signature (see Mempool).  Calls *)
(* that have code halt (MVM says what they do), and leave the same storage *)
(* and gas where the same contracts run.                                   *)
(***************************************************************************)
EXTENDS Integers, FiniteSets, Sequences, SequencesExt

CONSTANTS
    Devices,
    Names,              \* contract names
    Codes,              \* bytecodes, each its own hash
    Callees,            \* the contracts that the XCALLs of each code name
    Absent,             \* no contract, no entry, no code
    Validators,         \* the active set: these keep what they fetch
    Offers,             \* bound: what the users deploy: from, name, code
    Rebooters,          \* bound: the devices that lose power
    CacheSize,          \* DEPLOY_CACHE_SIZE
    PruneTrigger,       \* PRUNE_TRIGGER
    MaxContracts,       \* MAX_CONTRACTS
    MaxTxns,            \* MAX_TXN_PER_BLOCK
    MaxSubmits,         \* bound: commands of the users
    MaxReboots          \* bound: reboots

ASSUME CodeCacheAssumption ==
    /\ Absent \notin Codes
    /\ Callees \in [Codes -> SUBSET Names]
    /\ Validators \subseteq Devices
    /\ Offers \subseteq [from : Devices, name : Names, code : Codes]
    /\ Rebooters \subseteq Devices
    /\ {CacheSize, PruneTrigger - 1, MaxContracts, MaxTxns} \subseteq Nat \ {0}
    /\ {MaxSubmits, MaxReboots} \subseteq Nat

VARIABLES
    chain,              \* the blocks: producer, transactions, state root, and what
                        \* the calls lacked at the producer (not in the code)
    height,             \* how many blocks each device has applied
    contracts,          \* contracts[] of each device
    cache,              \* g_deployCache of each device
    pool,               \* the own transactions in each mempool, by nonce
    jammed,             \* one of them failed: the later nonces have a gap
    checkpoints,        \* where the checkpoints of each device end
    sent,               \* the DEPLOY transactions ever broadcast
    restored,           \* who has taken a peer's state (no variable of the code)
    submits, reboots    \* what the bounds count

vars == <<chain, height, contracts, cache, pool, jammed, checkpoints, sent, restored,
          submits, reboots>>

Txs == [type : {"deploy"}, name : Names, code : Codes]
       \cup [type : {"call"}, name : Names]

Entries == [hash : Codes, hasCode : BOOLEAN]

\* Of storage and fees: what has run in each call of the contract.
Contracts == [host : Devices, hash : Codes, ran : Seq(SUBSET Names),
              code : Codes \cup {Absent}, temp : BOOLEAN]

ASSUME AbsentAssumption == Absent \notin Entries \cup Contracts

NoTable == [n \in Names |-> Absent]

Known(table) == {n \in Names : table[n] # Absent}

\* computeStateRoot: code and tempCode are not part of it, storage and fees are.
Root(table) ==
    [n \in Known(table) |-> <<table[n].host, table[n].hash, table[n].ran>>]

Init ==
    /\ chain = <<>>
    /\ height = [d \in Devices |-> 0]
    /\ contracts = [d \in Devices |-> NoTable]
    /\ cache = [d \in Devices |-> NoTable]
    /\ pool = [d \in Devices |-> <<>>]
    /\ jammed = [d \in Devices |-> FALSE]
    /\ checkpoints = [d \in Devices |-> <<>>]
    /\ sent = {} /\ restored = {}
    /\ submits = 0 /\ reboots = 0
-----------------------------------------------------------------------------
\* Mutant: one entry more than there are.
HasPlaceBehind(entries, n) == n \in Known(entries) \/ Cardinality(Known(entries)) <= CacheSize

\* findOrAlloc finds a place for n: entries are never freed.
HasPlace(entries, n) == n \in Known(entries) \/ Cardinality(Known(entries)) < CacheSize

\* DeployCache::store, whose result no caller looks at.
Store(entries, n, c) ==
    IF HasPlace(entries, n)
    THEN [entries EXCEPT ![n] = [hash |-> c, hasCode |-> TRUE]] ELSE entries

\* DeployCache::storeMeta: code that is there stays.
StoreMeta(entries, n, c) ==
    IF HasPlace(entries, n) /\ ~ (n \in Known(entries) /\ entries[n].hasCode)
    THEN [entries EXCEPT ![n] = [hash |-> c, hasCode |-> FALSE]] ELSE entries

\* deserializeBlock: the metadata of every DEPLOY in the block.
StoreDeploys(entries, txs) ==
    LET after[i \in 0..Len(txs)] ==
          IF i = 0 THEN entries
          ELSE IF txs[i].type = "call" THEN after[i - 1]
          ELSE StoreMeta(after[i - 1], txs[i].name, txs[i].code)
    IN  after[Len(txs)]
-----------------------------------------------------------------------------
\* Mutant: the hash of what a peer or the cache returns is not compared.
CachedUnchecked(c, code, temporary) == [c EXCEPT !.code = code, !.temp = temporary]

\* Contract::cacheCode.
Cached(c, code, temporary) ==
    IF code = c.hash THEN [c EXCEPT !.code = code, !.temp = temporary] ELSE c

\* The codes of n that the peers in R send when asked.
Offered(n, R) ==
    {contracts[e][n].code : e \in {r \in R : contracts[r][n] # Absent}} \ {Absent}

\* Mutant: the device keeps what it fetched for a contract it does not host
\* only if it is no validator.
BorrowsInverted(d, c) == c.host # d /\ d \in Validators

\* The code that d fetches for c is dropped after the next block.
Borrows(d, c) == c.host # d /\ d \notin Validators

\* fetchCodeForContract on d, when the peers in R answer: the own cache
\* first, then the host and the others, until some code has the right hash.
Fetch(d, entries, n, R) ==
    LET c    == contracts[d][n]
        mine == IF entries[n] # Absent /\ entries[n].hasCode
                THEN Cached(c, entries[n].hash, c.host # d) ELSE c
        got  == {x \in Offered(n, R) : Cached(c, x, Borrows(d, c)).code # Absent}
    IN  IF c = Absent \/ c.code # Absent THEN c
        ELSE IF mine.code # Absent \/ got = {} THEN mine
        ELSE Cached(c, CHOOSE x \in got : TRUE, Borrows(d, c))

\* Mutant: a contract is not looked for when the cache knows its name.
PrefetchUncached(d, entries, txs, R) ==
    [n \in Names |->
        IF entries[n] = Absent /\ \E i \in DOMAIN txs : txs[i].type = "call" /\ txs[i].name = n
        THEN Fetch(d, entries, n, R) ELSE contracts[d][n]]

\* prefetchCodeForTxns: the contracts that are called directly, before any
\* transaction of the block is executed.
Prefetch(d, entries, txs, R) ==
    [n \in Names |->
        IF \E i \in DOMAIN txs : txs[i].type = "call" /\ txs[i].name = n
        THEN Fetch(d, entries, n, R) ELSE contracts[d][n]]
-----------------------------------------------------------------------------
\* Mutant: the hash in the transaction is not compared with the entry's.
DeployableAny(table, entries, t) ==
    /\ entries[t.name] # Absent
    /\ table[t.name] = Absent
    /\ Cardinality(Known(table)) < MaxContracts

\* executeTx accepts the DEPLOY t.
Deployable(table, entries, t) ==
    /\ entries[t.name] # Absent
    /\ entries[t.name].hash = t.code
    /\ table[t.name] = Absent
    /\ Cardinality(Known(table)) < MaxContracts

\* Mutant: the host has to fetch its own code.
DeployedRemote(entries, t, sender) ==
    [host |-> sender, hash |-> entries[t.name].hash, ran |-> <<>>, temp |-> FALSE,
     code |-> Absent]

\* deployContract where the cache has the code, initRemote elsewhere.
Deployed(entries, t, sender) ==
    [host |-> sender, hash |-> entries[t.name].hash, ran |-> <<>>, temp |-> FALSE,
     code |-> IF entries[t.name].hasCode THEN entries[t.name].hash ELSE Absent]

\* executeTx accepts the CALL t: without code it asks for it (needsCode).
Callable(table, t) == table[t.name] # Absent /\ table[t.name].code # Absent

Succeeds(table, entries, t) ==
    IF t.type = "deploy" THEN Deployable(table, entries, t) ELSE Callable(table, t)

\* What an XCALL finds (g_contractResolver): deployed, with the code here.
Runnable(table) == {n \in Known(table) : table[n].code # Absent}

\* The contracts of S are all there is to run: nothing they call that is
\* runnable lies outside.
Complete(table, S) ==
    \A n \in S : Callees[table[n].code] \cap Runnable(table) \subseteq S

\* The contracts that run in a call of n, directly or nested.
Running(table, n) ==
    {m \in Runnable(table) :
        \A S \in SUBSET Runnable(table) : n \in S /\ Complete(table, S) => m \in S}

\* Those they call as well and do not find: the XCALL pushes 0.
Lacking(table, n) ==
    (Known(table) \ Runnable(table)) \cap
        UNION {Callees[table[m].code] : m \in Running(table, n)}

ExecuteTx(table, entries, t, sender) ==
    IF t.type = "deploy" THEN [table EXCEPT ![t.name] = Deployed(entries, t, sender)]
    ELSE [table EXCEPT ![t.name].ran = Append(@, Running(table, t.name))]

Missed(table, t) == IF t.type = "deploy" THEN {} ELSE Lacking(table, t.name)

\* The loop of createBlock and of applyNetworkBlock: what sender's
\* transactions leave, up to the first that fails; the nonces of the later
\* ones are wrong then.
Execute(table, entries, txs, sender) ==
    LET Step(r, i) ==
          IF r.done = i - 1 /\ Succeeds(r.table, entries, txs[i])
          THEN [table |-> ExecuteTx(r.table, entries, txs[i], sender), done |-> i,
                lacks |-> Append(r.lacks, Missed(r.table, txs[i]))]
          ELSE r
        \* Sets of one result, which TLC computes once.
        after[i \in 0..Len(txs)] ==
          IF i = 0 THEN {[table |-> table, done |-> 0, lacks |-> <<>>]}
          ELSE {Step(r, i) : r \in after[i - 1]}
    IN  CHOOSE r \in after[Len(txs)] : TRUE

\* discardTempCode for every contract.
TempDiscarded(table) ==
    [n \in Names |->
        IF n \in Known(table) /\ table[n].temp
        THEN [table[n] EXCEPT !.code = Absent, !.temp = FALSE] ELSE table[n]]
-----------------------------------------------------------------------------
Submit(d, t) ==
    /\ submits < MaxSubmits
    /\ submits' = submits + 1
    /\ pool' = [pool EXCEPT ![d] = Append(@, t)]
    /\ UNCHANGED <<chain, height, contracts, jammed, checkpoints, restored, reboots>>

\* webDeploy, directDeploy and the end of a serial assembly.
Deploy(d, m) ==
    /\ m.from = d
    /\ cache' = [cache EXCEPT ![d] = Store(@, m.name, m.code)]
    /\ sent' = sent \cup {m}
    /\ Submit(d, [type |-> "deploy", name |-> m.name, code |-> m.code])

\* prepareCallTransaction: the contract or its metadata is known.
Call(d, n) ==
    /\ contracts[d][n] # Absent \/ cache[d][n] # Absent
    /\ Submit(d, [type |-> "call", name |-> n])
    /\ UNCHANGED <<cache, sent>>

\* TX_GOSSIP, late or again: deserializeTx keeps the metadata although the
\* transaction is refused.
HearTx(d, m) ==
    /\ m \in sent /\ m.from # d
    /\ cache' = [cache EXCEPT ![d] = StoreMeta(@, m.name, m.code)]
    /\ UNCHANGED <<chain, height, contracts, pool, jammed, checkpoints, sent, restored, submits,
                   reboots>>

\* CONTRACT_INFO, which a device sends of the contracts of a new block.
HearInfo(d, e, n) ==
    /\ e # d /\ contracts[e][n] # Absent
    /\ cache' = [cache EXCEPT ![d] = StoreMeta(@, n, contracts[e][n].hash)]
    /\ contracts' = [contracts EXCEPT ![d][n] =
                        IF @ = Absent THEN @
                        ELSE [@ EXCEPT !.host = contracts[e][n].host,
                                       !.hash = contracts[e][n].hash]]
    /\ UNCHANGED <<chain, height, pool, jammed, checkpoints, sent, restored, submits, reboots>>

\* The last block that d has pruned, chainOffset - 1.
Offset(d) == IF checkpoints[d] = <<>> THEN 0 ELSE Last(checkpoints[d])

\* pruneChain after the next block of d, when chain[] holds enough, with genesis
\* as long as nothing has been pruned.
Pruned(d) ==
    LET blocks == height[d] + 1 - Offset(d) + IF checkpoints[d] = <<>> THEN 1 ELSE 0
    IN  IF blocks < PruneTrigger THEN checkpoints
        ELSE [checkpoints EXCEPT ![d] = Append(@, height[d] + 1)]

\* checkBlockProduction with transactions to try, on a device that has the
\* whole chain and whose peers in R answer.  What fails is gone, and with a
\* gap in the nonces nothing is drained.
Produce(d, R) ==
    /\ height[d] = Len(chain)
    /\ pool[d] # <<>> /\ ~ jammed[d]
    /\ LET txs == SubSeq(pool[d], 1, IF MaxTxns < Len(pool[d]) THEN MaxTxns ELSE Len(pool[d]))
           r   == Execute(Prefetch(d, cache[d], txs, R), cache[d], txs, d)
       IN  /\ contracts' = [contracts EXCEPT ![d] = r.table]
           /\ pool' = [pool EXCEPT ![d] = SubSeq(@, Len(txs) + 1, Len(@))]
           /\ jammed' = [jammed EXCEPT ![d] = r.done < Len(txs)]
           /\ IF r.done = 0 THEN UNCHANGED <<chain, height, checkpoints>>
              ELSE /\ chain' = Append(chain, [by |-> d, txs |-> SubSeq(txs, 1, r.done),
                                              root |-> Root(r.table), lacks |-> r.lacks])
                   /\ height' = [height EXCEPT ![d] = @ + 1]
                   /\ checkpoints' = Pruned(d)
    /\ UNCHANGED <<cache, sent, restored, submits, reboots>>

NextBlock(d) == chain[height[d] + 1]

\* Some peer of d still has the block d needs next.
Served(d) ==
    \E e \in Devices \ {d} : Offset(e) <= height[d] /\ height[d] < height[e]

\* BLOCK_FULL or trySync brings the next block, and the peers in R answer:
\* rejected with verdict 7 or 8, or applied.
Receive(d, R) ==
    /\ height[d] < Len(chain) /\ Served(d)
    /\ LET txs     == NextBlock(d).txs
           entries == StoreDeploys(cache[d], txs)
           table   == Prefetch(d, entries, txs, R)
       IN  \E r \in {Execute(table, entries, txs, NextBlock(d).by)} :
              /\ cache' = [cache EXCEPT ![d] = entries]
              /\ IF r.done = Len(txs) /\ Root(r.table) = NextBlock(d).root
                 THEN /\ contracts' = [contracts EXCEPT ![d] = TempDiscarded(r.table)]
                      /\ height' = [height EXCEPT ![d] = @ + 1]
                      /\ checkpoints' = Pruned(d)
                 ELSE /\ contracts' = [contracts EXCEPT ![d] = table]
                      /\ UNCHANGED <<height, checkpoints>>
    /\ UNCHANGED <<chain, pool, jammed, sent, restored, submits, reboots>>
-----------------------------------------------------------------------------
\* checkpointHasQuorum: another validator has e's checkpoint, or nobody else has
\* any and d has nothing to lose.
HasQuorum(d, e) ==
    LET others == {q \in Devices \ {d, e} : checkpoints[q] # <<>>}
    IN  \/ \E q \in others \cap Validators : Offset(q) = Offset(e)
        \/ others = {} /\ (height[d] = 0 \/ checkpoints[d] # <<>>)

\* resetState, which also empties the pool: g_txNonce has moved on by as much.
Emptied(d) ==
    /\ pool' = [pool EXCEPT ![d] = <<>>]
    /\ jammed' = [jammed EXCEPT ![d] = @ \/ pool[d] # <<>>]

\* trySync when nobody has the next block: the checkpoint of the best peer, if it
\* is the first or adjoins the last one, with that peer's state of today.  That
\* leaves borrowed code out, and unless the peer has just pruned it has another
\* root: d is back at genesis then.
FetchCheckpoint(d, e) ==
    /\ height[d] < height[e] /\ \A q \in Devices : height[q] <= height[e]
    /\ ~ Served(d)
    /\ e \in Validators /\ HasQuorum(d, e)
    /\ checkpoints[d] \in {<<>>, Front(checkpoints[e])}
    /\ LET fits == height[e] = Offset(e)
       IN  /\ height' = [height EXCEPT ![d] = IF fits THEN Offset(e) ELSE 0]
           /\ contracts' = [contracts EXCEPT ![d] =
                               IF fits THEN TempDiscarded(contracts[e]) ELSE NoTable]
           /\ checkpoints' = [checkpoints EXCEPT ![d] = IF fits THEN checkpoints[e] ELSE <<>>]
    /\ restored' = restored \cup {d}
    /\ Emptied(d)
    /\ UNCHANGED <<chain, cache, sent, submits, reboots>>

\* Power off and on, while another device has the whole chain: nothing is kept
\* (CHAINSTATE_NVS_PERSISTENCE is 0).
Reboot(d) ==
    /\ d \in Rebooters
    /\ \E e \in Devices \ {d} : height[e] = Len(chain)
    /\ reboots < MaxReboots
    /\ reboots' = reboots + 1
    /\ height' = [height EXCEPT ![d] = 0]
    /\ contracts' = [contracts EXCEPT ![d] = NoTable]
    /\ cache' = [cache EXCEPT ![d] = NoTable]
    /\ pool' = [pool EXCEPT ![d] = <<>>]
    /\ jammed' = [jammed EXCEPT ![d] = FALSE]
    /\ checkpoints' = [checkpoints EXCEPT ![d] = <<>>]
    /\ UNCHANGED <<chain, sent, restored, submits>>

Next ==
    \E d \in Devices :
        \/ \E m \in Offers : Deploy(d, m)
        \/ \E n \in Names : Call(d, n)
        \/ \E m \in sent : HearTx(d, m)
        \/ \E e \in Devices, n \in Names : HearInfo(d, e, n)
        \/ \E R \in SUBSET (Devices \ {d}) : Produce(d, R)
        \/ \E R \in SUBSET (Devices \ {d}) : Receive(d, R)
        \/ \E e \in Devices : FetchCheckpoint(d, e)
        \/ Reboot(d)

Spec == Init /\ [][Next]_vars

\* The devices whose users deploy nothing.
Followers == {d \in Devices : \A m \in Offers : m.from # d}

\* loop() of a follower asks for the next block again and again, and now and
\* then everyone it asks for code answers.  Of the others nothing is assumed.
Fairness ==
    \A d \in Followers :
        /\ WF_vars(Receive(d, Devices \ {d}))
        /\ WF_vars(\E e \in Devices : FetchCheckpoint(d, e))

FairSpec == Spec /\ Fairness
-----------------------------------------------------------------------------
TypeOK ==
    /\ \A i \in DOMAIN chain :
        /\ chain[i].by \in Devices
        /\ Range(chain[i].txs) \subseteq Txs /\ Len(chain[i].txs) \in 1..MaxTxns
    /\ \A d \in Devices :
        /\ height[d] \in 0..Len(chain)
        /\ \A i \in DOMAIN checkpoints[d] : checkpoints[d][i] \in 1..height[d]
        /\ Range(pool[d]) \subseteq Txs
        /\ \A n \in Known(contracts[d]) : contracts[d][n] \in Contracts
        /\ \A n \in Known(cache[d]) : cache[d][n] \in Entries
        /\ Cardinality(Known(cache[d])) <= CacheSize

\* A device that can execute every transaction of the next block, and whose
\* nested calls lack the code of the same contracts as the producer's did, gets
\* the producer's state root, whatever it had deployed, heard or fetched before:
\* a block is refused because code is here and not there, never because two
\* devices understand the same transactions differently.
ReplayAgrees ==
    \A d \in Devices :
        height[d] < Len(chain) =>
            LET txs     == NextBlock(d).txs
                entries == StoreDeploys(cache[d], txs)
                r       == Execute(Prefetch(d, entries, txs, Devices \ {d}), entries, txs,
                                   NextBlock(d).by)
            IN  r.done = Len(txs) /\ r.lacks = NextBlock(d).lacks =>
                    Root(r.table) = NextBlock(d).root

\* The block that deploys n, among the first k.
DeployedBy(i, n, d, c) ==
    chain[i].by = d /\ [type |-> "deploy", name |-> n, code |-> c] \in Range(chain[i].txs)

\* What a device takes for the contract n is what the chain deployed as n, by
\* the device that did, and the code it would run or send has that hash.
CodeIsDeployed ==
    \A d \in Devices : \A n \in Known(contracts[d]) :
        LET c == contracts[d][n]
        IN  /\ \E i \in 1..height[d] : DeployedBy(i, n, c.host, c.hash)
            /\ c.code \in {c.hash, Absent}

Called(n, k) == \E i \in 1..k : [type |-> "call", name |-> n] \in Range(chain[i].txs)

\* A device that has neither rebooted nor restored a checkpoint.
Steady(d) == d \notin Rebooters \cup restored

\* The host of a contract can send its code as long as it runs.
HostServes ==
    \A d \in Devices : \A n \in Known(contracts[d]) :
        Steady(d) /\ contracts[d][n].host = d =>
            contracts[d][n].code # Absent /\ ~ contracts[d][n].temp

\* So can every validator that has executed a call, unless its own user tried
\* to deploy something under that name (the code is then loaded from the own
\* cache and dropped again): once called, a contract outlives its host.
BackupKept ==
    \A d \in Validators : \A n \in Names :
        Steady(d) /\ Called(n, height[d]) /\ (\A m \in sent : m.from = d => m.name # n) =>
            contracts[d][n].code # Absent /\ ~ contracts[d][n].temp

\* The blocks up to k were produced by devices that stay and have applied them,
\* and each contract is called in a later block than the one that deploys it.
Sound(k) ==
    \A i \in 1..k :
        /\ Steady(chain[i].by) /\ k <= height[chain[i].by]
        /\ \A s, t \in Range(chain[i].txs) :
            ~ (s.type = "deploy" /\ t.type = "call" /\ s.name = t.name)

\* What the contracts called in block i call in their turn is called in that
\* block by a transaction too, or is not deployed.
Closed(i) ==
    LET root == chain[i].root
    IN  \A n \in DOMAIN root : [type |-> "call", name |-> n] \in Range(chain[i].txs) =>
            \A m \in Callees[root[n][2]] \cap DOMAIN root :
                [type |-> "call", name |-> m] \in Range(chain[i].txs)

\* The deploy cache has room for every name there is.
Room == Cardinality({m.name : m \in sent}) <= CacheSize

\* A device that stays has the block that d needs, which calls can be executed
\* wherever the code of the contracts they name is.
Behind(d) ==
    /\ Room
    /\ \E e \in Devices : \E k \in height[d] + 1..height[e] :
        Sound(k) /\ (\A i \in 1..k : Closed(i)) /\ Steady(e) /\ Offset(e) <= height[d]

\* A follower gets every block that is still in memory somewhere, with the code
\* it needs, whatever else is lost, restarted or deployed twice.
BlocksArrive == \A d \in Followers : Behind(d) ~> ~ Behind(d)

\* What the message for a block that came too early promises, "sync will catch
\* up", of blocks whose calls call other contracts.  In place of BlocksArrive TLC
\* refutes it: the block is refused for its state root as often as it comes.
Missing(d) ==
    /\ Room
    /\ \E e \in Devices : \E k \in height[d] + 1..height[e] :
        Sound(k) /\ Steady(e) /\ Offset(e) <= height[d]

SyncCatchesUp == \A d \in Followers : Missing(d) ~> ~ Missing(d)
=============================================================================
