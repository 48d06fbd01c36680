------------------------------ MODULE CodeProofs ------------------------------
(***************************************************************************)
(* Proofs about CodeCache: whatever is deployed, heard, fetched, lost and  *)
(* restored, the devices agree on what each contract is, and its host and  *)
(* the validators that have called it can go on sending its code.          *)
(***************************************************************************)
EXTENDS CodeCache, Lemmas, SequenceTheorems

Tables == [Names -> Contracts \cup {Absent}]
Caches == [Names -> Entries \cup {Absent}]

LEMMA Present ==
    /\ \A t \in Tables : \A n \in Names :
          /\ n \in Known(t) <=> t[n] # Absent
          /\ n \in Known(t) <=> t[n] \in Contracts
    /\ \A e \in Caches : \A n \in Names :
          /\ n \in Known(e) <=> e[n] # Absent
          /\ n \in Known(e) <=> e[n] \in Entries
    /\ Absent \notin Codes
BY AbsentAssumption, CodeCacheAssumption DEF Tables, Caches, Known
-----------------------------------------------------------------------------
(* Fetching code *)

HasCode(entries, n) == n \in Known(entries) /\ entries[n].hasCode

\* f is the contract c after d has looked for its code.
Fetched(c, f, d, here) ==
    /\ f \in Contracts
    /\ f.host = c.host /\ f.hash = c.hash /\ f.ran = c.ran
    /\ c.code # Absent => f = c
    /\ f.code \in {c.hash, c.code}
    /\ f.temp => c.temp \/ (c.host # d /\ (here \/ d \notin Validators))

LEMMA CachedIs ==
    ASSUME NEW c \in Contracts, c.code = Absent, NEW x, NEW d \in Devices, NEW here,
           NEW temporary \in BOOLEAN,
           temporary => c.host # d /\ (here \/ d \notin Validators)
    PROVE  Fetched(c, Cached(c, x, temporary), d, here)
<1>1. CASE x = c.hash
  <2> DEFINE f == [c EXCEPT !.code = x, !.temp = temporary]
  <2>1. /\ f \in Contracts /\ f.host = c.host /\ f.hash = c.hash /\ f.ran = c.ran
        /\ f.code = c.hash /\ f.temp = temporary
    BY <1>1 DEF Contracts
  <2> HIDE DEF f
  <2>2. Fetched(c, f, d, here)
    BY <2>1 DEF Fetched
  <2> QED
    BY <1>1, <2>2 DEF Cached, f
<1>2. CASE x # c.hash
  BY <1>2 DEF Cached, Fetched, Contracts
<1> QED
  BY <1>1, <1>2

LEMMA FetchIs ==
    ASSUME contracts \in [Devices -> Tables], NEW d \in Devices, NEW entries \in Caches,
           NEW n \in Names, NEW R \in SUBSET Devices
    PROVE  /\ contracts[d][n] = Absent => Fetch(d, entries, n, R) = Absent
           /\ contracts[d][n] # Absent =>
                Fetched(contracts[d][n], Fetch(d, entries, n, R), d, HasCode(entries, n))
<1> DEFINE c == contracts[d][n]
           here == HasCode(entries, n)
           mine == IF entries[n] # Absent /\ entries[n].hasCode
                   THEN Cached(c, entries[n].hash, c.host # d) ELSE c
           got  == {x \in Offered(n, R) : Cached(c, x, Borrows(d, c)).code # Absent}
           f == Fetch(d, entries, n, R)
<1>1. f = IF c = Absent \/ c.code # Absent THEN c
          ELSE IF mine.code # Absent \/ got = {} THEN mine
          ELSE Cached(c, CHOOSE x \in got : TRUE, Borrows(d, c))
  BY DEF Fetch
<1>2. c \in Contracts \cup {Absent}
  BY DEF Tables
<1>3. Borrows(d, c) \in BOOLEAN /\ (Borrows(d, c) => c.host # d /\ d \notin Validators)
  BY DEF Borrows
<1>4. entries[n] # Absent => n \in Known(entries)
  BY DEF Known
<1> HIDE DEF c, f, got
<1>5. ASSUME c # Absent, c.code # Absent
      PROVE  Fetched(c, c, d, here)
  BY <1>2, <1>5 DEF Fetched
<1>6. ASSUME c # Absent, c.code = Absent
      PROVE  Fetched(c, mine, d, here)
  <2>1. CASE entries[n] # Absent /\ entries[n].hasCode
    <3>1. here /\ c \in Contracts
      BY <1>2, <1>4, <1>6, <2>1 DEF HasCode
    <3>2. Fetched(c, Cached(c, entries[n].hash, c.host # d), d, here)
      BY <1>6, <3>1, CachedIs
    <3> QED
      BY <2>1, <3>2
  <2>2. CASE ~ (entries[n] # Absent /\ entries[n].hasCode)
    BY <1>2, <1>6, <2>2 DEF Fetched
  <2> QED
    BY <2>1, <2>2
<1>7. ASSUME c # Absent, c.code = Absent, NEW x
      PROVE  Fetched(c, Cached(c, x, Borrows(d, c)), d, here)
  <2>1. c \in Contracts
    BY <1>2, <1>7
  <2> HIDE DEF here
  <2> QED
    BY <1>3, <1>7, <2>1, CachedIs
<1> HIDE DEF mine, here
<1> QED
  BY <1>1, <1>5, <1>6, <1>7 DEF c, f, here

\* g is the table t after that.
Refetched(t, g, d, entries) ==
    /\ g \in Tables
    /\ Known(g) = Known(t)
    /\ \A n \in Known(t) : Fetched(t[n], g[n], d, HasCode(entries, n))

LEMMA PrefetchIs ==
    ASSUME contracts \in [Devices -> Tables], NEW d \in Devices, NEW entries \in Caches,
           NEW txs, NEW R \in SUBSET Devices
    PROVE  Refetched(contracts[d], Prefetch(d, entries, txs, R), d, entries)
<1> DEFINE t == contracts[d]
           g == Prefetch(d, entries, txs, R)
<1>1. t \in Tables
  OBVIOUS
<1>2. ASSUME NEW n \in Names
      PROVE  /\ g[n] \in {t[n], Fetch(d, entries, n, R)}
             /\ g \in [Names -> {g[m] : m \in Names}]
  BY DEF Prefetch
<1>3. ASSUME NEW n \in Names
      PROVE  /\ t[n] = Absent => g[n] = Absent
             /\ t[n] # Absent => Fetched(t[n], g[n], d, HasCode(entries, n))
  <2>1. t[n] # Absent => Fetched(t[n], t[n], d, HasCode(entries, n))
    BY <1>1 DEF Tables, Fetched
  <2> QED
    BY <1>2, <2>1, FetchIs
<1>4. g \in Tables
  <2>1. DOMAIN g = Names /\ g = [n \in DOMAIN g |-> g[n]]
    BY DEF Prefetch
  <2>2. \A n \in Names : g[n] \in Contracts \cup {Absent}
    BY <1>3 DEF Fetched
  <2> HIDE DEF g
  <2> QED
    BY <2>1, <2>2 DEF Tables
<1> HIDE DEF g
<1>5. Known(g) = Known(t)
  BY <1>1, <1>3, <1>4, Present DEF Fetched, Known
<1> QED
  BY <1>3, <1>4, <1>5 DEF Refetched, g, Known
-----------------------------------------------------------------------------
(* State roots *)

Roots == UNION {[K -> Devices \X Codes \X Seq(SUBSET Names)] : K \in SUBSET Names}

LEMMA RootsAre ==
    ASSUME NEW r \in Roots
    PROVE  /\ DOMAIN r \subseteq Names
           /\ r = [n \in DOMAIN r |-> r[n]]
           /\ \A n \in DOMAIN r : r[n] = <<r[n][1], r[n][2], r[n][3]>>
<1>1. PICK K \in SUBSET Names : r \in [K -> Devices \X Codes \X Seq(SUBSET Names)]
  BY DEF Roots
<1> QED
  BY <1>1

LEMMA RootIs ==
    ASSUME NEW t \in Tables
    PROVE  /\ Root(t) \in Roots
           /\ DOMAIN Root(t) = Known(t)
           /\ \A n \in Known(t) : /\ Root(t)[n] = <<t[n].host, t[n].hash, t[n].ran>>
                                  /\ Root(t)[n][1] = t[n].host
                                  /\ Root(t)[n][2] = t[n].hash
                                  /\ Root(t)[n][3] = t[n].ran
<1>1. Known(t) \in SUBSET Names /\ \A n \in Known(t) : t[n] \in Contracts
  BY Present DEF Known
<1>2. \A n \in Known(t) :
         <<t[n].host, t[n].hash, t[n].ran>> \in Devices \X Codes \X Seq(SUBSET Names)
  BY <1>1 DEF Contracts
<1>3. Root(t) \in [Known(t) -> Devices \X Codes \X Seq(SUBSET Names)]
  BY <1>2 DEF Root
<1>4. Root(t) \in Roots
  BY <1>1, <1>3 DEF Roots
<1> QED
  BY <1>4 DEF Root

\* The code of each contract is what was deployed, or missing.
Matching(t) == \A n \in Known(t) : t[n].code \in {t[n].hash, Absent}

LEMMA RefetchedKeeps ==
    ASSUME NEW t \in Tables, NEW g, NEW d, NEW entries, Refetched(t, g, d, entries)
    PROVE  Root(g) = Root(t) /\ (Matching(t) => Matching(g))
<1>1. \A n \in Known(t) : Fetched(t[n], g[n], d, HasCode(entries, n))
  BY DEF Refetched
<1>2. \A n \in Known(t) : g[n].host = t[n].host /\ g[n].hash = t[n].hash /\ g[n].ran = t[n].ran
  BY <1>1 DEF Fetched
<1>3. Root(g) = Root(t)
  BY <1>2 DEF Root, Refetched
<1>4. Matching(t) => Matching(g)
  BY <1>1 DEF Matching, Fetched, Refetched
<1> QED
  BY <1>3, <1>4

LEMMA DiscardedIs ==
    ASSUME NEW t \in Tables
    PROVE  LET g == TempDiscarded(t)
           IN  /\ g \in Tables /\ Known(g) = Known(t) /\ Root(g) = Root(t)
               /\ Matching(t) => Matching(g)
               /\ \A n \in Known(t) : ~ g[n].temp /\ (~ t[n].temp => g[n] = t[n])
<1> DEFINE g == TempDiscarded(t)
<1>1. ASSUME NEW n \in Known(t)
      PROVE  /\ g[n] \in Contracts
             /\ g[n].host = t[n].host /\ g[n].hash = t[n].hash /\ g[n].ran = t[n].ran
             /\ g[n].code \in {t[n].code, Absent} /\ ~ g[n].temp
             /\ ~ t[n].temp => g[n] = t[n]
  <2>1. t[n] \in Contracts /\ n \in Names
    BY Present DEF Known
  <2>2. g[n] = IF t[n].temp THEN [t[n] EXCEPT !.code = Absent, !.temp = FALSE] ELSE t[n]
    BY <1>1, <2>1 DEF TempDiscarded
  <2> QED
    BY <2>1, <2>2 DEF Contracts
<1>2. \A n \in Names : n \notin Known(t) => t[n] = Absent /\ g[n] = Absent
  BY DEF TempDiscarded, Known
<1>3. g \in Tables
  <2>1. \A n \in Names : g[n] \in Contracts \cup {Absent}
    BY <1>1, <1>2
  <2>2. DOMAIN g = Names /\ g = [n \in DOMAIN g |-> g[n]]
    BY DEF TempDiscarded
  <2> HIDE DEF g
  <2> QED
    BY <2>1, <2>2 DEF Tables
<1> HIDE DEF g
<1>4. Known(g) = Known(t)
  BY <1>1, <1>2, AbsentAssumption DEF Known
<1>5. Root(g) = Root(t)
  BY <1>1, <1>4 DEF Root
<1>6. Matching(t) => Matching(g)
  BY <1>1, <1>4 DEF Matching
<1> QED
  BY <1>1, <1>3, <1>4, <1>5, <1>6 DEF g

-----------------------------------------------------------------------------
(* What runs *)

LEMMA RunningIs ==
    ASSUME NEW t, NEW n \in Runnable(t)
    PROVE  /\ Running(t, n) \subseteq Runnable(t) /\ n \in Running(t, n)
           /\ Complete(t, Running(t, n))
<1>1. ASSUME NEW k \in Running(t, n), NEW m \in Callees[t[k].code] \cap Runnable(t),
             NEW S \in SUBSET Runnable(t), n \in S, Complete(t, S)
      PROVE  m \in S
  <2>1. k \in S
    BY <1>1 DEF Running
  <2> QED
    BY <1>1, <2>1 DEF Complete
<1> QED
  BY <1>1 DEF Running, Complete

\* The contracts that run in a call of n where the state root is r, and the code
\* of the contracts L is missing.
Reach(r, L, n) ==
    {m \in DOMAIN r : \A S \in SUBSET DOMAIN r :
        n \in S /\ (\A k \in S : (Callees[r[k][2]] \cap DOMAIN r) \ L \subseteq S) => m \in S}

\* What a device runs depends on its state root and on what it lacks alone.
LEMMA ReachIs ==
    ASSUME NEW t \in Tables, Matching(t), NEW n \in Runnable(t)
    PROVE  Running(t, n) = Reach(Root(t), Lacking(t, n), n)
<1> DEFINE A == Running(t, n)
           K == Known(t)
           L == Lacking(t, n)
           r == Root(t)
<1>1. A \subseteq Runnable(t) /\ n \in A /\ Complete(t, A) /\ Runnable(t) \subseteq K
  BY RunningIs DEF Runnable
<1>2. DOMAIN r = K /\ \A k \in Runnable(t) : r[k][2] = t[k].code
  BY RootIs DEF Matching, Runnable
<1>3. /\ L \cap Runnable(t) = {}
      /\ \A k \in A : (Callees[t[k].code] \cap K) \ L \subseteq Runnable(t)
  BY DEF Lacking
<1>4. \A m \in A : \A S \in SUBSET Runnable(t) : n \in S /\ Complete(t, S) => m \in S
  BY DEF Running
<1> HIDE DEF A, K, L, r
<1>5. \A k \in A : (Callees[r[k][2]] \cap K) \ L \subseteq A
  BY <1>1, <1>2, <1>3 DEF Complete
<1>6. Reach(r, L, n) \subseteq A
  <2>1. A \in SUBSET K
    BY <1>1
  <2> QED
    BY <1>1, <1>2, <1>5, <2>1 DEF Reach
<1>7. A \subseteq Reach(r, L, n)
  <2> SUFFICES ASSUME NEW m \in A, NEW S \in SUBSET K, n \in S,
                      \A k \in S : (Callees[r[k][2]] \cap K) \ L \subseteq S
               PROVE  m \in S
    BY <1>1, <1>2 DEF Reach
  <2>1. S \cap A \in SUBSET Runnable(t) /\ n \in S \cap A
    BY <1>1
  <2>2. Complete(t, S \cap A)
    <3> SUFFICES ASSUME NEW k \in S \cap A, NEW q \in Callees[t[k].code] \cap Runnable(t)
                 PROVE  q \in S /\ q \in A
      BY DEF Complete
    <3>1. q \in A
      BY <1>1 DEF Complete
    <3>2. r[k][2] = t[k].code /\ q \in K /\ q \notin L
      BY <1>1, <1>2, <1>3
    <3> QED
      BY <3>1, <3>2
  <2> QED
    BY <1>4, <2>1, <2>2
<1> QED
  BY <1>6, <1>7 DEF A, L, r
-----------------------------------------------------------------------------
(* Executing transactions *)

DeployTx(n, c) == [type |-> "deploy", name |-> n, code |-> c]
CallTx(n) == [type |-> "call", name |-> n]

LEMMA TxsAre ==
    ASSUME NEW t \in Txs
    PROVE  /\ t.name \in Names
           /\ \/ t.type = "deploy" /\ t.code \in Codes /\ t = DeployTx(t.name, t.code)
              \/ t.type = "call" /\ t = CallTx(t.name)
           /\ \A n, c : t = DeployTx(n, c) => t.type = "deploy" /\ n = t.name /\ c = t.code
           /\ \A n : t = CallTx(n) => t.type = "call" /\ n = t.name
BY DEF Txs, DeployTx, CallTx

\* The root after the transaction t of by, whose nested calls lack the code of L.
RootStep(r, t, L, by) ==
    IF t.type = "deploy"
    THEN [n \in DOMAIN r \cup {t.name} |-> IF n = t.name THEN <<by, t.code, <<>> >> ELSE r[n]]
    ELSE [n \in DOMAIN r |->
            IF n = t.name THEN <<r[n][1], r[n][2], Append(r[n][3], Reach(r, L, n))>> ELSE r[n]]

\* rs are the roots from r to s between the first k of txs.
Path(rs, r, s, k, txs, lacks, by) ==
    /\ rs \in [0..k -> Roots] /\ rs[0] = r /\ rs[k] = s
    /\ \A i \in 1..k : rs[i] = RootStep(rs[i - 1], txs[i], lacks[i], by)

\* They lead to one root only.
LEMMA PathOnce ==
    ASSUME NEW k \in Nat, NEW r, NEW s, NEW u, NEW txs, NEW lacks, NEW by, NEW rs, NEW us,
           Path(rs, r, s, k, txs, lacks, by), Path(us, r, u, k, txs, lacks, by)
    PROVE  s = u
<1> DEFINE f == [i \in 0..k |-> <<rs[i], us[i]>>]
           D == {<<v, v>> : v \in Roots}
<1>1. f[0] \in D
  <2>1. rs[0] = us[0] /\ rs[0] \in Roots /\ 0 \in 0..k
    BY DEF Path
  <2> QED
    BY <2>1
<1>2. \A i \in 1..k : f[i - 1] \in D => f[i] \in D
  <2> SUFFICES ASSUME NEW i \in 1..k, f[i - 1] \in D
               PROVE  f[i] \in D
    OBVIOUS
  <2>1. i - 1 \in 0..k /\ i \in 0..k
    OBVIOUS
  <2>2. rs[i - 1] = us[i - 1]
    BY <2>1
  <2>3. rs[i] = us[i] /\ rs[i] \in Roots
    BY <2>1, <2>2 DEF Path
  <2> QED
    BY <2>1, <2>3
<1> HIDE DEF f, D
<1>3. \A i \in 0..k : f[i] \in D
  BY <1>1, <1>2, LoopStays
<1>4. f[k] \in D
  BY <1>3
<1>5. rs[k] = us[k]
  BY <1>4 DEF f, D
<1> QED
  BY <1>5 DEF Path

\* f is the contract c, which may have run.
Ran(c, f) ==
    /\ f \in Contracts
    /\ f.host = c.host /\ f.hash = c.hash /\ f.code = c.code /\ f.temp = c.temp

LEMMA DeployIs ==
    ASSUME NEW t \in Tables, Matching(t), NEW entries \in Caches, NEW x \in Txs,
           NEW by \in Devices, Succeeds(t, entries, x), x.type = "deploy"
    PROVE  LET n == x.name
               u == ExecuteTx(t, entries, x, by)
           IN  /\ u \in Tables /\ Matching(u)
               /\ n \in Known(entries) /\ n \notin Known(t) /\ Known(u) = Known(t) \cup {n}
               /\ \A m \in Known(t) : u[m] = t[m]
               /\ u[n] \in Contracts /\ u[n].host = by /\ u[n].hash = x.code /\ ~ u[n].temp
               /\ u[n].code = IF HasCode(entries, n) THEN x.code ELSE Absent
               /\ Root(u) = RootStep(Root(t), x, Missed(t, x), by)
<1> DEFINE n == x.name
           c == Deployed(entries, x, by)
           u == ExecuteTx(t, entries, x, by)
<1>1. n \in Names /\ x.code \in Codes
  BY TxsAre
<1>2. /\ n \in Known(entries) /\ entries[n] \in Entries /\ entries[n].hash = x.code
      /\ n \notin Known(t)
  BY <1>1, Present DEF Succeeds, Deployable
<1>3. /\ c \in Contracts /\ c.host = by /\ ~ c.temp /\ c.hash = x.code /\ c.ran = <<>>
      /\ c.code = IF HasCode(entries, n) THEN x.code ELSE Absent
  BY <1>1, <1>2 DEF Deployed, Contracts, Entries, HasCode
<1> HIDE DEF c
<1>4. u \in Tables /\ u[n] = c /\ \A m \in Names \ {n} : u[m] = t[m]
  BY <1>1, <1>3 DEF ExecuteTx, Tables, c
<1>5. Root(u) \in Roots /\ DOMAIN Root(u) = Known(u)
      /\ \A m \in Known(u) : Root(u)[m] = <<u[m].host, u[m].hash, u[m].ran>>
  BY <1>4, RootIs
<1> HIDE DEF u
<1>6. Known(u) = Known(t) \cup {n}
  BY <1>1, <1>3, <1>4, AbsentAssumption DEF Known
<1>7. \A m \in Known(t) : u[m] = t[m] /\ m # n
  BY <1>2, <1>4 DEF Known
<1>8. Matching(u)
  BY <1>3, <1>4, <1>6, <1>7 DEF Matching
<1>9. Root(u) = RootStep(Root(t), x, Missed(t, x), by)
  <2> DEFINE v == RootStep(Root(t), x, Missed(t, x), by)
  <2>1. DOMAIN Root(t) = Known(t)
        /\ \A m \in Known(t) : Root(t)[m] = <<t[m].host, t[m].hash, t[m].ran>>
    BY RootIs
  <2>2. v = [m \in Known(t) \cup {n} |-> IF m = n THEN <<by, x.code, <<>> >> ELSE Root(t)[m]]
    BY <2>1 DEF RootStep
  <2>3. \A m \in Known(u) : Root(u)[m] = IF m = n THEN <<by, x.code, <<>> >> ELSE Root(t)[m]
    BY <1>3, <1>4, <1>5, <1>6, <1>7, <2>1
  <2>4. Root(u) = [m \in Known(u) |-> Root(u)[m]]
    BY <1>5, RootsAre
  <2> QED
    BY <1>6, <2>2, <2>3, <2>4
<1> QED
  BY <1>2, <1>3, <1>4, <1>6, <1>7, <1>8, <1>9 DEF u

LEMMA CallIs ==
    ASSUME NEW t \in Tables, Matching(t), NEW entries \in Caches, NEW x \in Txs,
           NEW by \in Devices, Succeeds(t, entries, x), x.type = "call"
    PROVE  LET u == ExecuteTx(t, entries, x, by)
           IN  /\ u \in Tables /\ Matching(u) /\ Known(u) = Known(t)
               /\ \A m \in Known(t) : Ran(t[m], u[m])
               /\ x.name \in Known(t) /\ t[x.name].code # Absent
               /\ Root(u) = RootStep(Root(t), x, Missed(t, x), by)
<1> DEFINE n == x.name
           S == Running(t, n)
           u == ExecuteTx(t, entries, x, by)
<1>1. n \in Names /\ n \in Known(t) /\ t[n].code # Absent /\ n \in Runnable(t)
  BY TxsAre DEF Succeeds, Callable, Known, Runnable
<1>2. S = Reach(Root(t), Missed(t, x), n) /\ S \in SUBSET Names
  BY <1>1, ReachIs DEF Missed, Running, Runnable, Known
<1>3. u = [t EXCEPT ![n].ran = Append(@, S)]
  BY DEF ExecuteTx
<1> HIDE DEF S
<1>4. \A m \in Known(t) : t[m] \in Contracts /\ m \in Names
  BY Present DEF Known
<1> DEFINE c == [t[n] EXCEPT !.ran = Append(@, S)]
<1>5. Ran(t[n], c) /\ c.ran = Append(t[n].ran, S)
  <2>1. t[n] \in Contracts /\ t[n].ran \in Seq(SUBSET Names)
    BY <1>1, <1>4 DEF Contracts
  <2>2. Append(t[n].ran, S) \in Seq(SUBSET Names)
    BY <1>2, <2>1, AppendProperties
  <2> QED
    BY <2>1, <2>2 DEF Ran, Contracts
<1>6. u = [t EXCEPT ![n] = c]
  BY <1>3
<1> HIDE DEF u, c
<1>7. u \in Tables /\ u[n] = c /\ \A m \in Names \ {n} : u[m] = t[m]
  BY <1>1, <1>5, <1>6 DEF Tables, Ran
<1>8. Known(u) = Known(t)
  BY <1>1, <1>5, <1>7, AbsentAssumption DEF Known, Ran
<1>9. \A m \in Known(t) : Ran(t[m], u[m]) /\ (m # n => u[m] = t[m])
  BY <1>4, <1>5, <1>7 DEF Ran
<1>10. Matching(u)
  BY <1>8, <1>9 DEF Matching, Ran
<1>11. Root(u) = RootStep(Root(t), x, Missed(t, x), by)
  <2> DEFINE v == RootStep(Root(t), x, Missed(t, x), by)
  <2>1. /\ DOMAIN Root(t) = Known(t)
        /\ \A m \in Known(t) : /\ Root(t)[m] = <<t[m].host, t[m].hash, t[m].ran>>
                               /\ Root(t)[m][1] = t[m].host /\ Root(t)[m][2] = t[m].hash
                               /\ Root(t)[m][3] = t[m].ran
    BY RootIs
  <2>2. v = [m \in Known(t) |->
                IF m = n THEN <<Root(t)[m][1], Root(t)[m][2],
                                Append(Root(t)[m][3], Reach(Root(t), Missed(t, x), m))>>
                ELSE Root(t)[m]]
    BY <2>1 DEF RootStep
  <2>3. Root(u) = [m \in Known(t) |-> <<u[m].host, u[m].hash, u[m].ran>>]
    BY <1>8 DEF Root
  <2> HIDE DEF v
  <2>4. ASSUME NEW m \in Known(t)
        PROVE  <<u[m].host, u[m].hash, u[m].ran>>
                = IF m = n THEN <<Root(t)[m][1], Root(t)[m][2],
                                  Append(Root(t)[m][3], Reach(Root(t), Missed(t, x), m))>>
                  ELSE Root(t)[m]
    <3>1. CASE m = n
      <4>1. /\ u[n].host = t[n].host /\ u[n].hash = t[n].hash
            /\ u[n].ran = Append(t[n].ran, Reach(Root(t), Missed(t, x), n))
        BY <1>2, <1>5, <1>7 DEF Ran
      <4> QED
        BY <1>1, <2>1, <3>1, <4>1
    <3>2. CASE m # n
      BY <1>9, <2>1, <3>2
    <3> QED
      BY <3>1, <3>2
  <2> QED
    BY <2>2, <2>3, <2>4 DEF v
<1> QED
  BY <1>1, <1>7, <1>8, <1>9, <1>10, <1>11 DEF u

\* c is the contract that by has deployed with the first k of txs, as n.
NewContract(c, n, entries, txs, k, by) ==
    /\ c \in Contracts
    /\ c.host = by /\ ~ c.temp
    /\ c.code = IF HasCode(entries, n) THEN c.hash ELSE Absent
    /\ n \in Known(entries)
    /\ \E j \in 1..k : txs[j] = DeployTx(n, c.hash)

\* a is what executing the first k of txs, of sender by, makes of the table t,
\* and lacks what their nested calls lacked.
Executed(t, a, k, lacks, entries, txs, by) ==
    /\ a \in Tables /\ k \in 0..Len(txs) /\ Matching(a)
    /\ Known(t) \subseteq Known(a)
    /\ \A n \in Known(t) : Ran(t[n], a[n])
    /\ \A n \in Known(a) \ Known(t) : NewContract(a[n], n, entries, txs, k, by)
    /\ \A j \in 1..k : \A n, c :
        txs[j] = DeployTx(n, c) => n \in Known(a) \ Known(t) /\ a[n].hash = c
    /\ \A j \in 1..k : \A n : txs[j] = CallTx(n) => n \in Known(a) /\ a[n].code # Absent
    /\ lacks \in Seq(SUBSET Names) /\ Len(lacks) = k
    /\ \E rs : Path(rs, Root(t), Root(a), k, txs, lacks, by)

LEMMA ExecutedFirst ==
    ASSUME NEW t \in Tables, Matching(t), NEW entries, NEW txs \in Seq(Txs), NEW by
    PROVE  Executed(t, t, 0, <<>>, entries, txs, by)
<1>1. Len(txs) \in Nat /\ 1..0 = {} /\ 0 \in 0..Len(txs)
  BY LenProperties
<1>2. \A n \in Known(t) : Ran(t[n], t[n])
  BY Present DEF Known, Ran
<1>3. <<>> \in Seq(SUBSET Names) /\ Len(<<>>) = 0
  OBVIOUS
<1>4. \E rs : Path(rs, Root(t), Root(t), 0, txs, <<>>, by)
  <2> DEFINE rs == [i \in 0..0 |-> Root(t)]
  <2>1. rs \in [0..0 -> Roots] /\ rs[0] = Root(t)
    BY RootIs
  <2>2. Path(rs, Root(t), Root(t), 0, txs, <<>>, by)
    BY <1>1, <2>1 DEF Path
  <2> QED
    BY <2>2
<1> QED
  BY <1>1, <1>2, <1>3, <1>4 DEF Executed

\* One transaction more on the path.
LEMMA PathNext ==
    ASSUME NEW k \in Nat, NEW r, NEW s, NEW txs, NEW lacks \in Seq(SUBSET Names), NEW by, NEW rs,
           Len(lacks) = k, Path(rs, r, s, k, txs, lacks, by),
           NEW L \in SUBSET Names, NEW u \in Roots, u = RootStep(s, txs[k + 1], L, by)
    PROVE  \E us : Path(us, r, u, k + 1, txs, Append(lacks, L), by)
<1> DEFINE us == [i \in 0..k + 1 |-> IF i = k + 1 THEN u ELSE rs[i]]
           ls == Append(lacks, L)
<1>1. /\ rs \in [0..k -> Roots] /\ rs[0] = r /\ rs[k] = s
      /\ \A i \in 1..k : rs[i] = RootStep(rs[i - 1], txs[i], lacks[i], by)
  BY DEF Path
<1>2. us \in [0..k + 1 -> Roots]
  <2>1. \A i \in 0..k + 1 : i = k + 1 \/ i \in 0..k
    OBVIOUS
  <2> QED
    BY <1>1, <2>1
<1>3. us[k + 1] = u /\ \A i \in 0..k : us[i] = rs[i]
  OBVIOUS
<1>4. ls[k + 1] = L /\ \A i \in 1..k : ls[i] = lacks[i]
  OBVIOUS
<1> HIDE DEF us, ls
<1>5. us[0] = r
  BY <1>1, <1>3
<1>6. \A i \in 1..k + 1 : us[i] = RootStep(us[i - 1], txs[i], ls[i], by)
  <2> TAKE i \in 1..k + 1
  <2>1. CASE i = k + 1
    <3>1. us[i - 1] = s
      BY <1>1, <1>3, <2>1
    <3> QED
      BY <1>3, <1>4, <2>1, <3>1
  <2>2. CASE i \in 1..k
    <3>1. i - 1 \in 0..k /\ i \in 0..k
      BY <2>2
    <3>2. us[i] = rs[i] /\ us[i - 1] = rs[i - 1] /\ ls[i] = lacks[i]
      BY <1>3, <1>4, <2>2, <3>1
    <3> QED
      BY <1>1, <2>2, <3>2
  <2> QED
    BY <2>1, <2>2
<1>7. Path(us, r, u, k + 1, txs, ls, by)
  BY <1>2, <1>3, <1>5, <1>6 DEF Path
<1> QED
  BY <1>7 DEF ls

LEMMA ExecutedNext ==
    ASSUME NEW t \in Tables, NEW entries \in Caches, NEW txs \in Seq(Txs), NEW by \in Devices,
           NEW a, NEW k, NEW lacks, Executed(t, a, k, lacks, entries, txs, by),
           NEW i \in 1..Len(txs), k = i - 1, Succeeds(a, entries, txs[i])
    PROVE  Executed(t, ExecuteTx(a, entries, txs[i], by), i, Append(lacks, Missed(a, txs[i])),
                    entries, txs, by)
<1> DEFINE x == txs[i]
           n == x.name
           b == ExecuteTx(a, entries, x, by)
           L == Missed(a, x)
<1>1. /\ x \in Txs /\ n \in Names /\ Len(txs) \in Nat /\ i \in Nat /\ k \in Nat /\ i = k + 1
      /\ 1..i = 1..k \cup {i}
  BY ElementOfSeq, LenProperties, TxsAre DEF Executed
<1>2. /\ a \in Tables /\ Matching(a) /\ Known(t) \subseteq Known(a)
      /\ \A m \in Known(t) : Ran(t[m], a[m])
      /\ \A m \in Known(a) \ Known(t) : NewContract(a[m], m, entries, txs, k, by)
      /\ \A j \in 1..k : \A m, c :
            txs[j] = DeployTx(m, c) => m \in Known(a) \ Known(t) /\ a[m].hash = c
      /\ \A j \in 1..k : \A m :
            txs[j] = CallTx(m) => m \in Known(a) /\ a[m].code # Absent
      /\ lacks \in Seq(SUBSET Names) /\ Len(lacks) = k
  BY DEF Executed
<1>3. L \in SUBSET Names
  BY DEF Missed, Lacking, Known
<1>4. ASSUME b \in Tables, Root(b) = RootStep(Root(a), x, L, by)
      PROVE  /\ Append(lacks, L) \in Seq(SUBSET Names) /\ Len(Append(lacks, L)) = i
             /\ \E us : Path(us, Root(t), Root(b), i, txs, Append(lacks, L), by)
  <2>1. PICK rs : Path(rs, Root(t), Root(a), k, txs, lacks, by)
    BY DEF Executed
  <2>2. Root(b) \in Roots
    BY <1>4, RootIs
  <2> HIDE DEF b, L
  <2>3. Root(b) = RootStep(Root(a), txs[k + 1], L, by)
    BY <1>1, <1>4
  <2>4. \E us : Path(us, Root(t), Root(b), k + 1, txs, Append(lacks, L), by)
    BY <1>1, <1>2, <1>3, <2>1, <2>2, <2>3, PathNext
  <2>5. Append(lacks, L) \in Seq(SUBSET Names) /\ Len(Append(lacks, L)) = k + 1
    BY <1>2, <1>3, AppendProperties
  <2> QED
    BY <1>1, <2>4, <2>5
<1>5. CASE x.type = "deploy"
  <2>1. /\ b \in Tables /\ Matching(b)
        /\ n \in Known(entries) /\ n \notin Known(a) /\ Known(b) = Known(a) \cup {n}
        /\ \A m \in Known(a) : b[m] = a[m]
        /\ b[n] \in Contracts /\ b[n].host = by /\ b[n].hash = x.code /\ ~ b[n].temp
        /\ b[n].code = IF HasCode(entries, n) THEN x.code ELSE Absent
        /\ Root(b) = RootStep(Root(a), x, L, by)
    BY <1>1, <1>2, <1>5, DeployIs
  <2>2. /\ Append(lacks, L) \in Seq(SUBSET Names) /\ Len(Append(lacks, L)) = i
        /\ \E us : Path(us, Root(t), Root(b), i, txs, Append(lacks, L), by)
    BY <1>4, <2>1
  <2>3. /\ x = DeployTx(n, x.code) /\ (\A m : x # CallTx(m))
        /\ \A m, d : x = DeployTx(m, d) => m = n /\ d = x.code
    BY <1>1, <1>5, TxsAre
  <2> HIDE DEF x, b, n, L
  <2>4. NewContract(b[n], n, entries, txs, i, by)
    <3>1. \E j \in 1..i : txs[j] = DeployTx(n, b[n].hash)
      BY <1>1, <2>1, <2>3 DEF x
    <3> QED
      BY <2>1, <3>1 DEF NewContract
  <2>5. Known(t) \subseteq Known(b) /\ \A m \in Known(t) : Ran(t[m], b[m])
    BY <1>2, <2>1
  <2>6. \A m \in Known(b) \ Known(t) : NewContract(b[m], m, entries, txs, i, by)
    <3> TAKE m \in Known(b) \ Known(t)
    <3>1. CASE m = n
      BY <2>4, <3>1
    <3>2. CASE m \in Known(a)
      <4>1. NewContract(a[m], m, entries, txs, k, by) /\ b[m] = a[m]
        BY <1>2, <2>1, <3>2
      <4> QED
        BY <1>1, <4>1 DEF NewContract
    <3> QED
      BY <2>1, <3>1, <3>2
  <2>7. \A j \in 1..i : \A m, d :
            txs[j] = DeployTx(m, d) => m \in Known(b) \ Known(t) /\ b[m].hash = d
    <3> TAKE j \in 1..i
    <3>1. CASE j = i
      <4>1. txs[j] = x
        BY <3>1 DEF x
      <4>2. n \in Known(b) \ Known(t) /\ b[n].hash = x.code
        BY <1>2, <2>1
      <4> QED
        BY <2>3, <4>1, <4>2
    <3>2. CASE j \in 1..k
      BY <1>2, <2>1, <3>2
    <3> QED
      BY <1>1, <3>1, <3>2
  <2>8. \A j \in 1..i : \A m : txs[j] = CallTx(m) => m \in Known(b) /\ b[m].code # Absent
    <3> TAKE j \in 1..i
    <3>1. CASE j = i
      BY <2>3, <3>1 DEF x
    <3>2. CASE j \in 1..k
      BY <1>2, <2>1, <3>2
    <3> QED
      BY <1>1, <3>1, <3>2
  <2>9. i \in 0..Len(txs)
    BY <1>1
  <2> QED
    BY <2>1, <2>2, <2>5, <2>6, <2>7, <2>8, <2>9 DEF Executed, b, x, L
<1>6. CASE x.type = "call"
  <2>1. /\ b \in Tables /\ Matching(b) /\ Known(b) = Known(a)
        /\ \A m \in Known(a) : Ran(a[m], b[m])
        /\ n \in Known(a) /\ a[n].code # Absent
        /\ Root(b) = RootStep(Root(a), x, L, by)
    BY <1>1, <1>2, <1>6, CallIs
  <2>2. /\ Append(lacks, L) \in Seq(SUBSET Names) /\ Len(Append(lacks, L)) = i
        /\ \E us : Path(us, Root(t), Root(b), i, txs, Append(lacks, L), by)
    BY <1>4, <2>1
  <2>3. x = CallTx(n) /\ (\A m : x = CallTx(m) => m = n) /\ \A m, d : x # DeployTx(m, d)
    BY <1>1, <1>6, TxsAre
  <2> HIDE DEF x, b, n, L
  <2>4. Known(t) \subseteq Known(b) /\ \A m \in Known(t) : Ran(t[m], b[m])
    BY <1>2, <2>1 DEF Ran
  <2>5. \A m \in Known(b) \ Known(t) : NewContract(b[m], m, entries, txs, i, by)
    <3> TAKE m \in Known(b) \ Known(t)
    <3>1. NewContract(a[m], m, entries, txs, k, by) /\ Ran(a[m], b[m])
      BY <1>2, <2>1
    <3> QED
      BY <1>1, <3>1 DEF NewContract, Ran
  <2>6. \A j \in 1..i : \A m, d :
            txs[j] = DeployTx(m, d) => m \in Known(b) \ Known(t) /\ b[m].hash = d
    <3> TAKE j \in 1..i
    <3>1. CASE j = i
      BY <2>3, <3>1 DEF x
    <3>2. CASE j \in 1..k
      BY <1>2, <2>1, <3>2 DEF Ran
    <3> QED
      BY <1>1, <3>1, <3>2
  <2>7. \A j \in 1..i : \A m : txs[j] = CallTx(m) => m \in Known(b) /\ b[m].code # Absent
    <3> TAKE j \in 1..i
    <3>1. CASE j = i
      BY <2>1, <2>3, <3>1 DEF x, Ran
    <3>2. CASE j \in 1..k
      BY <1>2, <2>1, <3>2 DEF Ran
    <3> QED
      BY <1>1, <3>1, <3>2
  <2>8. i \in 0..Len(txs)
    BY <1>1
  <2> QED
    BY <2>1, <2>2, <2>4, <2>5, <2>6, <2>7, <2>8 DEF Executed, b, x, L
<1> QED
  BY <1>1, <1>5, <1>6, TxsAre

LEMMA ExecuteIs ==
    ASSUME NEW t \in Tables, Matching(t), NEW entries \in Caches, NEW txs \in Seq(Txs),
           NEW by \in Devices
    PROVE  LET r == Execute(t, entries, txs, by)
           IN  Executed(t, r.table, r.done, r.lacks, entries, txs, by)
<1> DEFINE n == Len(txs)
           first == [table |-> t, done |-> 0, lacks |-> <<>>]
           D == {r \in [table : Tables, done : 0..n, lacks : Seq(SUBSET Names)] :
                    Executed(t, r.table, r.done, r.lacks, entries, txs, by)}
           Turn(r, i) == IF r.done = i - 1 /\ Succeeds(r.table, entries, txs[i])
                         THEN [table |-> ExecuteTx(r.table, entries, txs[i], by), done |-> i,
                               lacks |-> Append(r.lacks, Missed(r.table, txs[i]))]
                         ELSE r
           step == [e \in D \X (1..n) |-> Turn(e[1], e[2])]
           Ones == {{r} : r \in D}
           Is(f) == f = [i \in 0..n |-> IF i = 0 THEN {first} ELSE {Turn(r, i) : r \in f[i - 1]}]
<1>1. n \in Nat
  BY LenProperties
<1>2. first \in D
  <2>1. /\ first.table = t /\ first.done = 0 /\ first.lacks = <<>>
        /\ first \in [table : Tables, done : 0..n, lacks : Seq(SUBSET Names)]
    BY <1>1
  <2> HIDE DEF first
  <2> QED
    BY <2>1, ExecutedFirst
<1>3. ASSUME NEW r \in D, NEW i \in 1..n
      PROVE  Turn(r, i) \in D
  <2>1. CASE r.done = i - 1 /\ Succeeds(r.table, entries, txs[i])
    <3> DEFINE b == ExecuteTx(r.table, entries, txs[i], by)
               ls == Append(r.lacks, Missed(r.table, txs[i]))
    <3>1. Executed(t, b, i, ls, entries, txs, by)
      BY <2>1, ExecutedNext
    <3> HIDE DEF b, ls
    <3>2. [table |-> b, done |-> i, lacks |-> ls] \in D
      BY <3>1 DEF Executed
    <3> QED
      BY <2>1, <3>2 DEF b, ls
  <2>2. CASE ~ (r.done = i - 1 /\ Succeeds(r.table, entries, txs[i]))
    BY <2>2
  <2> QED
    BY <2>1, <2>2
<1> HIDE DEF first, Turn, D
<1>4. step \in [D \X (1..n) -> D]
  BY <1>3
<1>5. PICK g \in [0..n -> D] : Iterates(g, first, step, n)
  <2> HIDE DEF step, n
  <2> QED
    BY <1>1, <1>2, <1>4, Recursion
<1>6. Is([i \in 0..n |-> {g[i]}])
  <2> DEFINE h == [i \in 0..n |-> {g[i]}]
  <2>1. g[0] = first
    BY <1>5 DEF Iterates
  <2>2. ASSUME NEW i \in 1..n
        PROVE  {g[i]} = {Turn(r, i) : r \in h[i - 1]}
    <3>1. g[i - 1] \in D /\ i - 1 \in 0..n
      BY <1>1, <1>5
    <3>2. g[i] = Turn(g[i - 1], i)
      BY <1>5, <3>1 DEF Iterates
    <3>3. h[i - 1] = {g[i - 1]}
      BY <3>1
    <3> HIDE DEF h
    <3> QED
      BY <3>2, <3>3
  <2>3. \A i \in 0..n : {g[i]} = IF i = 0 THEN {first} ELSE {Turn(r, i) : r \in h[i - 1]}
    <3> TAKE i \in 0..n
    <3>1. i = 0 \/ (i # 0 /\ i \in 1..n)
      BY <1>1
    <3> HIDE DEF h
    <3> QED
      BY <2>1, <2>2, <3>1
  <2> QED
    BY <2>3
<1> DEFINE q == CHOOSE f : Is(f)
<1>7. Is(q) /\ Execute(t, entries, txs, by) = CHOOSE r \in q[n] : TRUE
  <2>1. Is(q)
    BY <1>6
  <2>2. Execute(t, entries, txs, by) = CHOOSE r \in q[n] : TRUE
    BY DEF Execute, first, Turn
  <2> QED
    BY <2>1, <2>2
<1> HIDE DEF q
<1>8. q[0] = {first} /\ \A i \in 1..n : q[i] = {Turn(r, i) : r \in q[i - 1]}
  <2>1. \A i \in 0..n : q[i] = IF i = 0 THEN {first} ELSE {Turn(r, i) : r \in q[i - 1]}
    BY <1>7
  <2>2. 0 \in 0..n /\ \A i \in 1..n : i \in 0..n /\ i # 0
    BY <1>1
  <2> QED
    BY <2>1, <2>2
<1>9. \A i \in 0..n : q[i] \in Ones
  <2>1. q[0] \in Ones
    BY <1>2, <1>8
  <2>2. ASSUME NEW i \in 1..n, q[i - 1] \in Ones
        PROVE  q[i] \in Ones
    <3>1. PICK r \in D : q[i - 1] = {r}
      BY <2>2
    <3>2. q[i] = {Turn(r, i)} /\ Turn(r, i) \in D
      BY <1>3, <1>8, <3>1
    <3> QED
      BY <3>2
  <2> HIDE DEF Ones, n
  <2> QED
    BY <1>1, <2>1, <2>2, LoopStays
<1>10. PICK r \in D : q[n] = {r}
  BY <1>1, <1>9
<1>11. Execute(t, entries, txs, by) = r
  BY <1>7, <1>10
<1> QED
  BY <1>10, <1>11 DEF D
-----------------------------------------------------------------------------
(* The deploy cache *)

CacheOK(e) ==
    /\ e \in Caches
    /\ IsFiniteSet(Known(e))
    /\ Cardinality(Known(e)) <= CacheSize

\* Either there is code for n, or none can get in any more.
Backed(e, n) == IF n \in Known(e) THEN e[n].hasCode ELSE Cardinality(Known(e)) >= CacheSize

\* What metadata alone makes of the cache e.
Later(e, f) ==
    /\ CacheOK(f)
    /\ \A n : HasCode(f, n) <=> HasCode(e, n)
    /\ \A n \in Names : Backed(e, n) => Backed(f, n)

\* f is the cache e with another entry x for n.
Stored(e, f, n, x) ==
    /\ CacheOK(f) /\ f[n] = x /\ n \in Known(f)
    /\ \A m \in Names \ {n} : /\ f[m] = e[m]
                              /\ m \in Known(f) <=> m \in Known(e)
                              /\ Backed(e, m) => Backed(f, m)

LEMMA StoredIs ==
    ASSUME NEW e, CacheOK(e), NEW n \in Names, NEW x \in Entries, HasPlace(e, n)
    PROVE  Stored(e, [e EXCEPT ![n] = x], n, x)
<1> DEFINE f == [e EXCEPT ![n] = x]
<1>1. f \in Caches /\ f[n] = x /\ \A m \in Names \ {n} : f[m] = e[m]
  BY DEF CacheOK, Caches
<1>2. Known(f) = Known(e) \cup {n}
  BY <1>1, AbsentAssumption DEF Known
<1>3. /\ IsFiniteSet(Known(e)) /\ Cardinality(Known(e)) \in Nat /\ CacheSize \in Nat
      /\ IsFiniteSet(Known(f)) /\ Cardinality(Known(f)) \in Nat
      /\ Cardinality(Known(f))
            = IF n \in Known(e) THEN Cardinality(Known(e)) ELSE Cardinality(Known(e)) + 1
  <2>1. IsFiniteSet(Known(e)) /\ CacheSize \in Nat
    BY CodeCacheAssumption DEF CacheOK
  <2>2. IsFiniteSet(Known(f))
    BY <1>2, <2>1, FS_AddElement
  <2>3. Cardinality(Known(e)) \in Nat /\ Cardinality(Known(f)) \in Nat
    BY <2>1, <2>2, FS_CardinalityType
  <2>4. n \in Known(e) => Known(f) = Known(e)
    BY <1>2
  <2>5. n \notin Known(e) => Cardinality(Known(f)) = Cardinality(Known(e)) + 1
    BY <1>2, <2>1, FS_AddElement
  <2> QED
    BY <2>1, <2>2, <2>3, <2>4, <2>5
<1> HIDE DEF f
<1>4. Cardinality(Known(f)) <= CacheSize
  BY <1>3 DEF HasPlace, CacheOK
<1>5. \A m \in Names \ {n} : Backed(e, m) => Backed(f, m)
  <2> TAKE m \in Names \ {n}
  <2>1. CASE m \in Known(e)
    BY <1>1, <1>2, <2>1 DEF Backed
  <2>2. CASE m \notin Known(e)
    <3>1. m \notin Known(f)
      BY <1>2, <2>2
    <3>2. Cardinality(Known(e)) >= CacheSize => Cardinality(Known(f)) >= CacheSize
      BY <1>3
    <3> QED
      BY <2>2, <3>1, <3>2 DEF Backed
  <2> QED
    BY <2>1, <2>2
<1> QED
  BY <1>1, <1>2, <1>3, <1>4, <1>5 DEF CacheOK, Stored, f

LEMMA StoreIs ==
    ASSUME NEW e, CacheOK(e), NEW n \in Names, NEW c \in Codes
    PROVE  LET f == Store(e, n, c)
           IN  /\ CacheOK(f)
               /\ Backed(f, n)
               /\ \A m \in Names \ {n} : HasCode(f, m) <=> HasCode(e, m)
               /\ \A m \in Names : Backed(e, m) => Backed(f, m)
<1> DEFINE x == [hash |-> c, hasCode |-> TRUE]
           f == Store(e, n, c)
<1>1. CASE HasPlace(e, n)
  <2>1. f = [e EXCEPT ![n] = x] /\ x \in Entries /\ x.hasCode
    BY <1>1 DEF Store, Entries
  <2> HIDE DEF f, x
  <2>2. Stored(e, f, n, x)
    BY <1>1, <2>1, StoredIs
  <2>3. Backed(f, n)
    BY <2>1, <2>2 DEF Backed, Stored
  <2> QED
    BY <2>2, <2>3 DEF HasCode, Stored, f
<1>2. CASE ~ HasPlace(e, n)
  <2>1. IsFiniteSet(Known(e)) /\ Cardinality(Known(e)) \in Nat /\ CacheSize \in Nat
    BY CodeCacheAssumption, FS_CardinalityType DEF CacheOK
  <2>2. Backed(e, n)
    BY <1>2, <2>1 DEF HasPlace, Backed
  <2> QED
    BY <1>2, <2>2 DEF Store
<1> QED
  BY <1>1, <1>2

LEMMA StoreMetaIs ==
    ASSUME NEW e, CacheOK(e), NEW n \in Names, NEW c \in Codes
    PROVE  Later(e, StoreMeta(e, n, c))
<1> DEFINE x == [hash |-> c, hasCode |-> FALSE]
           f == StoreMeta(e, n, c)
<1>1. CASE HasPlace(e, n) /\ ~ HasCode(e, n)
  <2>1. f = [e EXCEPT ![n] = x] /\ x \in Entries /\ ~ x.hasCode
    BY <1>1 DEF StoreMeta, Entries, HasCode
  <2> HIDE DEF f, x
  <2>2. Stored(e, f, n, x)
    BY <1>1, <2>1, StoredIs
  <2>3. ~ HasCode(f, n)
    BY <2>1, <2>2 DEF HasCode, Stored
  <2>4. ~ Backed(e, n)
    <3>1. IsFiniteSet(Known(e)) /\ Cardinality(Known(e)) \in Nat /\ CacheSize \in Nat
      BY CodeCacheAssumption, FS_CardinalityType DEF CacheOK
    <3> QED
      BY <1>1, <3>1 DEF HasPlace, HasCode, Backed
  <2>5. \A m : HasCode(f, m) <=> HasCode(e, m)
    <3> TAKE m
    <3>1. CASE m \in Names \ {n}
      BY <2>2, <3>1 DEF HasCode, Stored
    <3>2. CASE m \notin Names \ {n}
      BY <1>1, <2>3, <3>2 DEF HasCode, Known
    <3> QED
      BY <3>1, <3>2
  <2> QED
    BY <2>2, <2>4, <2>5 DEF Later, Stored, f
<1>2. CASE ~ (HasPlace(e, n) /\ ~ HasCode(e, n))
  BY <1>2 DEF StoreMeta, HasCode, Later
<1> QED
  BY <1>1, <1>2

LEMMA LaterStill ==
    ASSUME NEW e, NEW f, NEW g, Later(e, f), Later(f, g)
    PROVE  Later(e, g)
BY DEF Later

LEMMA StoreDeploysIs ==
    ASSUME NEW e, CacheOK(e), NEW txs \in Seq(Txs)
    PROVE  Later(e, StoreDeploys(e, txs))
<1> DEFINE n == Len(txs)
           D == {f \in Caches : Later(e, f)}
           Turn(f, i) == IF txs[i].type = "call" THEN f
                         ELSE StoreMeta(f, txs[i].name, txs[i].code)
           step == [a \in D \X (1..n) |-> Turn(a[1], a[2])]
           Is(f) == f = [i \in 0..n |-> IF i = 0 THEN e ELSE Turn(f[i - 1], i)]
<1>1. n \in Nat
  BY LenProperties
<1>2. e \in D
  BY DEF Later, CacheOK
<1>3. ASSUME NEW f \in D, NEW i \in 1..n
      PROVE  Turn(f, i) \in D
  <2>1. CASE txs[i].type = "call"
    BY <2>1
  <2>2. CASE txs[i].type # "call"
    <3>1. txs[i].name \in Names /\ txs[i].code \in Codes
      BY <2>2, ElementOfSeq, TxsAre
    <3>2. Later(f, StoreMeta(f, txs[i].name, txs[i].code))
      BY <3>1, StoreMetaIs DEF Later
    <3>3. Later(e, StoreMeta(f, txs[i].name, txs[i].code))
      BY <3>2, LaterStill
    <3> QED
      BY <2>2, <3>3 DEF Later, CacheOK
  <2> QED
    BY <2>1, <2>2
<1> HIDE DEF Turn, D
<1>4. step \in [D \X (1..n) -> D]
  BY <1>3
<1>5. PICK g \in [0..n -> D] : Iterates(g, e, step, n)
  <2> HIDE DEF step, n
  <2> QED
    BY <1>1, <1>2, <1>4, Recursion
<1>6. Is(g)
  <2>1. g = [i \in 0..n |-> g[i]] /\ g[0] = e
    BY <1>5 DEF Iterates
  <2>2. ASSUME NEW i \in 1..n
        PROVE  g[i] = Turn(g[i - 1], i)
    <3>1. g[i - 1] \in D
      BY <1>1, <1>5
    <3> QED
      BY <1>5, <3>1 DEF Iterates
  <2>3. \A i \in 0..n : g[i] = IF i = 0 THEN e ELSE Turn(g[i - 1], i)
    <3> TAKE i \in 0..n
    <3>1. i = 0 \/ (i # 0 /\ i \in 1..n)
      BY <1>1
    <3> QED
      BY <2>1, <2>2, <3>1
  <2> QED
    BY <2>1, <2>3
<1> DEFINE q == CHOOSE f : Is(f)
<1>7. Is(q) /\ StoreDeploys(e, txs) = q[n]
  <2>1. StoreDeploys(e, txs) = q[n]
    BY DEF StoreDeploys, Turn
  <2> QED
    BY <1>6, <2>1
<1> HIDE DEF q
<1>8. q[0] = e /\ \A i \in 1..n : q[i] = Turn(q[i - 1], i)
  BY <1>1, <1>7
<1>9. \A i \in 0..n : q[i] \in D
  BY <1>1, <1>2, <1>3, <1>8, LoopStays
<1>10. q[n] \in D
  BY <1>1, <1>9
<1> QED
  BY <1>7, <1>10 DEF D
-----------------------------------------------------------------------------
(* What a block makes of the state root *)

\* s is the root that a block of by with the transactions txs makes of r, where
\* lacks is what their nested calls lacked.
Follows(r, s, txs, lacks, by) ==
    /\ DOMAIN r \subseteq DOMAIN s
    /\ \A n \in DOMAIN r : s[n][1] = r[n][1] /\ s[n][2] = r[n][2]
    /\ \A n \in DOMAIN s \ DOMAIN r : /\ s[n][1] = by
                                      /\ \E j \in 1..Len(txs) : txs[j] = DeployTx(n, s[n][2])
    /\ \E rs : Path(rs, r, s, Len(txs), txs, lacks, by)

\* There is only one.
LEMMA FollowsOnce ==
    ASSUME NEW r, NEW s, NEW u, NEW txs, Len(txs) \in Nat, NEW lacks, NEW by,
           Follows(r, s, txs, lacks, by), Follows(r, u, txs, lacks, by)
    PROVE  s = u
BY PathOnce DEF Follows

\* The first k of txs.
LEMMA PartIs ==
    ASSUME NEW txs \in Seq(Txs), NEW k \in 0..Len(txs)
    PROVE  LET s == SubSeq(txs, 1, k)
           IN  /\ s \in Seq(Txs) /\ Len(s) = k
               /\ \A j \in 1..k : s[j] = txs[j]
<1>1. Len(txs) \in Nat /\ DOMAIN txs = 1..Len(txs) /\ \A j \in 1..Len(txs) : txs[j] \in Txs
  BY LenProperties, ElementOfSeq
<1> QED
  BY <1>1

LEMMA ExecutedRoot ==
    ASSUME NEW t \in Tables, NEW entries, NEW txs \in Seq(Txs), NEW by, NEW a, NEW k, NEW lacks,
           Executed(t, a, k, lacks, entries, txs, by)
    PROVE  Follows(Root(t), Root(a), SubSeq(txs, 1, k), lacks, by)
<1> DEFINE s == SubSeq(txs, 1, k)
<1>1. a \in Tables /\ k \in 0..Len(txs) /\ Known(t) \subseteq Known(a)
  BY DEF Executed
<1>2. Len(s) = k /\ \A j \in 1..k : s[j] = txs[j]
  BY <1>1, PartIs
<1> HIDE DEF s
<1>3. \A n \in Known(t) : a[n].host = t[n].host /\ a[n].hash = t[n].hash
  BY DEF Executed, Ran
<1>4. \A n \in Known(a) \ Known(t) :
        a[n].host = by /\ \E j \in 1..k : s[j] = DeployTx(n, a[n].hash)
  BY <1>2 DEF Executed, NewContract
<1>5. \E rs : Path(rs, Root(t), Root(a), k, s, lacks, by)
  BY <1>2 DEF Executed, Path
<1>6. /\ DOMAIN Root(t) = Known(t) /\ DOMAIN Root(a) = Known(a)
      /\ \A n \in Known(t) : Root(t)[n][1] = t[n].host /\ Root(t)[n][2] = t[n].hash
      /\ \A n \in Known(a) : Root(a)[n][1] = a[n].host /\ Root(a)[n][2] = a[n].hash
  BY <1>1, RootIs
<1> HIDE DEF Executed
<1> QED
  BY <1>1, <1>2, <1>3, <1>4, <1>5, <1>6 DEF Follows, s
-----------------------------------------------------------------------------
(* The inductive invariant *)

Blocks == [by : Devices, txs : Seq(Txs), root : Roots, lacks : Seq(SUBSET Names)]

Typed ==
    /\ chain \in Seq(Blocks)
    /\ \A i \in 1..Len(chain) : Len(chain[i].txs) \in 1..MaxTxns
    /\ height \in [Devices -> Nat] /\ \A d \in Devices : height[d] <= Len(chain)
    /\ contracts \in [Devices -> Tables]
    /\ cache \in [Devices -> Caches] /\ \A d \in Devices : CacheOK(cache[d])
    /\ pool \in [Devices -> Seq(Txs)]
    /\ checkpoints \in [Devices -> Seq(Nat)]
    /\ \A d \in Devices : \A i \in 1..Len(checkpoints[d]) : checkpoints[d][i] \in 1..height[d]
    /\ sent \subseteq Offers

\* The state root after the first k blocks.
RootAt(k) == IF k = 0 THEN Root(NoTable) ELSE chain[k].root

\* What a contract is never changes.
Grows(r, s) ==
    \A n \in DOMAIN r : n \in DOMAIN s /\ s[n][1] = r[n][1] /\ s[n][2] = r[n][2]

\* Each block makes of the root before it what its transactions say, and the
\* contracts of a root were deployed.
Following ==
    /\ \A i \in 1..Len(chain) :
        Follows(RootAt(i - 1), RootAt(i), chain[i].txs, chain[i].lacks, chain[i].by)
    /\ \A k \in 0..Len(chain) : \A i \in 0..k : Grows(RootAt(i), RootAt(k))
    /\ \A k \in 0..Len(chain) : \A n \in DOMAIN RootAt(k) :
        \E i \in 1..k : DeployedBy(i, n, RootAt(k)[n][1], RootAt(k)[n][2])

\* Each device has the state of its height.
Replicas == \A d \in Devices : Root(contracts[d]) = RootAt(height[d]) /\ Matching(contracts[d])

CoreInv == Typed /\ Following /\ Replicas

\* No device that stays is behind a block of its own.
OwnApplied == \A i \in 1..Len(chain) : Steady(chain[i].by) => i <= height[chain[i].by]

\* d's user has broadcast a DEPLOY of n.
Offering(d, n) == \E m \in sent : m.from = d /\ m.name = n

\* The code of what waits in the pool is in the cache, if it is ever to be deployed.
PoolBacked(d) ==
    d \notin Rebooters =>
        \A j \in 1..Len(pool[d]) : \A n \in Names : \A c \in Codes :
            pool[d][j] = DeployTx(n, c) => Backed(cache[d], n)

\* Code gets into the cache by the own user alone.
OwnCodes(d) == \A n : HasCode(cache[d], n) => Offering(d, n)

\* A validator borrows code only from its own cache.
OwnLoans(d, table) ==
    d \in Validators => \A n \in Known(table) : table[n].temp => Offering(d, n)

\* What was called is there, with its code.
CalledThere(d, table) ==
    d \in Validators /\ Steady(d) =>
        \A n \in Names : Called(n, height[d]) /\ ~ Offering(d, n) =>
            n \in Known(table) /\ table[n].code # Absent

\* So is what d hosts.
HostThere(d, table) ==
    Steady(d) => \A n \in Known(table) :
        table[n].host = d => table[n].code # Absent /\ ~ table[n].temp

Keeps(d) ==
    /\ PoolBacked(d) /\ OwnCodes(d)
    /\ OwnLoans(d, contracts[d]) /\ CalledThere(d, contracts[d]) /\ HostThere(d, contracts[d])

KeepInv == OwnApplied /\ \A d \in Devices : Keeps(d)

CodeInv == CoreInv /\ KeepInv
-----------------------------------------------------------------------------
(* The chain *)

LEMMA SameRoots ==
    ASSUME Following, UNCHANGED chain
    PROVE  Following' /\ \A k : RootAt(k)' = RootAt(k)
BY DEF Following, RootAt, DeployedBy

LEMMA LongerRoots ==
    ASSUME Typed, Following, NEW b \in Blocks, chain' = Append(chain, b),
           Follows(RootAt(Len(chain)), b.root, b.txs, b.lacks, b.by)
    PROVE  /\ Following'
           /\ \A k : k = Len(chain) + 1 => RootAt(k)' = b.root
           /\ \A k \in 0..Len(chain) : RootAt(k)' = RootAt(k)
<1>0. PICK len : len = Len(chain)
  OBVIOUS
<1>1. /\ len \in Nat /\ Len(chain') = len + 1 /\ chain'[len + 1] = b
      /\ \A i \in 1..len : chain'[i] = chain[i]
      /\ 1..len + 1 = 1..len \cup {len + 1} /\ 0..len + 1 = 0..len \cup {len + 1}
      /\ \A i \in 1..len : i - 1 \in 0..len
  BY <1>0 DEF Typed
<1>2. \A k \in 0..len : RootAt(k)' = RootAt(k)
  <2> TAKE k \in 0..len
  <2>1. k = 0 \/ k \in 1..len
    BY <1>1
  <2> QED
    BY <1>1, <2>1 DEF RootAt
<1>3. RootAt(len + 1)' = b.root
  BY <1>1 DEF RootAt
<1>4. \A i \in 1..len + 1 :
        Follows(RootAt(i - 1)', RootAt(i)', chain'[i].txs, chain'[i].lacks, chain'[i].by)
  <2> TAKE i \in 1..len + 1
  <2>1. CASE i \in 1..len
    <3>1. i - 1 \in 0..len /\ i \in 0..len
      BY <1>1, <2>1
    <3> QED
      BY <1>0, <1>1, <1>2, <2>1, <3>1 DEF Following
  <2>2. CASE i = len + 1
    <3>1. i - 1 = len /\ len \in 0..len
      BY <1>1, <2>2
    <3> QED
      BY <1>0, <1>1, <1>2, <1>3, <2>2, <3>1
  <2> QED
    BY <1>1, <2>1, <2>2
<1>5. Grows(RootAt(len), b.root)
  BY <1>0 DEF Follows, Grows
<1>6. \A k \in 0..len + 1 : \A i \in 0..k : Grows(RootAt(i)', RootAt(k)')
  <2> TAKE k \in 0..len + 1
  <2> TAKE i \in 0..k
  <2>1. CASE k \in 0..len
    <3>1. i \in 0..len
      BY <1>1, <2>1
    <3> QED
      BY <1>0, <1>2, <2>1, <3>1 DEF Following
  <2>2. CASE k = len + 1 /\ i = k
    BY <2>2 DEF Grows
  <2>3. CASE k = len + 1 /\ i \in 0..len
    <3>1. Grows(RootAt(i), RootAt(len))
      BY <1>0, <1>1, <2>3 DEF Following
    <3>2. Grows(RootAt(i), b.root)
      BY <1>5, <3>1 DEF Grows
    <3> QED
      BY <1>2, <1>3, <2>3, <3>2
  <2> QED
    BY <1>1, <2>1, <2>2, <2>3
<1>7. \A i \in 1..len : \A n, d, c : DeployedBy(i, n, d, c)' <=> DeployedBy(i, n, d, c)
  BY <1>1 DEF DeployedBy
<1>8. ASSUME NEW k \in 0..len + 1, NEW n \in DOMAIN (RootAt(k)')
      PROVE  \E i \in 1..k : DeployedBy(i, n, RootAt(k)[n][1], RootAt(k)[n][2])'
  <2>1. CASE k \in 0..len
    <3>1. RootAt(k)' = RootAt(k)
      BY <1>2, <2>1
    <3>2. PICK i \in 1..k : DeployedBy(i, n, RootAt(k)[n][1], RootAt(k)[n][2])
      BY <1>0, <1>8, <2>1, <3>1 DEF Following
    <3>3. i \in 1..len
      BY <1>1, <2>1
    <3> QED
      BY <1>7, <3>1, <3>2, <3>3
  <2>2. CASE k = len + 1 /\ n \in DOMAIN RootAt(len)
    <3>1. PICK i \in 1..len : DeployedBy(i, n, RootAt(len)[n][1], RootAt(len)[n][2])
      BY <1>0, <1>1, <2>2 DEF Following
    <3>2. /\ RootAt(k)'[n][1] = RootAt(len)[n][1] /\ RootAt(k)'[n][2] = RootAt(len)[n][2]
          /\ i \in 1..k
      BY <1>1, <1>3, <1>5, <2>2 DEF Grows
    <3> QED
      BY <1>7, <3>1, <3>2
  <2>3. CASE k = len + 1 /\ n \notin DOMAIN RootAt(len)
    <3>1. n \in DOMAIN b.root \ DOMAIN RootAt(len) /\ RootAt(k)' = b.root
      BY <1>3, <1>8, <2>3
    <3>2. PICK j \in 1..Len(b.txs) : b.txs[j] = DeployTx(n, b.root[n][2])
      BY <1>0, <3>1 DEF Follows
    <3>3. b.root[n][1] = b.by /\ DOMAIN b.txs = 1..Len(b.txs)
      BY <1>0, <3>1, LenProperties DEF Follows, Blocks
    <3>4. DeployTx(n, b.root[n][2]) \in Range(b.txs)
      BY <3>2, <3>3 DEF Range
    <3>5. DeployedBy(k, n, b.by, b.root[n][2])'
      BY <1>1, <2>3, <3>4 DEF DeployedBy, DeployTx
    <3> QED
      BY <1>1, <2>3, <3>1, <3>3, <3>5
  <2> QED
    BY <1>1, <2>1, <2>2, <2>3
<1>9. Following'
  <2>1. Len(chain)' = len + 1
    BY <1>1
  <2> QED
    BY <1>4, <1>6, <1>8, <2>1 DEF Following
<1> QED
  BY <1>0, <1>2, <1>3, <1>9

\* g is what d makes of its contracts by fetching code, r what it makes of g
\* by executing the transactions txs of by.
Tried(d, entries, txs, by, g, r) ==
    /\ Refetched(contracts[d], g, d, entries)
    /\ Executed(g, r.table, r.done, r.lacks, entries, txs, by)
    /\ g \in Tables /\ r.table \in Tables /\ r.done \in 0..Len(txs)
    /\ Root(g) = Root(contracts[d]) /\ Matching(g) /\ Matching(r.table)
    /\ Root(r.table) \in Roots
    /\ Follows(RootAt(height[d]), Root(r.table), SubSeq(txs, 1, r.done), r.lacks, by)

LEMMA TriedIs ==
    ASSUME CoreInv, NEW d \in Devices, NEW entries \in Caches, NEW txs \in Seq(Txs),
           NEW by \in Devices, NEW R \in SUBSET Devices
    PROVE  LET g == Prefetch(d, entries, txs, R)
           IN  Tried(d, entries, txs, by, g, Execute(g, entries, txs, by))
<1> DEFINE t == contracts[d]
           g == Prefetch(d, entries, txs, R)
           r == Execute(g, entries, txs, by)
<1>1. /\ contracts \in [Devices -> Tables] /\ t \in Tables
      /\ Matching(t) /\ Root(t) = RootAt(height[d])
  BY DEF CoreInv, Typed, Replicas
<1>2. Refetched(t, g, d, entries)
  BY <1>1, PrefetchIs
<1>3. g \in Tables
  BY <1>2 DEF Refetched
<1>4. Root(g) = Root(t) /\ Matching(g)
  BY <1>1, <1>2, RefetchedKeeps
<1> HIDE DEF t, g
<1>5. Executed(g, r.table, r.done, r.lacks, entries, txs, by)
  BY <1>3, <1>4, ExecuteIs
<1> HIDE DEF r
<1>6. r.table \in Tables /\ r.done \in 0..Len(txs) /\ Matching(r.table)
  BY <1>5 DEF Executed
<1>7. Root(r.table) \in Roots
  BY <1>6, RootIs
<1>8. Follows(RootAt(height[d]), Root(r.table), SubSeq(txs, 1, r.done), r.lacks, by)
  BY <1>1, <1>3, <1>4, <1>5, ExecutedRoot
<1> QED
  BY <1>2, <1>3, <1>4, <1>5, <1>6, <1>7, <1>8 DEF Tried, t, g, r

\* What d's table and height may become on a chain that does not change.
LEMMA SameChain ==
    ASSUME CoreInv, NEW d \in Devices, NEW g \in Tables, NEW k \in 0..Len(chain),
           Matching(g), Root(g) = RootAt(k), UNCHANGED chain,
           contracts' = [contracts EXCEPT ![d] = g], height' = [height EXCEPT ![d] = k]
    PROVE  /\ Following' /\ Replicas'
           /\ contracts' \in [Devices -> Tables] /\ height' \in [Devices -> Nat]
           /\ \A e \in Devices : height'[e] <= Len(chain')
<1>1. /\ contracts \in [Devices -> Tables] /\ height \in [Devices -> Nat]
      /\ \A e \in Devices : height[e] <= Len(chain)
      /\ k \in Nat /\ k <= Len(chain)
  BY LenProperties DEF CoreInv, Typed
<1>2. Following' /\ \A i : RootAt(i)' = RootAt(i)
  BY SameRoots DEF CoreInv
<1>3. /\ contracts' \in [Devices -> Tables] /\ contracts'[d] = g
      /\ \A e \in Devices \ {d} : contracts'[e] = contracts[e]
  BY <1>1
<1>4. /\ height' \in [Devices -> Nat] /\ height'[d] = k
      /\ \A e \in Devices \ {d} : height'[e] = height[e]
  BY <1>1
<1>5. Replicas'
  <2> SUFFICES ASSUME NEW e \in Devices
               PROVE  Root(contracts'[e]) = RootAt(height[e])' /\ Matching(contracts'[e])
    BY DEF Replicas
  <2>1. \A i : RootAt(i)' = IF i = 0 THEN Root(NoTable) ELSE chain'[i].root
    BY DEF RootAt
  <2>2. RootAt(height[e])' = IF height'[e] = 0 THEN Root(NoTable) ELSE chain'[height'[e]].root
    BY DEF RootAt
  <2>3. RootAt(height[e])' = RootAt(height'[e])
    BY <1>2, <2>1, <2>2
  <2>4. CASE e = d
    BY <1>3, <1>4, <2>3, <2>4
  <2>5. CASE e # d
    BY <1>3, <1>4, <2>3, <2>5 DEF CoreInv, Replicas
  <2> QED
    BY <2>4, <2>5
<1> QED
  BY <1>1, <1>2, <1>3, <1>4, <1>5

\* The table of a device that has produced the next block.
LEMMA NextChain ==
    ASSUME CoreInv, NEW d \in Devices, NEW g \in Tables, NEW b \in Blocks,
           Matching(g), Root(g) = b.root, chain' = Append(chain, b),
           Follows(RootAt(Len(chain)), b.root, b.txs, b.lacks, b.by), height[d] = Len(chain),
           contracts' = [contracts EXCEPT ![d] = g], height' = [height EXCEPT ![d] = @ + 1]
    PROVE  /\ Following' /\ Replicas'
           /\ contracts' \in [Devices -> Tables] /\ height' \in [Devices -> Nat]
           /\ \A e \in Devices : height'[e] <= Len(chain')
<1>1. /\ contracts \in [Devices -> Tables] /\ height \in [Devices -> Nat]
      /\ \A e \in Devices : height[e] <= Len(chain)
      /\ Len(chain) \in Nat /\ Len(chain') = Len(chain) + 1
  BY LenProperties DEF CoreInv, Typed
<1>2. /\ Following'
      /\ \A k : k = Len(chain) + 1 => RootAt(k)' = b.root
      /\ \A k \in 0..Len(chain) : RootAt(k)' = RootAt(k)
  BY LongerRoots DEF CoreInv
<1>3. /\ contracts' \in [Devices -> Tables] /\ contracts'[d] = g
      /\ \A e \in Devices \ {d} : contracts'[e] = contracts[e]
  BY <1>1
<1>4. /\ height' \in [Devices -> Nat] /\ height'[d] = Len(chain) + 1
      /\ \A e \in Devices \ {d} : height'[e] = height[e]
  BY <1>1
<1>5. Replicas'
  <2> SUFFICES ASSUME NEW e \in Devices
               PROVE  Root(contracts'[e]) = RootAt(height[e])' /\ Matching(contracts'[e])
    BY DEF Replicas
  <2>1. \A i : RootAt(i)' = IF i = 0 THEN Root(NoTable) ELSE chain'[i].root
    BY DEF RootAt
  <2>2. RootAt(height[e])' = IF height'[e] = 0 THEN Root(NoTable) ELSE chain'[height'[e]].root
    BY DEF RootAt
  <2>3. \A i : i = height'[e] => RootAt(height[e])' = RootAt(i)'
    BY <2>1, <2>2
  <2>4. CASE e = d
    BY <1>1, <1>2, <1>3, <1>4, <2>3, <2>4
  <2>5. CASE e # d
    <3>1. height[e] \in 0..Len(chain) /\ height'[e] = height[e]
      BY <1>1, <1>4, <2>5
    <3>2. RootAt(height[e])' = RootAt(height[e])
      <4>1. \A i : i = height[e] => RootAt(i)' = RootAt(i)
        BY <1>2, <3>1
      <4> QED
        BY <2>3, <3>1, <4>1
    <3> QED
      BY <1>3, <2>5, <3>2 DEF CoreInv, Replicas
  <2> QED
    BY <2>4, <2>5
<1> QED
  BY <1>1, <1>2, <1>3, <1>4, <1>5

LEMMA PrunedIs ==
    ASSUME Typed, NEW d \in Devices, height' = [height EXCEPT ![d] = @ + 1],
           checkpoints' = Pruned(d)
    PROVE  /\ checkpoints' \in [Devices -> Seq(Nat)]
           /\ \A e \in Devices : \A i \in 1..Len(checkpoints'[e]) :
                checkpoints'[e][i] \in 1..height'[e]
<1>1. /\ height \in [Devices -> Nat] /\ checkpoints \in [Devices -> Seq(Nat)]
      /\ \A e \in Devices : \A i \in 1..Len(checkpoints[e]) : checkpoints[e][i] \in 1..height[e]
  BY DEF Typed
<1>2. /\ height'[d] = height[d] + 1 /\ height[d] \in Nat
      /\ \A e \in Devices \ {d} : height'[e] = height[e]
  BY <1>1
<1> DEFINE s == Append(checkpoints[d], height[d] + 1)
<1>3. /\ s \in Seq(Nat)
      /\ \A i \in 1..Len(s) : s[i] \in 1..height[d] + 1
  <2>1. /\ Len(s) = Len(checkpoints[d]) + 1 /\ Len(checkpoints[d]) \in Nat /\ s \in Seq(Nat)
        /\ \A i \in 1..Len(checkpoints[d]) : s[i] = checkpoints[d][i]
        /\ s[Len(checkpoints[d]) + 1] = height[d] + 1
    BY <1>1, <1>2
  <2> HIDE DEF s
  <2>2. ASSUME NEW i \in 1..Len(s) PROVE s[i] \in 1..height[d] + 1
    <3>1. CASE i = Len(checkpoints[d]) + 1
      BY <1>2, <2>1, <3>1
    <3>2. CASE i \in 1..Len(checkpoints[d])
      <4>1. s[i] \in 1..height[d]
        BY <1>1, <2>1, <3>2
      <4> QED
        BY <1>2, <4>1
    <3> QED
      BY <2>1, <3>1, <3>2
  <2> QED
    BY <2>1, <2>2
<1>4. checkpoints' = checkpoints \/ checkpoints' = [checkpoints EXCEPT ![d] = s]
  BY DEF Pruned
<1> HIDE DEF s
<1>5. CASE checkpoints' = checkpoints
  <2>1. ASSUME NEW e \in Devices, NEW i \in 1..Len(checkpoints[e])
        PROVE  checkpoints[e][i] \in 1..height'[e]
    <3>1. checkpoints[e][i] \in 1..height[e] /\ height[e] \in Nat
      BY <1>1
    <3>2. height'[e] \in {height[e], height[e] + 1}
      BY <1>2
    <3> QED
      BY <3>1, <3>2
  <2> QED
    BY <1>1, <1>5, <2>1
<1>6. CASE checkpoints' = [checkpoints EXCEPT ![d] = s]
  BY <1>1, <1>2, <1>3, <1>6
<1> QED
  BY <1>4, <1>5, <1>6
-----------------------------------------------------------------------------
(* Each step keeps the core of the invariant *)

LEMMA NothingIs ==
    /\ NoTable \in Tables /\ Known(NoTable) = {} /\ Matching(NoTable)
    /\ Root(NoTable) = RootAt(0)
    /\ CacheOK(NoTable)
<1>1. NoTable \in Tables /\ NoTable \in Caches /\ Known(NoTable) = {}
  BY DEF NoTable, Tables, Caches, Known
<1>2. CacheSize \in Nat
  BY CodeCacheAssumption
<1>3. CacheOK(NoTable)
  BY <1>1, <1>2, FS_EmptySet DEF CacheOK
<1> QED
  BY <1>1, <1>3 DEF Matching, RootAt

LEMMA CoreInit ==
    ASSUME Init
    PROVE  CoreInv
<1>1. Typed
  <2>1. NoTable \in Tables /\ NoTable \in Caches /\ CacheOK(NoTable)
    BY NothingIs DEF CacheOK
  <2>2. /\ chain \in Seq(Blocks) /\ Len(chain) = 0
        /\ height \in [Devices -> Nat] /\ \A d \in Devices : height[d] = 0
    BY DEF Init
  <2>3. /\ contracts \in [Devices -> Tables] /\ cache \in [Devices -> Caches]
        /\ \A d \in Devices : cache[d] = NoTable
    BY <2>1 DEF Init
  <2>4. /\ pool \in [Devices -> Seq(Txs)] /\ checkpoints \in [Devices -> Seq(Nat)]
        /\ \A d \in Devices : Len(checkpoints[d]) = 0
        /\ sent \subseteq Offers
    BY DEF Init
  <2> HIDE DEF Init
  <2> QED
    BY <2>1, <2>2, <2>3, <2>4 DEF Typed
<1>2. Len(chain) = 0 /\ 0..0 = {0} /\ 1..0 = {}
  BY DEF Init
<1>3. RootAt(0) \in Roots /\ DOMAIN RootAt(0) = {}
  BY NothingIs, RootIs
<1>4. Following
  BY <1>2, <1>3 DEF Following, Grows
<1>5. Replicas
  BY NothingIs DEF Init, Replicas
<1> QED
  BY <1>1, <1>4, <1>5 DEF CoreInv

\* Nothing but caches, pools and broadcasts changes.
LEMMA CoreSame ==
    ASSUME CoreInv, UNCHANGED <<chain, height, contracts, checkpoints>>,
           cache' \in [Devices -> Caches], \A d \in Devices : CacheOK(cache'[d]),
           pool' \in [Devices -> Seq(Txs)], sent' \subseteq Offers
    PROVE  CoreInv'
<1>1. Following' /\ \A k : RootAt(k)' = RootAt(k)
  BY SameRoots DEF CoreInv
<1>2. Replicas'
  BY DEF CoreInv, Replicas, RootAt
<1>3. Typed'
  BY DEF CoreInv, Typed
<1> QED
  BY <1>1, <1>2, <1>3 DEF CoreInv

LEMMA CoreSubmit ==
    ASSUME CoreInv, NEW d \in Devices, NEW t \in Txs, Submit(d, t),
           cache' \in [Devices -> Caches], \A e \in Devices : CacheOK(cache'[e]),
           sent' \subseteq Offers
    PROVE  CoreInv'
<1>1. pool \in [Devices -> Seq(Txs)]
  BY DEF CoreInv, Typed
<1>2. pool' = [pool EXCEPT ![d] = Append(@, t)]
  BY DEF Submit
<1>3. Append(pool[d], t) \in Seq(Txs)
  BY <1>1
<1>4. pool' \in [Devices -> Seq(Txs)]
  BY <1>1, <1>2, <1>3
<1> QED
  BY <1>4, CoreSame DEF Submit

LEMMA CoreDeploy ==
    ASSUME CoreInv, NEW d \in Devices, NEW m \in Offers, Deploy(d, m)
    PROVE  CoreInv'
<1> DEFINE t == [type |-> "deploy", name |-> m.name, code |-> m.code]
           f == Store(cache[d], m.name, m.code)
<1>1. m.name \in Names /\ m.code \in Codes /\ t \in Txs
  BY CodeCacheAssumption DEF Txs
<1>2. /\ cache \in [Devices -> Caches] /\ sent \subseteq Offers
      /\ \A e \in Devices : CacheOK(cache[e])
  BY DEF CoreInv, Typed
<1>3. CacheOK(f) /\ f \in Caches
  BY <1>1, <1>2, StoreIs DEF CacheOK
<1>4. cache' = [cache EXCEPT ![d] = f] /\ sent' = sent \cup {m} /\ Submit(d, t)
  BY DEF Deploy
<1> HIDE DEF f, t
<1>5. cache' \in [Devices -> Caches] /\ \A e \in Devices : CacheOK(cache'[e])
  BY <1>2, <1>3, <1>4
<1> QED
  BY <1>1, <1>2, <1>4, <1>5, CoreSubmit

LEMMA CoreCall ==
    ASSUME CoreInv, NEW d \in Devices, NEW n \in Names, Call(d, n)
    PROVE  CoreInv'
<1>1. [type |-> "call", name |-> n] \in Txs
  BY DEF Txs
<1>2. /\ cache' \in [Devices -> Caches] /\ sent' \subseteq Offers
      /\ \A e \in Devices : CacheOK(cache'[e])
  BY DEF CoreInv, Typed, Call
<1> QED
  BY <1>1, <1>2, CoreSubmit DEF Call

LEMMA CoreHearTx ==
    ASSUME CoreInv, NEW d \in Devices, NEW m \in sent, HearTx(d, m)
    PROVE  CoreInv'
<1> DEFINE f == StoreMeta(cache[d], m.name, m.code)
<1>1. /\ cache \in [Devices -> Caches] /\ \A e \in Devices : CacheOK(cache[e])
      /\ sent \subseteq Offers /\ pool \in [Devices -> Seq(Txs)]
  BY DEF CoreInv, Typed
<1>2. m.name \in Names /\ m.code \in Codes
  BY <1>1, CodeCacheAssumption
<1>3. CacheOK(f) /\ f \in Caches
  BY <1>1, <1>2, StoreMetaIs DEF CacheOK, Later
<1>4. cache' = [cache EXCEPT ![d] = f]
  BY DEF HearTx
<1> HIDE DEF f
<1>5. cache' \in [Devices -> Caches] /\ \A e \in Devices : CacheOK(cache'[e])
  BY <1>1, <1>3, <1>4
<1> QED
  BY <1>1, <1>5, CoreSame DEF HearTx

\* Two devices that know the contract n take it for the same.
LEMMA SameContract ==
    ASSUME CoreInv, NEW d \in Devices, NEW e \in Devices, NEW n \in Names,
           n \in Known(contracts[d]), n \in Known(contracts[e])
    PROVE  /\ contracts[d][n].host = contracts[e][n].host
           /\ contracts[d][n].hash = contracts[e][n].hash
<1>1. /\ contracts[d] \in Tables /\ contracts[e] \in Tables
      /\ height[d] \in 0..Len(chain) /\ height[e] \in 0..Len(chain) /\ Len(chain) \in Nat
  BY LenProperties DEF CoreInv, Typed
<1>2. /\ DOMAIN Root(contracts[d]) = Known(contracts[d])
      /\ DOMAIN Root(contracts[e]) = Known(contracts[e])
      /\ Root(contracts[d])[n][1] = contracts[d][n].host
      /\ Root(contracts[d])[n][2] = contracts[d][n].hash
      /\ Root(contracts[e])[n][1] = contracts[e][n].host
      /\ Root(contracts[e])[n][2] = contracts[e][n].hash
  BY <1>1, RootIs
<1>3. Root(contracts[d]) = RootAt(height[d]) /\ Root(contracts[e]) = RootAt(height[e])
  BY DEF CoreInv, Replicas
<1>4. height[d] \in 0..height[e] \/ height[e] \in 0..height[d]
  BY <1>1
<1>5. Grows(RootAt(height[d]), RootAt(height[e])) \/ Grows(RootAt(height[e]), RootAt(height[d]))
  BY <1>1, <1>4 DEF CoreInv, Following
<1> QED
  BY <1>2, <1>3, <1>5 DEF Grows

LEMMA HeardInfo ==
    ASSUME CoreInv, NEW d \in Devices, NEW e \in Devices, NEW n \in Names, HearInfo(d, e, n)
    PROVE  contracts' = contracts
<1> DEFINE c == contracts[d][n]
           f == contracts[e][n]
           g == IF c = Absent THEN c ELSE [c EXCEPT !.host = f.host, !.hash = f.hash]
<1>1. /\ contracts \in [Devices -> Tables] /\ contracts[d] \in Tables
      /\ contracts' = [contracts EXCEPT ![d][n] = g]
  BY DEF HearInfo, CoreInv, Typed
<1>2. ASSUME c # Absent
      PROVE  g = c
  <2>1. n \in Known(contracts[d]) /\ n \in Known(contracts[e]) /\ c \in Contracts
    BY <1>1, <1>2, Present DEF HearInfo, Known
  <2>2. c.host = f.host /\ c.hash = f.hash
    BY <2>1, SameContract
  <2>3. [c EXCEPT !.host = c.host, !.hash = c.hash] = c
    BY <2>1 DEF Contracts
  <2> QED
    BY <1>2, <2>2, <2>3
<1>3. g = c
  BY <1>2
<1> HIDE DEF g
<1> QED
  BY <1>1, <1>3 DEF Tables

LEMMA CoreHearInfo ==
    ASSUME CoreInv, NEW d \in Devices, NEW e \in Devices, NEW n \in Names, HearInfo(d, e, n)
    PROVE  CoreInv' /\ contracts[e][n].hash \in Codes
<1> DEFINE f == StoreMeta(cache[d], n, contracts[e][n].hash)
<1>1. /\ cache \in [Devices -> Caches] /\ \A i \in Devices : CacheOK(cache[i])
      /\ sent \subseteq Offers /\ pool \in [Devices -> Seq(Txs)] /\ contracts[e] \in Tables
  BY DEF CoreInv, Typed
<1>2. contracts[e][n] \in Contracts
  BY <1>1, Present DEF HearInfo
<1>3. contracts[e][n].hash \in Codes
  BY <1>2 DEF Contracts
<1>4. CacheOK(f) /\ f \in Caches
  BY <1>1, <1>3, StoreMetaIs DEF CacheOK, Later
<1>5. cache' = [cache EXCEPT ![d] = f]
  BY DEF HearInfo
<1> HIDE DEF f
<1>6. cache' \in [Devices -> Caches] /\ \A i \in Devices : CacheOK(cache'[i])
  BY <1>1, <1>4, <1>5
<1> QED
  BY <1>1, <1>3, <1>6, HeardInfo, CoreSame DEF HearInfo

\* The transactions that d takes from its pool.
Taken(d) == SubSeq(pool[d], 1, IF MaxTxns < Len(pool[d]) THEN MaxTxns ELSE Len(pool[d]))

LEMMA TakenIs ==
    ASSUME Typed, NEW d \in Devices, pool[d] # <<>>
    PROVE  /\ Taken(d) \in Seq(Txs) /\ Len(Taken(d)) \in 1..MaxTxns
           /\ Len(Taken(d)) <= Len(pool[d])
           /\ \A i \in 1..Len(Taken(d)) : Taken(d)[i] = pool[d][i]
<1>1. pool[d] \in Seq(Txs) /\ Len(pool[d]) \in Nat \ {0} /\ MaxTxns \in Nat \ {0}
  BY CodeCacheAssumption DEF Typed
<1> DEFINE k == IF MaxTxns < Len(pool[d]) THEN MaxTxns ELSE Len(pool[d])
<1>2. k \in 0..Len(pool[d]) /\ k \in 1..MaxTxns
  BY <1>1
<1> HIDE DEF k
<1>3. SubSeq(pool[d], 1, k) \in Seq(Txs) /\ Len(SubSeq(pool[d], 1, k)) = k
  BY <1>1, <1>2, PartIs
<1>4. \A i \in 1..k : SubSeq(pool[d], 1, k)[i] = pool[d][i]
  BY <1>1, <1>2, PartIs
<1> QED
  BY <1>2, <1>3, <1>4 DEF Taken, k

LEMMA CoreProduce ==
    ASSUME CoreInv, NEW d \in Devices, NEW R \in SUBSET (Devices \ {d}), Produce(d, R)
    PROVE  CoreInv'
<1> DEFINE txs == Taken(d)
           g == Prefetch(d, cache[d], txs, R)
           r == Execute(g, cache[d], txs, d)
           b == [by |-> d, txs |-> SubSeq(txs, 1, r.done), root |-> Root(r.table),
                 lacks |-> r.lacks]
<1>1. /\ Typed /\ chain \in Seq(Blocks)
      /\ height \in [Devices -> Nat] /\ contracts \in [Devices -> Tables]
      /\ cache \in [Devices -> Caches] /\ pool \in [Devices -> Seq(Txs)]
      /\ checkpoints \in [Devices -> Seq(Nat)]
  BY DEF CoreInv, Typed
<1>2. /\ height[d] = Len(chain) /\ pool[d] # <<>>
      /\ contracts' = [contracts EXCEPT ![d] = r.table]
      /\ pool' = [pool EXCEPT ![d] = SubSeq(@, Len(txs) + 1, Len(@))]
      /\ IF r.done = 0 THEN UNCHANGED <<chain, height, checkpoints>>
         ELSE /\ chain' = Append(chain, b)
              /\ height' = [height EXCEPT ![d] = @ + 1]
              /\ checkpoints' = Pruned(d)
      /\ UNCHANGED <<cache, sent>>
  BY DEF Produce, Taken
<1>3. txs \in Seq(Txs) /\ Len(txs) \in 1..MaxTxns /\ Len(txs) <= Len(pool[d])
  BY <1>1, <1>2, TakenIs
<1> HIDE DEF txs
<1>4. Tried(d, cache[d], txs, d, g, r)
  BY <1>1, <1>3, TriedIs
<1> HIDE DEF g, r
<1>5. /\ r.table \in Tables /\ Matching(r.table) /\ Root(r.table) \in Roots
      /\ r.done \in 0..Len(txs)
      /\ Follows(RootAt(Len(chain)), Root(r.table), SubSeq(txs, 1, r.done), r.lacks, d)
      /\ r.lacks \in Seq(SUBSET Names)
  BY <1>2, <1>4 DEF Tried, Executed
<1>6. pool' \in [Devices -> Seq(Txs)]
  <2>1. Len(txs) \in Nat /\ Len(pool[d]) \in Nat /\ DOMAIN pool[d] = 1..Len(pool[d])
    BY <1>1, <1>3
  <2>2. SubSeq(pool[d], Len(txs) + 1, Len(pool[d])) \in Seq(Txs)
    BY <1>1, <2>1
  <2> QED
    BY <1>1, <1>2, <2>2
<1>7. CASE r.done = 0
  <2>1. UNCHANGED <<chain, height, checkpoints>>
    BY <1>2, <1>7
  <2>2. Root(r.table) = RootAt(Len(chain))
    <3>1. /\ Root(g) = RootAt(Len(chain))
          /\ \E rs : Path(rs, Root(g), Root(r.table), 0, txs, r.lacks, d)
      BY <1>2, <1>4, <1>7 DEF Tried, Executed, CoreInv, Replicas
    <3> QED
      BY <3>1 DEF Path
  <2>3. height' = [height EXCEPT ![d] = Len(chain)] /\ Len(chain) \in 0..Len(chain)
    BY <1>1, <1>2, <2>1, LenProperties
  <2>4. /\ Following' /\ Replicas'
        /\ contracts' \in [Devices -> Tables] /\ height' \in [Devices -> Nat]
        /\ \A e \in Devices : height'[e] <= Len(chain')
    BY <1>2, <1>5, <2>1, <2>2, <2>3, SameChain
  <2>5. Typed'
    BY <1>1, <1>2, <1>6, <2>1, <2>4 DEF Typed
  <2> QED
    BY <2>4, <2>5 DEF CoreInv
<1>8. CASE r.done # 0
  <2>1. /\ chain' = Append(chain, b) /\ height' = [height EXCEPT ![d] = @ + 1]
        /\ checkpoints' = Pruned(d)
    BY <1>2, <1>8
  <2>2. SubSeq(txs, 1, r.done) \in Seq(Txs) /\ Len(SubSeq(txs, 1, r.done)) = r.done
    BY <1>3, <1>5, PartIs
  <2>3. /\ b \in Blocks /\ b.root = Root(r.table) /\ b.by = d /\ b.lacks = r.lacks
        /\ b.txs = SubSeq(txs, 1, r.done) /\ Len(b.txs) \in 1..MaxTxns
    <3>1. MaxTxns \in Nat /\ Len(txs) \in Nat
      BY <1>3, CodeCacheAssumption, LenProperties
    <3>2. r.done \in 1..MaxTxns
      BY <1>3, <1>5, <1>8, <3>1
    <3> QED
      BY <1>5, <2>2, <3>2 DEF Blocks
  <2> HIDE DEF b
  <2>4. /\ Following' /\ Replicas'
        /\ contracts' \in [Devices -> Tables] /\ height' \in [Devices -> Nat]
        /\ \A e \in Devices : height'[e] <= Len(chain')
    BY <1>2, <1>5, <2>1, <2>3, NextChain
  <2>5. /\ checkpoints' \in [Devices -> Seq(Nat)]
        /\ \A e \in Devices : \A i \in 1..Len(checkpoints'[e]) :
                checkpoints'[e][i] \in 1..height'[e]
    BY <1>1, <2>1, PrunedIs
  <2>6. chain' \in Seq(Blocks) /\ \A i \in 1..Len(chain') : Len(chain'[i].txs) \in 1..MaxTxns
    <3>1. /\ Len(chain') = Len(chain) + 1 /\ Len(chain) \in Nat /\ chain'[Len(chain) + 1] = b
          /\ \A i \in 1..Len(chain) : chain'[i] = chain[i]
          /\ chain' \in Seq(Blocks)
      BY <1>1, <2>1, <2>3
    <3>2. \A i \in 1..Len(chain) : Len(chain[i].txs) \in 1..MaxTxns
      BY <1>1 DEF Typed
    <3>3. \A i \in 1..Len(chain) + 1 : i \in 1..Len(chain) \/ i = Len(chain) + 1
      BY <3>1
    <3>4. \A i \in 1..Len(chain) + 1 : Len(chain'[i].txs) \in 1..MaxTxns
      BY <2>3, <3>1, <3>2, <3>3
    <3> QED
      BY <3>1, <3>4
  <2>7. Typed'
    BY <1>1, <1>2, <1>6, <2>4, <2>5, <2>6 DEF Typed
  <2> QED
    BY <2>4, <2>7 DEF CoreInv
<1> QED
  BY <1>7, <1>8

LEMMA NextIs ==
    ASSUME Typed, NEW d \in Devices, height[d] < Len(chain)
    PROVE  /\ height[d] \in Nat /\ height[d] + 1 \in 1..Len(chain)
           /\ NextBlock(d) \in Blocks /\ NextBlock(d) = chain[height[d] + 1]
           /\ NextBlock(d).txs \in Seq(Txs) /\ NextBlock(d).by \in Devices
           /\ NextBlock(d).root \in Roots /\ NextBlock(d).lacks \in Seq(SUBSET Names)
           /\ NextBlock(d).root = RootAt(height[d] + 1)
<1>1. height[d] \in Nat /\ Len(chain) \in Nat /\ chain \in Seq(Blocks)
  BY LenProperties DEF Typed
<1>2. height[d] + 1 \in 1..Len(chain) /\ height[d] + 1 # 0
  BY <1>1
<1>3. chain[height[d] + 1] \in Blocks
  BY <1>1, <1>2, ElementOfSeq
<1> QED
  BY <1>1, <1>2, <1>3 DEF NextBlock, Blocks, RootAt

LEMMA CoreReceive ==
    ASSUME CoreInv, NEW d \in Devices, NEW R \in SUBSET (Devices \ {d}), Receive(d, R)
    PROVE  CoreInv'
<1> DEFINE txs == NextBlock(d).txs
           entries == StoreDeploys(cache[d], txs)
           g == Prefetch(d, entries, txs, R)
           r == Execute(g, entries, txs, NextBlock(d).by)
           h == TempDiscarded(r.table)
           applied == r.done = Len(txs) /\ Root(r.table) = NextBlock(d).root
<1>1. /\ Typed /\ chain \in Seq(Blocks)
      /\ height \in [Devices -> Nat] /\ contracts \in [Devices -> Tables]
      /\ cache \in [Devices -> Caches] /\ \A e \in Devices : CacheOK(cache[e])
      /\ checkpoints \in [Devices -> Seq(Nat)]
  BY DEF CoreInv, Typed
<1>2. /\ height[d] < Len(chain)
      /\ cache' = [cache EXCEPT ![d] = entries]
      /\ applied => /\ contracts' = [contracts EXCEPT ![d] = h]
                    /\ height' = [height EXCEPT ![d] = @ + 1]
                    /\ checkpoints' = Pruned(d)
      /\ ~ applied => /\ contracts' = [contracts EXCEPT ![d] = g]
                      /\ UNCHANGED <<height, checkpoints>>
      /\ UNCHANGED <<chain, pool, sent>>
  BY DEF Receive
<1>3. /\ height[d] \in Nat /\ height[d] + 1 \in 1..Len(chain) /\ Len(chain) \in Nat
      /\ txs \in Seq(Txs) /\ NextBlock(d).by \in Devices
      /\ NextBlock(d).root = RootAt(height[d] + 1)
  BY <1>1, <1>2, NextIs, LenProperties
<1> HIDE DEF txs
<1>4. CacheOK(entries) /\ entries \in Caches
  BY <1>1, <1>3, StoreDeploysIs DEF Later, CacheOK
<1> HIDE DEF entries
<1>5. Tried(d, entries, txs, NextBlock(d).by, g, r)
  BY <1>3, <1>4, TriedIs
<1> HIDE DEF g, r
<1>6. /\ g \in Tables /\ Matching(g) /\ Root(g) = RootAt(height[d])
      /\ r.table \in Tables /\ Matching(r.table)
  BY <1>5 DEF Tried, CoreInv, Replicas
<1>7. h \in Tables /\ Root(h) = Root(r.table) /\ Matching(h)
  BY <1>6, DiscardedIs
<1> HIDE DEF h
<1>8. cache' \in [Devices -> Caches] /\ \A e \in Devices : CacheOK(cache'[e])
  BY <1>1, <1>2, <1>4
<1>9. CASE applied
  <2>1. /\ contracts' = [contracts EXCEPT ![d] = h]
        /\ height' = [height EXCEPT ![d] = height[d] + 1] /\ checkpoints' = Pruned(d)
    BY <1>2, <1>9
  <2>2. Root(h) = RootAt(height[d] + 1) /\ height[d] + 1 \in 0..Len(chain) /\ UNCHANGED chain
    BY <1>2, <1>3, <1>7, <1>9
  <2> HIDE DEF applied
  <2>3. /\ Following' /\ Replicas'
        /\ contracts' \in [Devices -> Tables] /\ height' \in [Devices -> Nat]
        /\ \A e \in Devices : height'[e] <= Len(chain')
    BY <1>7, <2>1, <2>2, SameChain
  <2>4. /\ checkpoints' \in [Devices -> Seq(Nat)]
        /\ \A e \in Devices : \A i \in 1..Len(checkpoints'[e]) :
                checkpoints'[e][i] \in 1..height'[e]
    BY <1>1, <2>1, PrunedIs
  <2>5. Typed'
    BY <1>1, <1>2, <1>8, <2>3, <2>4 DEF Typed
  <2> QED
    BY <2>3, <2>5 DEF CoreInv
<1>10. CASE ~ applied
  <2>1. /\ contracts' = [contracts EXCEPT ![d] = g] /\ UNCHANGED <<height, checkpoints>>
    BY <1>2, <1>10
  <2>2. height' = [height EXCEPT ![d] = height[d]] /\ height[d] \in 0..Len(chain) /\ UNCHANGED chain
    BY <1>1, <1>2, <1>3, <2>1
  <2> HIDE DEF applied
  <2>3. /\ Following' /\ Replicas'
        /\ contracts' \in [Devices -> Tables] /\ height' \in [Devices -> Nat]
        /\ \A e \in Devices : height'[e] <= Len(chain')
    BY <1>6, <2>1, <2>2, SameChain
  <2>4. Typed'
    BY <1>1, <1>2, <1>8, <2>1, <2>3 DEF Typed
  <2> QED
    BY <2>3, <2>4 DEF CoreInv
<1> QED
  BY <1>9, <1>10

LEMMA CoreFetch ==
    ASSUME CoreInv, NEW d \in Devices, NEW e \in Devices, FetchCheckpoint(d, e)
    PROVE  CoreInv'
<1> DEFINE fits == height[e] = Offset(e)
           k == IF fits THEN height[e] ELSE 0
           g == IF fits THEN TempDiscarded(contracts[e]) ELSE NoTable
           c == IF fits THEN checkpoints[e] ELSE <<>>
<1>1. /\ height \in [Devices -> Nat] /\ contracts \in [Devices -> Tables]
      /\ checkpoints \in [Devices -> Seq(Nat)] /\ pool \in [Devices -> Seq(Txs)]
      /\ height[e] <= Len(chain) /\ Len(chain) \in Nat
      /\ Matching(contracts[e]) /\ Root(contracts[e]) = RootAt(height[e])
      /\ \A q \in Devices : \A i \in 1..Len(checkpoints[q]) : checkpoints[q][i] \in 1..height[q]
  BY LenProperties DEF CoreInv, Typed, Replicas
<1>2. /\ height' = [height EXCEPT ![d] = k]
      /\ contracts' = [contracts EXCEPT ![d] = g]
      /\ checkpoints' = [checkpoints EXCEPT ![d] = c]
      /\ pool' = [pool EXCEPT ![d] = <<>>]
      /\ UNCHANGED <<chain, cache, sent>>
  BY DEF FetchCheckpoint, Emptied
<1>3. /\ k \in 0..Len(chain) /\ g \in Tables /\ Matching(g) /\ Root(g) = RootAt(k)
      /\ c \in Seq(Nat) /\ \A i \in 1..Len(c) : c[i] \in 1..k
  <2>1. CASE fits
    <3>1. contracts[e] \in Tables
      BY <1>1
    <3>2. /\ TempDiscarded(contracts[e]) \in Tables /\ Matching(TempDiscarded(contracts[e]))
          /\ Root(TempDiscarded(contracts[e])) = Root(contracts[e])
      BY <1>1, <3>1, DiscardedIs
    <3>3. k = height[e] /\ g = TempDiscarded(contracts[e]) /\ c = checkpoints[e]
      BY <2>1
    <3> HIDE DEF k, g, c, fits
    <3> QED
      BY <1>1, <3>2, <3>3
  <2>2. CASE ~ fits
    <3>1. k = 0 /\ g = NoTable /\ c = <<>>
      BY <2>2
    <3> HIDE DEF k, g, c, fits
    <3> QED
      BY <1>1, <3>1, NothingIs
  <2> QED
    BY <2>1, <2>2
<1> HIDE DEF k, g, c, fits
<1>4. /\ Following' /\ Replicas'
      /\ contracts' \in [Devices -> Tables] /\ height' \in [Devices -> Nat]
      /\ \A q \in Devices : height'[q] <= Len(chain')
  BY <1>2, <1>3, SameChain
<1>5. /\ checkpoints' \in [Devices -> Seq(Nat)]
      /\ \A q \in Devices : \A i \in 1..Len(checkpoints'[q]) :
            checkpoints'[q][i] \in 1..height'[q]
  BY <1>1, <1>2, <1>3
<1>6. pool' \in [Devices -> Seq(Txs)]
  BY <1>1, <1>2
<1>7. Typed'
  BY <1>2, <1>4, <1>5, <1>6 DEF CoreInv, Typed
<1> QED
  BY <1>4, <1>7 DEF CoreInv

LEMMA CoreReboot ==
    ASSUME CoreInv, NEW d \in Devices, Reboot(d)
    PROVE  CoreInv'
<1>1. /\ height \in [Devices -> Nat] /\ contracts \in [Devices -> Tables]
      /\ cache \in [Devices -> Caches] /\ \A e \in Devices : CacheOK(cache[e])
      /\ checkpoints \in [Devices -> Seq(Nat)] /\ pool \in [Devices -> Seq(Txs)]
      /\ \A q \in Devices : \A i \in 1..Len(checkpoints[q]) : checkpoints[q][i] \in 1..height[q]
      /\ 0 \in 0..Len(chain)
  BY LenProperties DEF CoreInv, Typed
<1>2. /\ height' = [height EXCEPT ![d] = 0]
      /\ contracts' = [contracts EXCEPT ![d] = NoTable]
      /\ cache' = [cache EXCEPT ![d] = NoTable]
      /\ pool' = [pool EXCEPT ![d] = <<>>]
      /\ checkpoints' = [checkpoints EXCEPT ![d] = <<>>]
      /\ UNCHANGED <<chain, sent>>
  BY DEF Reboot
<1>3. NoTable \in Tables /\ NoTable \in Caches /\ CacheOK(NoTable)
  BY NothingIs DEF CacheOK
<1>4. /\ Following' /\ Replicas'
      /\ contracts' \in [Devices -> Tables] /\ height' \in [Devices -> Nat]
      /\ \A q \in Devices : height'[q] <= Len(chain')
  BY <1>1, <1>2, NothingIs, SameChain
<1>5. cache' \in [Devices -> Caches] /\ \A e \in Devices : CacheOK(cache'[e])
  BY <1>1, <1>2, <1>3
<1>6. /\ checkpoints' \in [Devices -> Seq(Nat)] /\ pool' \in [Devices -> Seq(Txs)]
      /\ \A q \in Devices : \A i \in 1..Len(checkpoints'[q]) :
            checkpoints'[q][i] \in 1..height'[q]
  BY <1>1, <1>2
<1>7. Typed'
  BY <1>2, <1>4, <1>5, <1>6 DEF CoreInv, Typed
<1> QED
  BY <1>4, <1>7 DEF CoreInv

LEMMA CoreStep ==
    ASSUME CoreInv, [Next]_vars
    PROVE  CoreInv'
<1>1. CASE UNCHANGED vars
  <2>1. /\ cache' \in [Devices -> Caches] /\ \A d \in Devices : CacheOK(cache'[d])
        /\ pool' \in [Devices -> Seq(Txs)] /\ sent' \subseteq Offers
    BY <1>1 DEF vars, CoreInv, Typed
  <2> QED
    BY <1>1, <2>1, CoreSame DEF vars
<1>2. ASSUME Next
      PROVE  CoreInv'
  BY <1>2, CoreDeploy, CoreCall, CoreHearTx, CoreHearInfo, CoreProduce, CoreReceive, CoreFetch,
     CoreReboot DEF Next
<1> QED
  BY <1>1, <1>2
-----------------------------------------------------------------------------
(* Each step keeps the code where it belongs *)

LEMMA ProducersAre ==
    ASSUME Typed, NEW i \in 1..Len(chain)
    PROVE  chain[i].by \in Devices
<1>1. chain[i] \in Blocks
  BY ElementOfSeq DEF Typed
<1> QED
  BY <1>1 DEF Blocks

\* The calls of the first k blocks stay the same.
LEMMA SameCalls ==
    ASSUME Typed, NEW b, chain' = chain \/ chain' = Append(chain, b), NEW n,
           NEW k \in 0..Len(chain)
    PROVE  Called(n, k)' <=> Called(n, k)
<1>1. chain \in Seq(Blocks)
  BY DEF Typed
<1>2. Len(chain) \in Nat
  BY <1>1, LenProperties
<1>3. ASSUME NEW i \in 1..k
      PROVE  chain'[i] = chain[i]
  <2>1. i \in 1..Len(chain)
    BY <1>2
  <2> QED
    BY <1>1, <2>1
<1> QED
  BY <1>3 DEF Called

\* A device that does not move.
LEMMA OtherKeeps ==
    ASSUME Typed, NEW e \in Devices, Keeps(e), NEW b, chain' = chain \/ chain' = Append(chain, b),
           height'[e] = height[e], contracts'[e] = contracts[e], cache'[e] = cache[e],
           pool'[e] = pool[e], restored \subseteq restored', sent \subseteq sent'
    PROVE  Keeps(e)'
<1>1. height[e] \in 0..Len(chain)
  BY LenProperties DEF Typed
<1>2. \A n : Called(n, height[e])' => Called(n, height[e])
  <2>1. \A n : Called(n, height[e])' <=> \A k : k = height[e] => Called(n, k)'
    BY DEF Called
  <2> QED
    BY <1>1, <2>1, SameCalls
<1>3. (Steady(e)' => Steady(e)) /\ \A n : Offering(e, n) => Offering(e, n)'
  BY DEF Steady, Offering
<1>4. PoolBacked(e)'
  BY DEF Keeps, PoolBacked
<1>5. OwnCodes(e)'
  BY <1>3 DEF Keeps, OwnCodes
<1>6. OwnLoans(e, contracts[e])'
  BY <1>3 DEF Keeps, OwnLoans
<1>7. CalledThere(e, contracts[e])'
  BY <1>2, <1>3 DEF Keeps, CalledThere
<1>8. HostThere(e, contracts[e])'
  BY <1>3 DEF Keeps, HostThere
<1> QED
  BY <1>4, <1>5, <1>6, <1>7, <1>8 DEF Keeps

\* A device whose cache or pool alone changes.
LEMMA CacheKeeps ==
    ASSUME Typed, NEW e \in Devices, Keeps(e), UNCHANGED <<chain, height, contracts, restored>>,
           sent \subseteq sent', PoolBacked(e)', OwnCodes(e)'
    PROVE  Keeps(e)'
<1>1. Steady(e)' <=> Steady(e)
  BY DEF Steady
<1>2. \A n : Offering(e, n) => Offering(e, n)'
  BY DEF Offering
<1>3. \A n : Called(n, height[e])' <=> Called(n, height[e])
  BY DEF Called
<1>4. OwnLoans(e, contracts[e])'
  BY <1>2 DEF Keeps, OwnLoans
<1>5. CalledThere(e, contracts[e])'
  BY <1>1, <1>2, <1>3 DEF Keeps, CalledThere
<1>6. HostThere(e, contracts[e])'
  BY <1>1 DEF Keeps, HostThere
<1> QED
  BY <1>4, <1>5, <1>6 DEF Keeps

LEMMA OwnAppliedSame ==
    ASSUME OwnApplied, UNCHANGED <<chain, height>>, restored \subseteq restored'
    PROVE  OwnApplied'
BY DEF OwnApplied, Steady

LEMMA KeepDeploy ==
    ASSUME CoreInv, KeepInv, NEW d \in Devices, NEW m \in Offers, Deploy(d, m)
    PROVE  KeepInv'
<1> DEFINE t == DeployTx(m.name, m.code)
           f == Store(cache[d], m.name, m.code)
<1>1. /\ m.name \in Names /\ m.code \in Codes /\ m.from = d
      /\ Typed /\ cache \in [Devices -> Caches] /\ CacheOK(cache[d])
      /\ pool \in [Devices -> Seq(Txs)]
  BY CodeCacheAssumption DEF CoreInv, Typed, Deploy
<1>2. /\ CacheOK(f) /\ Backed(f, m.name)
      /\ \A n \in Names \ {m.name} : HasCode(f, n) <=> HasCode(cache[d], n)
      /\ \A n \in Names : Backed(cache[d], n) => Backed(f, n)
  BY <1>1, StoreIs
<1>3. /\ cache' = [cache EXCEPT ![d] = f] /\ sent' = sent \cup {m}
      /\ pool' = [pool EXCEPT ![d] = Append(@, t)]
      /\ UNCHANGED <<chain, height, contracts, restored>>
  BY DEF Deploy, Submit, DeployTx
<1> HIDE DEF f
<1>4. /\ cache'[d] = f /\ pool'[d] = Append(pool[d], t)
      /\ \A e \in Devices \ {d} : cache'[e] = cache[e] /\ pool'[e] = pool[e]
  BY <1>1, <1>3
<1>5. Keeps(d)
  BY DEF KeepInv
<1>6. PoolBacked(d)'
  <2> SUFFICES ASSUME d \notin Rebooters, NEW j \in 1..Len(pool'[d]), NEW n \in Names,
                      NEW c \in Codes, pool'[d][j] = DeployTx(n, c)
               PROVE  Backed(f, n)
    BY <1>4 DEF PoolBacked
  <2>1. CASE j \in 1..Len(pool[d])
    <3>1. pool'[d][j] = pool[d][j]
      BY <1>1, <1>4, <2>1
    <3> QED
      BY <1>2, <1>5, <2>1, <3>1 DEF Keeps, PoolBacked
  <2>2. CASE j = Len(pool[d]) + 1
    <3>1. pool'[d][j] = t
      BY <1>1, <1>4, <2>2
    <3>2. n = m.name
      BY <3>1 DEF DeployTx
    <3> QED
      BY <1>2, <3>2
  <2>3. j \in 1..Len(pool[d]) \/ j = Len(pool[d]) + 1
    BY <1>1, <1>4
  <2> QED
    BY <2>1, <2>2, <2>3
<1>7. OwnCodes(d)'
  <2> SUFFICES ASSUME NEW n, HasCode(f, n)
               PROVE  Offering(d, n)'
    BY <1>4 DEF OwnCodes
  <2>1. CASE n = m.name
    BY <1>1, <1>3, <2>1 DEF Offering
  <2>2. CASE n # m.name
    <3>1. HasCode(cache[d], n)
      BY <1>2, <2>2 DEF HasCode, Known
    <3> QED
      BY <1>3, <1>5, <3>1 DEF Keeps, OwnCodes, Offering
  <2> QED
    BY <2>1, <2>2
<1>8. ASSUME NEW e \in Devices PROVE Keeps(e)'
  <2>1. CASE e = d
    BY <1>1, <1>3, <1>5, <1>6, <1>7, <2>1, CacheKeeps
  <2>2. CASE e # d
    BY <1>1, <1>3, <1>4, <2>2, OtherKeeps DEF KeepInv
  <2> QED
    BY <2>1, <2>2
<1> QED
  BY <1>3, <1>8, OwnAppliedSame DEF KeepInv

LEMMA KeepCall ==
    ASSUME CoreInv, KeepInv, NEW d \in Devices, NEW n \in Names, Call(d, n)
    PROVE  KeepInv'
<1>1. /\ Typed /\ pool \in [Devices -> Seq(Txs)] /\ Keeps(d)
  BY DEF CoreInv, Typed, KeepInv
<1>2. /\ pool' = [pool EXCEPT ![d] = Append(@, CallTx(n))]
      /\ UNCHANGED <<chain, height, contracts, restored, cache, sent>>
  BY DEF Call, Submit, CallTx
<1>3. /\ pool'[d] = Append(pool[d], CallTx(n))
      /\ \A e \in Devices \ {d} : pool'[e] = pool[e]
  BY <1>1, <1>2
<1>4. PoolBacked(d)'
  <2> SUFFICES ASSUME d \notin Rebooters, NEW j \in 1..Len(pool'[d]), NEW o \in Names,
                      NEW c \in Codes, pool'[d][j] = DeployTx(o, c)
               PROVE  Backed(cache[d], o)
    BY <1>2 DEF PoolBacked
  <2>1. CASE j \in 1..Len(pool[d])
    <3>1. pool'[d][j] = pool[d][j]
      BY <1>1, <1>3, <2>1
    <3> QED
      BY <1>1, <2>1, <3>1 DEF Keeps, PoolBacked
  <2>2. CASE j = Len(pool[d]) + 1
    <3>1. pool'[d][j] = CallTx(n)
      BY <1>1, <1>3, <2>2
    <3> QED
      BY <3>1 DEF DeployTx, CallTx
  <2>3. j \in 1..Len(pool[d]) \/ j = Len(pool[d]) + 1
    BY <1>1, <1>3
  <2> QED
    BY <2>1, <2>2, <2>3
<1>5. OwnCodes(d)'
  BY <1>1, <1>2 DEF Keeps, OwnCodes, Offering
<1>6. ASSUME NEW e \in Devices PROVE Keeps(e)'
  <2>1. CASE e = d
    BY <1>1, <1>2, <1>4, <1>5, <2>1, CacheKeeps
  <2>2. CASE e # d
    BY <1>1, <1>2, <1>3, <2>2, OtherKeeps DEF KeepInv
  <2> QED
    BY <2>1, <2>2
<1> QED
  BY <1>2, <1>6, OwnAppliedSame DEF KeepInv

\* Metadata disturbs nothing.
LEMMA KeepMeta ==
    ASSUME CoreInv, KeepInv, NEW d \in Devices, NEW f, Later(cache[d], f),
           cache' = [cache EXCEPT ![d] = f],
           UNCHANGED <<chain, height, contracts, restored, pool, sent>>
    PROVE  KeepInv'
<1>1. /\ Typed /\ Keeps(d) /\ cache'[d] = f
      /\ \A e \in Devices \ {d} : cache'[e] = cache[e]
  BY DEF CoreInv, Typed, KeepInv
<1>2. PoolBacked(d)'
  BY <1>1 DEF Keeps, PoolBacked, Later
<1>3. OwnCodes(d)'
  BY <1>1 DEF Keeps, OwnCodes, Later, Offering
<1>4. ASSUME NEW e \in Devices PROVE Keeps(e)'
  <2>1. CASE e = d
    BY <1>1, <1>2, <1>3, <2>1, CacheKeeps
  <2>2. CASE e # d
    BY <1>1, <2>2, OtherKeeps DEF KeepInv
  <2> QED
    BY <2>1, <2>2
<1> QED
  BY <1>4, OwnAppliedSame DEF KeepInv

LEMMA KeepHearTx ==
    ASSUME CoreInv, KeepInv, NEW d \in Devices, NEW m \in sent, HearTx(d, m)
    PROVE  KeepInv'
<1>1. CacheOK(cache[d]) /\ m.name \in Names /\ m.code \in Codes
  BY CodeCacheAssumption DEF CoreInv, Typed
<1>2. Later(cache[d], StoreMeta(cache[d], m.name, m.code))
  BY <1>1, StoreMetaIs
<1> QED
  BY <1>2, KeepMeta DEF HearTx

LEMMA KeepHearInfo ==
    ASSUME CoreInv, KeepInv, NEW d \in Devices, NEW e \in Devices, NEW n \in Names,
           HearInfo(d, e, n)
    PROVE  KeepInv'
<1>1. CacheOK(cache[d]) /\ contracts[e][n].hash \in Codes /\ contracts' = contracts
  BY CoreHearInfo, HeardInfo DEF CoreInv, Typed
<1>2. Later(cache[d], StoreMeta(cache[d], n, contracts[e][n].hash))
  BY <1>1, StoreMetaIs
<1> QED
  BY <1>1, <1>2, KeepMeta DEF HearInfo

\* What fetching and executing leave of the code that was there.
LEMMA TriedKeeps ==
    ASSUME Typed, NEW d \in Devices, NEW entries, NEW txs, NEW by, NEW g, NEW r,
           Tried(d, entries, txs, by, g, r)
    PROVE  /\ \A n \in Known(contracts[d]) :
                /\ n \in Known(g) /\ g[n].host = contracts[d][n].host
                /\ contracts[d][n].code # Absent => g[n] = contracts[d][n]
           /\ \A n \in Known(g) :
                /\ n \in Known(contracts[d])
                /\ d \in Validators /\ g[n].temp =>
                        contracts[d][n].temp \/ HasCode(entries, n)
                /\ n \in Known(r.table) /\ r.table[n].host = g[n].host
                /\ r.table[n].code = g[n].code /\ r.table[n].temp = g[n].temp
           /\ \A n \in Known(r.table) \ Known(g) :
                NewContract(r.table[n], n, entries, txs, r.done, by)
<1>1. /\ Refetched(contracts[d], g, d, entries) /\ g \in Tables
      /\ Executed(g, r.table, r.done, r.lacks, entries, txs, by)
  BY DEF Tried
<1>2. /\ Known(g) = Known(contracts[d])
      /\ \A n \in Known(g) : Fetched(contracts[d][n], g[n], d, HasCode(entries, n))
  BY <1>1 DEF Refetched
<1>3. ASSUME NEW n \in Known(g)
      PROVE  /\ n \in Known(r.table) /\ r.table[n].host = g[n].host
             /\ r.table[n].code = g[n].code /\ r.table[n].temp = g[n].temp
  BY <1>1 DEF Executed, Ran
<1>4. \A n \in Known(r.table) \ Known(g) : NewContract(r.table[n], n, entries, txs, r.done, by)
  BY <1>1 DEF Executed
<1>5. ASSUME NEW n \in Known(g)
      PROVE  /\ g[n].host = contracts[d][n].host
             /\ contracts[d][n].code # Absent => g[n] = contracts[d][n]
             /\ d \in Validators /\ g[n].temp => contracts[d][n].temp \/ HasCode(entries, n)
  BY <1>2 DEF Fetched
<1> QED
  BY <1>2, <1>3, <1>4, <1>5

\* d borrows code from its own cache only.
LEMMA LoansKept ==
    ASSUME Typed, NEW d \in Devices, Keeps(d), NEW entries, NEW txs, NEW by, NEW g, NEW r,
           Tried(d, entries, txs, by, g, r),
           \A n : HasCode(entries, n) <=> HasCode(cache[d], n)
    PROVE  OwnLoans(d, g) /\ OwnLoans(d, r.table)
<1> USE TriedKeeps
<1>1. OwnLoans(d, g)
  BY DEF Keeps, OwnLoans, OwnCodes
<1>2. OwnLoans(d, r.table)
  BY <1>1 DEF OwnLoans, NewContract
<1> QED
  BY <1>1, <1>2

LEMMA KeepProduce ==
    ASSUME CoreInv, KeepInv, NEW d \in Devices, NEW R \in SUBSET (Devices \ {d}), Produce(d, R)
    PROVE  KeepInv'
<1> DEFINE txs == Taken(d)
           g == Prefetch(d, cache[d], txs, R)
           r == Execute(g, cache[d], txs, d)
           b == [by |-> d, txs |-> SubSeq(txs, 1, r.done), root |-> Root(r.table),
                 lacks |-> r.lacks]
<1>1. /\ Typed /\ chain \in Seq(Blocks) /\ Len(chain) \in Nat
      /\ height \in [Devices -> Nat] /\ \A e \in Devices : height[e] <= Len(chain)
      /\ contracts \in [Devices -> Tables]
      /\ cache \in [Devices -> Caches] /\ pool \in [Devices -> Seq(Txs)]
      /\ Keeps(d)
  BY LenProperties DEF CoreInv, Typed, KeepInv
<1>2. /\ height[d] = Len(chain) /\ pool[d] # <<>>
      /\ contracts' = [contracts EXCEPT ![d] = r.table]
      /\ pool' = [pool EXCEPT ![d] = SubSeq(@, Len(txs) + 1, Len(@))]
      /\ IF r.done = 0 THEN UNCHANGED <<chain, height, checkpoints>>
         ELSE /\ chain' = Append(chain, b)
              /\ height' = [height EXCEPT ![d] = @ + 1]
              /\ checkpoints' = Pruned(d)
      /\ UNCHANGED <<cache, sent, restored>>
  BY DEF Produce, Taken
<1>3. /\ txs \in Seq(Txs) /\ Len(txs) \in 1..MaxTxns /\ Len(txs) <= Len(pool[d])
      /\ \A i \in 1..Len(txs) : txs[i] = pool[d][i]
  BY <1>1, <1>2, TakenIs
<1> HIDE DEF txs
<1>4. Tried(d, cache[d], txs, d, g, r)
  BY <1>1, <1>3, TriedIs
<1> HIDE DEF g, r
<1>5. /\ contracts'[d] = r.table /\ \A e \in Devices \ {d} : contracts'[e] = contracts[e]
      /\ pool'[d] = SubSeq(pool[d], Len(txs) + 1, Len(pool[d]))
      /\ \A e \in Devices \ {d} : pool'[e] = pool[e] /\ height'[e] = height[e]
  BY <1>1, <1>2
<1>6. /\ b.by = d /\ b.txs = SubSeq(txs, 1, r.done)
      /\ chain' = chain \/ chain' = Append(chain, b)
      /\ r.done \in 0..Len(txs)
  BY <1>2, <1>4 DEF Tried
<1> HIDE DEF b
<1>7. OwnApplied'
  <2>1. CASE r.done = 0
    BY <1>2, <2>1, OwnAppliedSame DEF KeepInv
  <2>2. CASE r.done # 0
    <3>0. \A i \in 1..Len(chain) : chain[i].by \in Devices
      BY <1>1, ProducersAre
    <3>a. chain' = Append(chain, b) /\ height'[d] = height[d] + 1
      BY <1>1, <1>2, <2>2
    <3>b. Len(chain') = Len(chain) + 1 /\ chain'[Len(chain) + 1] = b
      BY <1>1, <3>a
    <3>c. \A i \in 1..Len(chain) : chain'[i] = chain[i]
      BY <1>1, <3>a
    <3>1. /\ Len(chain') = Len(chain) + 1 /\ chain'[Len(chain) + 1] = b
          /\ \A i \in 1..Len(chain) : chain'[i] = chain[i] /\ chain[i].by \in Devices
          /\ height'[d] = Len(chain) + 1
      BY <1>2, <3>0, <3>a, <3>b, <3>c
    <3> SUFFICES ASSUME NEW i \in 1..Len(chain'), Steady(chain'[i].by)
                 PROVE  i <= height'[chain'[i].by]
      BY <1>2 DEF OwnApplied, Steady
    <3>2. CASE i = Len(chain) + 1
      BY <1>1, <1>6, <3>1, <3>2
    <3>3. CASE i \in 1..Len(chain)
      <4>1. i <= height[chain[i].by]
        BY <3>1, <3>3 DEF KeepInv, OwnApplied
      <4>2. CASE chain[i].by = d
        BY <1>1, <3>1, <3>3, <4>2
      <4>3. CASE chain[i].by # d
        BY <1>5, <3>1, <3>3, <4>1, <4>3
      <4> QED
        BY <4>2, <4>3
    <3> QED
      BY <1>1, <3>1, <3>2, <3>3
  <2> QED
    BY <2>1, <2>2
<1>8. PoolBacked(d)'
  <2>1. /\ Len(pool[d]) \in Nat /\ Len(txs) \in Nat
        /\ \A j \in 1..Len(pool'[d]) : /\ pool'[d][j] = pool[d][Len(txs) + j]
                                       /\ Len(txs) + j \in 1..Len(pool[d])
    BY <1>1, <1>3, <1>5
  <2> QED
    BY <1>1, <1>2, <2>1 DEF Keeps, PoolBacked
<1>9. OwnCodes(d)'
  BY <1>1, <1>2 DEF Keeps, OwnCodes, Offering
<1>10. OwnLoans(d, contracts[d])'
  <2>1. OwnLoans(d, r.table)
    BY <1>1, <1>4, LoansKept
  <2> QED
    BY <1>2, <1>5, <2>1 DEF OwnLoans, Offering
<1>11. CalledThere(d, contracts[d])'
  <2> SUFFICES ASSUME d \in Validators, Steady(d), NEW n \in Names, Called(n, height[d])',
                      ~ Offering(d, n)
               PROVE  n \in Known(r.table) /\ r.table[n].code # Absent
    BY <1>2, <1>5 DEF CalledThere, Steady, Offering
  <2>1. ASSUME Called(n, height[d])
        PROVE  n \in Known(r.table) /\ r.table[n].code # Absent
    <3>1. CalledThere(d, contracts[d])
      BY <1>1 DEF Keeps
    <3>2. n \in Known(contracts[d]) /\ contracts[d][n].code # Absent
      BY <2>1, <3>1 DEF CalledThere
    <3>3. Typed
      BY <1>1
    <3> QED
      BY <1>4, <3>2, <3>3, TriedKeeps
  <2>2. CASE r.done = 0
    BY <1>2, <2>1, <2>2 DEF Called
  <2>3. CASE r.done # 0
    <3>1. /\ chain' = Append(chain, b) /\ height'[d] = Len(chain) + 1
      BY <1>1, <1>2, <2>3
    <3>2. PICK i \in 1..Len(chain) + 1 : CallTx(n) \in Range(chain'[i].txs)
      BY <3>1 DEF Called, CallTx
    <3>3. CASE i \in 1..Len(chain)
      <4>1. chain'[i] = chain[i]
        BY <1>1, <3>1, <3>3
      <4>2. Called(n, height[d])
        BY <1>2, <3>2, <3>3, <4>1 DEF Called, CallTx
      <4> QED
        BY <2>1, <4>2
    <3>4. CASE i = Len(chain) + 1
      <4>1. chain'[i] = b
        BY <1>1, <3>1, <3>4
      <4>2. /\ SubSeq(txs, 1, r.done) \in Seq(Txs) /\ Len(SubSeq(txs, 1, r.done)) = r.done
            /\ \A j \in 1..r.done : SubSeq(txs, 1, r.done)[j] = txs[j]
        BY <1>3, <1>6, PartIs
      <4>3. DOMAIN b.txs = 1..r.done
        BY <1>6, <4>2, LenProperties
      <4>4. PICK j \in 1..r.done : txs[j] = CallTx(n)
        BY <1>6, <3>2, <4>1, <4>2, <4>3 DEF Range
      <4> QED
        BY <1>4, <4>4 DEF Tried, Executed
    <3> QED
      BY <1>1, <3>2, <3>3, <3>4
  <2> QED
    BY <2>2, <2>3
<1>12. HostThere(d, contracts[d])'
  <2> SUFFICES ASSUME Steady(d), NEW n \in Known(r.table), r.table[n].host = d
               PROVE  r.table[n].code # Absent /\ ~ r.table[n].temp
    BY <1>2, <1>5 DEF HostThere, Steady
  <2>1. CASE n \in Known(g)
    <3>1. n \in Known(contracts[d]) /\ contracts[d][n].host = d
      BY <1>1, <1>4, <2>1, TriedKeeps
    <3>2. contracts[d][n].code # Absent /\ ~ contracts[d][n].temp
      BY <1>1, <3>1 DEF Keeps, HostThere
    <3>3. g[n] = contracts[d][n]
      BY <1>1, <1>4, <3>1, <3>2, TriedKeeps
    <3> QED
      BY <1>1, <1>4, <2>1, <3>2, <3>3, TriedKeeps
  <2>2. CASE n \notin Known(g)
    <3> DEFINE c == r.table[n]
    <3>1. NewContract(c, n, cache[d], txs, r.done, d)
      BY <1>1, <1>4, <2>2, TriedKeeps
    <3>2. PICK j \in 1..r.done : txs[j] = DeployTx(n, c.hash)
      BY <3>1 DEF NewContract
    <3>3. j \in 1..Len(txs) /\ j \in 1..Len(pool[d])
      BY <1>1, <1>3, <1>6, <3>2
    <3>4. pool[d][j] = DeployTx(n, c.hash) /\ n \in Names /\ c.hash \in Codes
      BY <1>3, <3>1, <3>2, <3>3 DEF NewContract, Contracts, Known
    <3>5. Backed(cache[d], n) /\ n \in Known(cache[d])
      BY <1>1, <3>1, <3>3, <3>4 DEF Keeps, PoolBacked, Steady, NewContract
    <3>6. HasCode(cache[d], n)
      BY <3>5 DEF Backed, HasCode
    <3>7. c.code = c.hash /\ ~ c.temp
      BY <3>1, <3>6 DEF NewContract
    <3> QED
      BY <3>4, <3>7, CodeCacheAssumption
  <2> QED
    BY <2>1, <2>2
<1>13. ASSUME NEW e \in Devices PROVE Keeps(e)'
  <2>1. CASE e = d
    BY <1>8, <1>9, <1>10, <1>11, <1>12, <2>1 DEF Keeps
  <2>2. CASE e # d
    BY <1>1, <1>2, <1>5, <1>6, <2>2, OtherKeeps DEF KeepInv
  <2> QED
    BY <2>1, <2>2
<1> QED
  BY <1>7, <1>13 DEF KeepInv

LEMMA KeepReceive ==
    ASSUME CoreInv, KeepInv, NEW d \in Devices, NEW R \in SUBSET (Devices \ {d}), Receive(d, R)
    PROVE  KeepInv'
<1> DEFINE txs == NextBlock(d).txs
           by == NextBlock(d).by
           entries == StoreDeploys(cache[d], txs)
           g == Prefetch(d, entries, txs, R)
           r == Execute(g, entries, txs, by)
           h == TempDiscarded(r.table)
           applied == r.done = Len(txs) /\ Root(r.table) = NextBlock(d).root
<1>1. /\ Typed /\ chain \in Seq(Blocks) /\ Len(chain) \in Nat
      /\ height \in [Devices -> Nat] /\ contracts \in [Devices -> Tables]
      /\ cache \in [Devices -> Caches] /\ CacheOK(cache[d])
      /\ Keeps(d)
  BY LenProperties DEF CoreInv, Typed, KeepInv
<1>2. /\ height[d] < Len(chain)
      /\ cache' = [cache EXCEPT ![d] = entries]
      /\ applied => /\ contracts' = [contracts EXCEPT ![d] = h]
                    /\ height' = [height EXCEPT ![d] = @ + 1]
      /\ ~ applied => contracts' = [contracts EXCEPT ![d] = g] /\ UNCHANGED height
      /\ UNCHANGED <<chain, pool, sent, restored>>
  BY DEF Receive
<1>3. /\ height[d] \in Nat /\ height[d] + 1 \in 1..Len(chain)
      /\ txs \in Seq(Txs) /\ by \in Devices
      /\ txs = chain[height[d] + 1].txs /\ by = chain[height[d] + 1].by
  BY <1>1, <1>2, NextIs DEF NextBlock
<1> HIDE DEF txs, by
<1>4. Later(cache[d], entries)
  BY <1>1, <1>3, StoreDeploysIs
<1>5. entries \in Caches /\ \A n : HasCode(entries, n) <=> HasCode(cache[d], n)
  BY <1>4 DEF Later, CacheOK
<1> HIDE DEF entries
<1>6. Tried(d, entries, txs, by, g, r)
  BY <1>3, <1>5, TriedIs
<1> HIDE DEF g, r
<1>7. r.table \in Tables
  BY <1>6 DEF Tried
<1>8. /\ Known(h) = Known(r.table)
      /\ \A n \in Known(h) : ~ h[n].temp /\ (~ r.table[n].temp => h[n] = r.table[n])
  BY <1>7, DiscardedIs
<1> HIDE DEF h
<1>9. /\ cache'[d] = entries /\ pool'[d] = pool[d]
      /\ applied => contracts'[d] = h /\ height'[d] = height[d] + 1
      /\ ~ applied => contracts'[d] = g /\ height'[d] = height[d]
      /\ \A e \in Devices \ {d} : /\ contracts'[e] = contracts[e] /\ cache'[e] = cache[e]
                                  /\ height'[e] = height[e] /\ pool'[e] = pool[e]
      /\ \A e \in Devices : height'[e] >= height[e]
  BY <1>1, <1>2, <1>3
<1> HIDE DEF applied
<1>10. OwnApplied'
  <2> SUFFICES ASSUME NEW i \in 1..Len(chain), Steady(chain[i].by)
               PROVE  i <= height'[chain[i].by]
    BY <1>2 DEF OwnApplied, Steady
  <2>1. i <= height[chain[i].by]
    BY DEF KeepInv, OwnApplied
  <2>2. chain[i].by \in Devices
    BY <1>1, ProducersAre
  <2>3. height[chain[i].by] \in Nat /\ height'[chain[i].by] \in Nat
    <3>1. \A e \in Devices : height[e] \in Nat
      BY <1>1
    <3>2. \A e \in Devices : height'[e] \in {height[e], height[e] + 1}
      BY <1>9
    <3> QED
      BY <2>2, <3>1, <3>2
  <2> QED
    BY <1>9, <2>1, <2>2, <2>3
<1>11. PoolBacked(d)'
  BY <1>1, <1>4, <1>9 DEF Keeps, PoolBacked, Later
<1>12. OwnCodes(d)'
  BY <1>1, <1>2, <1>5, <1>9 DEF Keeps, OwnCodes, Offering
<1>13. OwnLoans(d, g) /\ OwnLoans(d, r.table)
  BY <1>1, <1>5, <1>6, LoansKept
<1>14. OwnLoans(d, contracts[d])'
  BY <1>2, <1>8, <1>9, <1>13 DEF OwnLoans, Offering
<1>15. CalledThere(d, contracts[d])'
  <2> SUFFICES ASSUME d \in Validators, Steady(d), NEW n \in Names, Called(n, height[d])',
                      ~ Offering(d, n)
               PROVE  n \in Known(contracts'[d]) /\ contracts'[d][n].code # Absent
    BY <1>2, <1>9 DEF CalledThere, Steady, Offering
  <2>1. ASSUME n \in Known(r.table), r.table[n].code # Absent
        PROVE  n \in Known(h) /\ h[n].code # Absent
    BY <1>8, <1>13, <2>1 DEF OwnLoans
  <2>2. ASSUME Called(n, height[d])
        PROVE  /\ n \in Known(g) /\ g[n].code # Absent
               /\ n \in Known(h) /\ h[n].code # Absent
    <3>1. n \in Known(contracts[d]) /\ contracts[d][n].code # Absent
      BY <1>1, <2>2 DEF Keeps, CalledThere
    <3>2. n \in Known(g) /\ g[n].code # Absent
      BY <1>1, <1>6, <3>1, TriedKeeps
    <3>3. n \in Known(r.table) /\ r.table[n].code # Absent
      BY <1>1, <1>6, <3>2, TriedKeeps
    <3> QED
      BY <2>1, <3>2, <3>3
  <2>3. CASE ~ applied
    BY <1>2, <1>9, <2>2, <2>3 DEF Called
  <2>4. CASE applied
    <3>1. PICK i \in 1..height[d] + 1 : CallTx(n) \in Range(chain[i].txs)
      BY <1>2, <1>9, <2>4 DEF Called, CallTx
    <3>2. CASE i \in 1..height[d]
      <4>1. Called(n, height[d])
        BY <3>1, <3>2 DEF Called, CallTx
      <4> QED
        BY <1>9, <2>2, <2>4, <4>1
    <3>3. CASE i = height[d] + 1
      <4>1. DOMAIN txs = 1..Len(txs) /\ r.done = Len(txs)
        BY <1>3, <2>4, LenProperties DEF applied
      <4>2. PICK j \in 1..r.done : txs[j] = CallTx(n)
        BY <1>3, <3>1, <3>3, <4>1 DEF Range
      <4>3. n \in Known(r.table) /\ r.table[n].code # Absent
        BY <1>6, <4>2 DEF Tried, Executed
      <4> QED
        BY <1>9, <2>1, <2>4, <4>3
    <3> QED
      BY <1>3, <3>1, <3>2, <3>3
  <2> QED
    BY <2>3, <2>4
<1>16. HostThere(d, contracts[d])'
  <2> SUFFICES ASSUME Steady(d), NEW n \in Known(contracts'[d]), contracts'[d][n].host = d
               PROVE  contracts'[d][n].code # Absent /\ ~ contracts'[d][n].temp
    BY <1>2, <1>9 DEF HostThere, Steady
  <2>1. ASSUME n \in Known(g), g[n].host = d
        PROVE  g[n].code # Absent /\ ~ g[n].temp
    <3>1. n \in Known(contracts[d]) /\ contracts[d][n].host = d
      BY <1>1, <1>6, <2>1, TriedKeeps
    <3>2. contracts[d][n].code # Absent /\ ~ contracts[d][n].temp
      BY <1>1, <3>1 DEF Keeps, HostThere
    <3> QED
      BY <1>1, <1>6, <3>1, <3>2, TriedKeeps
  <2>2. CASE ~ applied
    BY <1>9, <2>1, <2>2
  <2>3. CASE applied
    <3>1. n \in Known(r.table) /\ contracts'[d] = h
      BY <1>8, <1>9, <2>3
    <3>2. by # d
      <4>1. ~ (height[d] + 1 <= height[d])
        BY <1>3
      <4> QED
        BY <1>3, <4>1 DEF KeepInv, OwnApplied
    <3>3. r.table[n].host = h[n].host
      <4> USE DEF h
      <4>1. r.table[n] \in Contracts /\ n \in Names
        BY <1>7, <3>1, Present DEF Known
      <4> QED
        BY <3>1, <4>1 DEF TempDiscarded, Contracts
    <3>4. n \in Known(g)
      <4> SUFFICES ASSUME n \notin Known(g) PROVE FALSE
        OBVIOUS
      <4>1. NewContract(r.table[n], n, entries, txs, r.done, by)
        BY <1>1, <1>6, <3>1, TriedKeeps
      <4> QED
        BY <3>1, <3>2, <3>3, <4>1 DEF NewContract
    <3>5. /\ r.table[n].host = g[n].host /\ r.table[n].code = g[n].code
          /\ r.table[n].temp = g[n].temp
      BY <1>1, <1>6, <3>4, TriedKeeps
    <3>6. r.table[n].code # Absent /\ ~ r.table[n].temp
      BY <2>1, <3>1, <3>3, <3>4, <3>5
    <3> QED
      BY <1>8, <3>1, <3>6
  <2> QED
    BY <2>2, <2>3
<1>17. ASSUME NEW e \in Devices PROVE Keeps(e)'
  <2>1. CASE e = d
    BY <1>11, <1>12, <1>14, <1>15, <1>16, <2>1 DEF Keeps
  <2>2. CASE e # d
    BY <1>1, <1>2, <1>9, <2>2, OtherKeeps DEF KeepInv
  <2> QED
    BY <2>1, <2>2
<1> QED
  BY <1>10, <1>17 DEF KeepInv

\* d starts again, or goes on from a peer's state: it does not stay.
LEMMA KeepFetch ==
    ASSUME CoreInv, KeepInv, NEW d \in Devices, NEW e \in Devices, FetchCheckpoint(d, e)
    PROVE  KeepInv'
<1> DEFINE g == IF height[e] = Offset(e) THEN TempDiscarded(contracts[e]) ELSE NoTable
<1>1. /\ Typed /\ chain \in Seq(Blocks)
      /\ height \in [Devices -> Nat] /\ contracts \in [Devices -> Tables]
      /\ checkpoints \in [Devices -> Seq(Nat)] /\ pool \in [Devices -> Seq(Txs)]
      /\ contracts[e] \in Tables /\ Keeps(d)
  BY DEF CoreInv, Typed, KeepInv
<1>2. /\ contracts' = [contracts EXCEPT ![d] = g]
      /\ pool' = [pool EXCEPT ![d] = <<>>]
      /\ \E k : height' = [height EXCEPT ![d] = k]
      /\ restored' = restored \cup {d}
      /\ UNCHANGED <<chain, cache, sent>>
  BY DEF FetchCheckpoint, Emptied
<1>3. \A n \in Known(g) : ~ g[n].temp
  <2>1. CASE height[e] = Offset(e)
    BY <1>1, <2>1, DiscardedIs
  <2>2. CASE height[e] # Offset(e)
    BY <2>2, NothingIs
  <2> QED
    BY <2>1, <2>2
<1> HIDE DEF g
<1>4. /\ contracts'[d] = g /\ pool'[d] = <<>> /\ ~ Steady(d)'
      /\ \A q \in Devices \ {d} : /\ contracts'[q] = contracts[q]
                                  /\ height'[q] = height[q] /\ pool'[q] = pool[q]
  BY <1>1, <1>2 DEF Steady
<1>5. OwnApplied'
  <2> SUFFICES ASSUME NEW i \in 1..Len(chain), Steady(chain[i].by)'
               PROVE  i <= height'[chain[i].by]
    BY <1>2 DEF OwnApplied, Steady
  <2>1. Steady(chain[i].by) /\ chain[i].by # d
    BY <1>2 DEF Steady
  <2>2. chain[i].by \in Devices
    BY <1>1, ProducersAre
  <2> QED
    BY <1>4, <2>1, <2>2 DEF KeepInv, OwnApplied
<1>6. PoolBacked(d)'
  BY <1>4 DEF PoolBacked
<1>7. OwnCodes(d)'
  BY <1>1, <1>2 DEF Keeps, OwnCodes, Offering
<1>8. OwnLoans(d, contracts[d])'
  BY <1>3, <1>4 DEF OwnLoans
<1>9. CalledThere(d, contracts[d])' /\ HostThere(d, contracts[d])'
  BY <1>4 DEF CalledThere, HostThere
<1>10. ASSUME NEW q \in Devices PROVE Keeps(q)'
  <2>1. CASE q = d
    BY <1>6, <1>7, <1>8, <1>9, <2>1 DEF Keeps
  <2>2. CASE q # d
    BY <1>1, <1>2, <1>4, <2>2, OtherKeeps DEF KeepInv
  <2> QED
    BY <2>1, <2>2
<1> QED
  BY <1>5, <1>10 DEF KeepInv

LEMMA KeepReboot ==
    ASSUME CoreInv, KeepInv, NEW d \in Devices, Reboot(d)
    PROVE  KeepInv'
<1>1. /\ Typed /\ chain \in Seq(Blocks)
      /\ height \in [Devices -> Nat] /\ contracts \in [Devices -> Tables]
      /\ cache \in [Devices -> Caches] /\ pool \in [Devices -> Seq(Txs)]
  BY DEF CoreInv, Typed
<1>2. /\ contracts' = [contracts EXCEPT ![d] = NoTable]
      /\ cache' = [cache EXCEPT ![d] = NoTable]
      /\ pool' = [pool EXCEPT ![d] = <<>>]
      /\ height' = [height EXCEPT ![d] = 0]
      /\ d \in Rebooters
      /\ UNCHANGED <<chain, sent, restored>>
  BY DEF Reboot
<1>3. /\ contracts'[d] = NoTable /\ cache'[d] = NoTable /\ pool'[d] = <<>>
      /\ ~ Steady(d) /\ ~ Steady(d)'
      /\ \A q \in Devices \ {d} : /\ contracts'[q] = contracts[q] /\ cache'[q] = cache[q]
                                  /\ height'[q] = height[q] /\ pool'[q] = pool[q]
  BY <1>1, <1>2 DEF Steady
<1>4. OwnApplied'
  <2> SUFFICES ASSUME NEW i \in 1..Len(chain), Steady(chain[i].by)
               PROVE  i <= height'[chain[i].by]
    BY <1>2 DEF OwnApplied, Steady
  <2>1. chain[i].by \in Devices
    BY <1>1, ProducersAre
  <2> QED
    BY <1>3, <2>1 DEF KeepInv, OwnApplied
<1>5. PoolBacked(d)'
  BY <1>2 DEF PoolBacked
<1>6. OwnCodes(d)'
  BY <1>3, NothingIs DEF OwnCodes, HasCode
<1>7. OwnLoans(d, contracts[d])'
  BY <1>3, NothingIs DEF OwnLoans
<1>8. CalledThere(d, contracts[d])' /\ HostThere(d, contracts[d])'
  BY <1>3 DEF CalledThere, HostThere
<1>9. ASSUME NEW q \in Devices PROVE Keeps(q)'
  <2>1. CASE q = d
    BY <1>5, <1>6, <1>7, <1>8, <2>1 DEF Keeps
  <2>2. CASE q # d
    BY <1>1, <1>2, <1>3, <2>2, OtherKeeps DEF KeepInv
  <2> QED
    BY <2>1, <2>2
<1> QED
  BY <1>4, <1>9 DEF KeepInv
-----------------------------------------------------------------------------
(* The invariant, and what it says *)

LEMMA CodeInit ==
    ASSUME Init
    PROVE  CodeInv
<1>1. CoreInv
  BY CoreInit
<1>2. OwnApplied
  BY DEF Init, OwnApplied
<1>3. ASSUME NEW d \in Devices PROVE Keeps(d)
  <2>1. /\ pool[d] = <<>> /\ cache[d] = NoTable /\ contracts[d] = NoTable
        /\ Known(NoTable) = {} /\ height[d] = 0 /\ 1..0 = {}
    BY NothingIs DEF Init
  <2>2. \A n : ~ Called(n, height[d])
    BY <2>1 DEF Called
  <2> QED
    BY <2>1, <2>2 DEF Keeps, PoolBacked, OwnCodes, HasCode, OwnLoans, CalledThere, HostThere
<1> QED
  BY <1>1, <1>2, <1>3 DEF CodeInv, KeepInv

LEMMA CodeStep ==
    ASSUME CodeInv, [Next]_vars
    PROVE  CodeInv'
<1>1. CoreInv'
  BY CoreStep DEF CodeInv
<1>2. CASE UNCHANGED vars
  <2>1. ASSUME NEW d \in Devices PROVE Keeps(d)'
    BY <1>2, OtherKeeps DEF vars, CodeInv, CoreInv, KeepInv
  <2> QED
    BY <1>1, <1>2, <2>1, OwnAppliedSame DEF vars, CodeInv, KeepInv
<1>3. ASSUME Next
      PROVE  KeepInv'
  BY <1>3, KeepDeploy, KeepCall, KeepHearTx, KeepHearInfo, KeepProduce, KeepReceive, KeepFetch,
     KeepReboot DEF Next, CodeInv
<1> QED
  BY <1>1, <1>2, <1>3 DEF CodeInv

\* CodeInv holds in every reachable state.
THEOREM CodeInvariant == Spec => []CodeInv
<1>1. Init => CodeInv
  BY CodeInit
<1>2. CodeInv /\ [Next]_vars => CodeInv'
  BY CodeStep
<1> QED
  BY <1>1, <1>2, PTL DEF Spec

LEMMA TypeFromInv ==
    ASSUME CodeInv
    PROVE  TypeOK
<1>1. Typed
  BY DEF CodeInv, CoreInv
<1>2. /\ chain \in Seq(Blocks) /\ DOMAIN chain = 1..Len(chain)
      /\ \A d \in Devices : /\ pool[d] \in Seq(Txs) /\ DOMAIN pool[d] = 1..Len(pool[d])
                           /\ DOMAIN checkpoints[d] = 1..Len(checkpoints[d])
                           /\ height[d] \in Nat /\ height[d] <= Len(chain)
                           /\ contracts[d] \in Tables /\ CacheOK(cache[d])
  BY <1>1, LenProperties DEF Typed
<1>3. ASSUME NEW i \in DOMAIN chain
      PROVE  /\ chain[i].by \in Devices
             /\ Range(chain[i].txs) \subseteq Txs /\ Len(chain[i].txs) \in 1..MaxTxns
  <2>1. chain[i].by \in Devices
    BY <1>1, <1>2, ProducersAre
  <2>2. chain[i] \in Blocks
    BY <1>2, ElementOfSeq
  <2>3. chain[i].txs \in Seq(Txs)
    BY <2>2 DEF Blocks
  <2> QED
    BY <1>1, <1>2, <2>1, <2>3 DEF Typed, Range
<1>4. ASSUME NEW d \in Devices
      PROVE  /\ height[d] \in 0..Len(chain)
             /\ \A i \in DOMAIN checkpoints[d] : checkpoints[d][i] \in 1..height[d]
             /\ Range(pool[d]) \subseteq Txs
             /\ \A n \in Known(contracts[d]) : contracts[d][n] \in Contracts
             /\ \A n \in Known(cache[d]) : cache[d][n] \in Entries
             /\ Cardinality(Known(cache[d])) <= CacheSize
  <2>1. height[d] \in 0..Len(chain)
    BY <1>2, LenProperties
  <2>2. \A i \in DOMAIN checkpoints[d] : checkpoints[d][i] \in 1..height[d]
    BY <1>1, <1>2 DEF Typed
  <2>3. Range(pool[d]) \subseteq Txs
    BY <1>2 DEF Range
  <2>4. /\ \A n \in Known(contracts[d]) : contracts[d][n] \in Contracts
        /\ \A n \in Known(cache[d]) : cache[d][n] \in Entries
        /\ Cardinality(Known(cache[d])) <= CacheSize
    BY <1>2, Present DEF CacheOK, Known
  <2> QED
    BY <2>1, <2>2, <2>3, <2>4
<1> QED
  BY <1>3, <1>4 DEF TypeOK

LEMMA DeployedFromInv ==
    ASSUME CodeInv
    PROVE  CodeIsDeployed
<1> SUFFICES ASSUME NEW d \in Devices, NEW n \in Known(contracts[d])
             PROVE  /\ \E i \in 1..height[d] :
                          DeployedBy(i, n, contracts[d][n].host, contracts[d][n].hash)
                    /\ contracts[d][n].code \in {contracts[d][n].hash, Absent}
  BY DEF CodeIsDeployed
<1>1. /\ contracts[d] \in Tables /\ height[d] \in 0..Len(chain)
      /\ Root(contracts[d]) = RootAt(height[d]) /\ Matching(contracts[d])
  BY LenProperties DEF CodeInv, CoreInv, Typed, Replicas
<1>2. /\ n \in DOMAIN RootAt(height[d])
      /\ RootAt(height[d])[n][1] = contracts[d][n].host
      /\ RootAt(height[d])[n][2] = contracts[d][n].hash
  BY <1>1, RootIs
<1>3. \E i \in 1..height[d] : DeployedBy(i, n, contracts[d][n].host, contracts[d][n].hash)
  BY <1>1, <1>2 DEF CodeInv, CoreInv, Following
<1> QED
  BY <1>1, <1>3 DEF Matching

\* The root of the next block follows from the one before, and only one does.
LEMMA ReplayFromInv ==
    ASSUME CodeInv
    PROVE  ReplayAgrees
<1> SUFFICES ASSUME NEW d \in Devices, height[d] < Len(chain)
             PROVE  LET txs     == NextBlock(d).txs
                        entries == StoreDeploys(cache[d], txs)
                        r       == Execute(Prefetch(d, entries, txs, Devices \ {d}), entries, txs,
                                           NextBlock(d).by)
                    IN  r.done = Len(txs) /\ r.lacks = NextBlock(d).lacks =>
                            Root(r.table) = NextBlock(d).root
  BY DEF ReplayAgrees
<1> DEFINE txs == NextBlock(d).txs
           by == NextBlock(d).by
           lacks == NextBlock(d).lacks
           entries == StoreDeploys(cache[d], txs)
           g == Prefetch(d, entries, txs, Devices \ {d})
           r == Execute(g, entries, txs, by)
<1>1. /\ height[d] \in Nat /\ height[d] + 1 \in 1..Len(chain)
      /\ txs \in Seq(Txs) /\ by \in Devices /\ NextBlock(d).root \in Roots
      /\ NextBlock(d).root = RootAt(height[d] + 1) /\ CacheOK(cache[d])
      /\ txs = chain[height[d] + 1].txs /\ by = chain[height[d] + 1].by
      /\ lacks = chain[height[d] + 1].lacks
  BY NextIs DEF CodeInv, CoreInv, Typed, NextBlock
<1>2. Follows(RootAt(height[d]), NextBlock(d).root, txs, lacks, by)
  <2>1. height[d] + 1 - 1 = height[d]
    BY <1>1
  <2> QED
    BY <1>1, <2>1 DEF CodeInv, CoreInv, Following
<1> HIDE DEF txs, by, lacks
<1>3. entries \in Caches
  BY <1>1, StoreDeploysIs DEF Later, CacheOK
<1> HIDE DEF entries
<1>4. Tried(d, entries, txs, by, g, r)
  BY <1>1, <1>3, TriedIs DEF CodeInv
<1> HIDE DEF r
<1>5. ASSUME r.done = Len(txs), r.lacks = lacks
      PROVE  Root(r.table) = NextBlock(d).root
  <2>1. SubSeq(txs, 1, r.done) = txs
    BY <1>1, <1>5, LenProperties
  <2>2. Follows(RootAt(height[d]), Root(r.table), txs, lacks, by)
    BY <1>4, <1>5, <2>1 DEF Tried
  <2>3. Len(txs) \in Nat
    BY <1>1, LenProperties
  <2> QED
    BY <1>2, <2>2, <2>3, FollowsOnce
<1> QED
  BY <1>5 DEF r, g, entries, txs, by, lacks

LEMMA KeptFromInv ==
    ASSUME CodeInv
    PROVE  HostServes /\ BackupKept
<1>1. HostServes
  BY DEF CodeInv, KeepInv, Keeps, HostThere, HostServes
<1>2. BackupKept
  <2> SUFFICES ASSUME NEW d \in Validators, NEW n \in Names, Steady(d), Called(n, height[d]),
                      \A m \in sent : m.from = d => m.name # n
               PROVE  contracts[d][n].code # Absent /\ ~ contracts[d][n].temp
    BY DEF BackupKept
  <2>1. Keeps(d) /\ ~ Offering(d, n)
    BY CodeCacheAssumption DEF CodeInv, KeepInv, Offering
  <2>2. n \in Known(contracts[d]) /\ contracts[d][n].code # Absent
    BY <2>1 DEF Keeps, CalledThere
  <2> QED
    BY <2>1, <2>2 DEF Keeps, OwnLoans
<1> QED
  BY <1>1, <1>2

\* Whatever is lost, restarted or deployed twice: heights, checkpoints, pools, tables
\* and caches stay within their types, and the deploy cache within its size.
THEOREM CodeTypeCorrect == Spec => []TypeOK
BY CodeInvariant, TypeFromInv, PTL

\* A device takes for a contract only what the chain deployed under that name,
\* and runs or sends only the code with that hash.
THEOREM CodesAreDeployed == Spec => []CodeIsDeployed
BY CodeInvariant, DeployedFromInv, PTL

\* applyNetworkBlock gets the producer's state root whenever it can execute every
\* transaction and its nested calls lack the same code as the producer's: that code
\* is here and not there is the only reason to refuse an honest block.
THEOREM ReplaysAgree == Spec => []ReplayAgrees
BY CodeInvariant, ReplayFromInv, PTL

\* A host that neither reboots nor restores a checkpoint keeps the code it deployed.
THEOREM HostsServe == Spec => []HostServes
<1>1. CodeInv => HostServes
  BY KeptFromInv
<1> QED
  BY <1>1, CodeInvariant, PTL

\* So does a validator that has executed a call, under the same conditions.
THEOREM BackupsServe == Spec => []BackupKept
<1>1. CodeInv => BackupKept
  BY KeptFromInv
<1> QED
  BY <1>1, CodeInvariant, PTL
=============================================================================
