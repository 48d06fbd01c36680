------------------------------- MODULE Lemmas -------------------------------
(***************************************************************************)
(* What the proofs of several modules rest on: how the sum of a function   *)
(* of amounts changes with the function (counting tokens, without any      *)
(* induction over the domain), what a loop preserves that the model writes *)
(* as a recursive function, and the ranks of a finite ordered set.         *)
(***************************************************************************)
EXTENDS Totals, FiniteSetTheorems, WellFoundedInduction, TLAPS

-----------------------------------------------------------------------------
(* Sums *)

\* What belongs to the tokens of a function.
LEMMA TokensMember ==
    ASSUME NEW S, NEW f \in [S -> Nat], NEW n, NEW i
    PROVE  <<n, i>> \in Tokens(f) <=> n \in S /\ i \in 1..f[n]
  BY DEF Tokens

\* Every token is a pair of its holder and a number.
LEMMA TokensPairs ==
    ASSUME NEW S, NEW f \in [S -> Nat], NEW t \in Tokens(f)
    PROVE  /\ t = <<t[1], t[2]>>
           /\ t[1] \in S /\ t[2] \in 1..f[t[1]]
  BY DEF Tokens

\* The tokens of finitely many holders are finitely many.
LEMMA TokensFinite ==
    ASSUME NEW S, IsFiniteSet(S), NEW f \in [S -> Nat]
    PROVE  IsFiniteSet(Tokens(f)) /\ Total(f) \in Nat
<1> DEFINE g == [n \in S |-> {n} \X (1..f[n])]
           T == {g[n] : n \in S}
<1>1. g \in Surjection(S, T)
  BY DEF Surjection
<1>2. IsFiniteSet(T)
  BY <1>1, FS_Surjection
<1>3. ASSUME NEW X \in T PROVE IsFiniteSet(X)
  <2>1. PICK n \in S : X = {n} \X (1..f[n])
    BY DEF T
  <2>2. IsFiniteSet({n})
    BY FS_Singleton
  <2>3. f[n] \in Int
    OBVIOUS
  <2>4. IsFiniteSet(1..f[n])
    BY <2>3, FS_Interval
  <2> QED
    BY <2>1, <2>2, <2>4, FS_Product
<1>4. IsFiniteSet(UNION T)
  BY <1>2, <1>3, FS_UNION
<1>5. Tokens(f) = UNION T
  BY DEF Tokens
<1> QED
  BY <1>4, <1>5, FS_CardinalityType DEF Total

\* The sum of two functions has the sum of their totals: the second one's
\* tokens are numbered after the first one's.
LEMMA TotalPlus ==
    ASSUME NEW S, IsFiniteSet(S), NEW f \in [S -> Nat], NEW g \in [S -> Nat]
    PROVE  Plus(f, g) \in [S -> Nat] /\ Total(Plus(f, g)) = Total(f) + Total(g)
<1> DEFINE h == [t \in Tokens(g) |-> <<t[1], f[t[1]] + t[2]>>]
           Moved == {h[t] : t \in Tokens(g)}
<1>1. Plus(f, g) \in [S -> Nat] /\ \A n \in S : Plus(f, g)[n] = f[n] + g[n]
  BY DEF Plus
<1>2. h \in Bijection(Tokens(g), Moved)
  <2>1. h \in Surjection(Tokens(g), Moved)
    BY DEF Surjection
  <2>2. ASSUME NEW t \in Tokens(g), NEW u \in Tokens(g), h[t] = h[u]
        PROVE  t = u
    <3>1. t[1] = u[1] /\ f[t[1]] + t[2] = f[u[1]] + u[2]
      BY <2>2
    <3>2. f[t[1]] \in Nat /\ t[2] \in Nat /\ u[2] \in Nat
      BY TokensPairs
    <3>3. t[2] = u[2]
      BY <3>1, <3>2
    <3> QED
      BY <3>1, <3>3, TokensPairs
  <2>3. h \in Injection(Tokens(g), Moved)
    BY <2>1, <2>2 DEF Injection, IsInjective, Surjection
  <2> QED
    BY <2>1, <2>3 DEF Bijection
<1>3. IsFiniteSet(Tokens(f)) /\ IsFiniteSet(Tokens(g))
  BY TokensFinite
<1>4. IsFiniteSet(Moved) /\ Cardinality(Moved) = Cardinality(Tokens(g))
  BY <1>2, <1>3, FS_Bijection DEF ExistsBijection
<1>5. Tokens(f) \cap Moved = {}
  <2> SUFFICES ASSUME NEW t \in Tokens(g), h[t] \in Tokens(f) PROVE FALSE
    OBVIOUS
  <2>1. t[1] \in S /\ t[2] \in 1..g[t[1]]
    BY TokensPairs
  <2>2. f[t[1]] + t[2] \in 1..f[t[1]]
    BY TokensMember
  <2> QED
    BY <2>1, <2>2
<1>6. Tokens(Plus(f, g)) = Tokens(f) \cup Moved
  <2>1. ASSUME NEW t \in Tokens(Plus(f, g)) PROVE t \in Tokens(f) \cup Moved
    <3>1. t = <<t[1], t[2]>> /\ t[1] \in S /\ t[2] \in 1..(f[t[1]] + g[t[1]])
      BY <1>1, TokensPairs
    <3>2. CASE t[2] <= f[t[1]]
      BY <3>1, <3>2, TokensMember
    <3>3. CASE t[2] > f[t[1]]
      <4> DEFINE u == <<t[1], t[2] - f[t[1]]>>
      <4>1. t[2] - f[t[1]] \in 1..g[t[1]]
        BY <3>1, <3>3
      <4>2. u \in Tokens(g)
        BY <3>1, <4>1, TokensMember
      <4>3. h[u] = t
        BY <3>1, <4>2
      <4> QED
        BY <4>2, <4>3
    <3> QED
      BY <3>1, <3>2, <3>3
  <2>2. ASSUME NEW t \in Tokens(f) PROVE t \in Tokens(Plus(f, g))
    <3>1. t = <<t[1], t[2]>> /\ t[1] \in S /\ t[2] \in 1..f[t[1]]
      BY TokensPairs
    <3>2. t[2] \in 1..Plus(f, g)[t[1]]
      BY <1>1, <3>1
    <3> QED
      BY <1>1, <3>1, <3>2, TokensMember
  <2>3. ASSUME NEW t \in Tokens(g) PROVE h[t] \in Tokens(Plus(f, g))
    <3>1. t[1] \in S /\ t[2] \in 1..g[t[1]]
      BY TokensPairs
    <3>2. f[t[1]] + t[2] \in 1..Plus(f, g)[t[1]]
      BY <1>1, <3>1
    <3> QED
      BY <1>1, <3>1, <3>2, TokensMember
  <2> QED
    BY <2>1, <2>2, <2>3
<1>7. Cardinality(Tokens(f)) \in Nat /\ Cardinality(Tokens(g)) \in Nat
  BY <1>3, FS_CardinalityType
<1>8. Cardinality(Tokens(f) \cup Moved)
        = Cardinality(Tokens(f)) + Cardinality(Moved) - Cardinality(Tokens(f) \cap Moved)
  BY <1>3, <1>4, FS_Union
<1>9. Cardinality(Tokens(f) \cap Moved) = 0
  BY <1>5, FS_EmptySet
<1>10. Cardinality(Tokens(Plus(f, g))) = Cardinality(Tokens(f)) + Cardinality(Tokens(g))
  BY <1>4, <1>6, <1>7, <1>8, <1>9
<1> QED
  BY <1>1, <1>10 DEF Total

\* A single holder's amount is its total.
LEMMA TotalOnly ==
    ASSUME NEW S, NEW x \in S, NEW v \in Nat
    PROVE  Only(S, x, v) \in [S -> Nat] /\ Total(Only(S, x, v)) = v
<1>1. Only(S, x, v) \in [S -> Nat]
  BY DEF Only
<1>2. Tokens(Only(S, x, v)) = {x} \X (1..v)
  <2>1. ASSUME NEW n \in S, NEW i \in 1..Only(S, x, v)[n]
        PROVE  n = x /\ i \in 1..v
    BY DEF Only
  <2> QED
    BY <1>1, <2>1 DEF Tokens, Only
<1>3. IsFiniteSet({x}) /\ Cardinality({x}) = 1
  BY FS_Singleton
<1>4. IsFiniteSet(1..v) /\ Cardinality(1..v) = v
  BY FS_Interval
<1>5. Cardinality({x} \X (1..v)) = 1 * v
  BY <1>3, <1>4, FS_Product
<1> QED
  BY <1>1, <1>2, <1>5 DEF Total

\* Taking away at most what is there takes as much away from the total.
LEMMA TotalLess ==
    ASSUME NEW S, IsFiniteSet(S), NEW f \in [S -> Nat], NEW g \in [S -> Nat],
           \A n \in S : g[n] <= f[n]
    PROVE  Less(f, g) \in [S -> Nat] /\ Total(Less(f, g)) = Total(f) - Total(g)
<1>1. Less(f, g) \in [S -> Nat]
  BY DEF Less
<1>2. Plus(Less(f, g), g) = f
  BY DEF Plus, Less
<1>3. Total(f) = Total(Less(f, g)) + Total(g)
  BY <1>1, <1>2, TotalPlus
<1>4. Total(Less(f, g)) \in Nat /\ Total(g) \in Nat
  BY <1>1, TokensFinite
<1> QED
  BY <1>1, <1>3, <1>4

\* Adding to one holder adds as much to the total.
LEMMA TotalAdd ==
    ASSUME NEW S, IsFiniteSet(S), NEW f \in [S -> Nat], NEW h \in [S -> Nat],
           NEW x \in S, NEW v \in Nat,
           h[x] = f[x] + v, \A n \in S \ {x} : h[n] = f[n]
    PROVE  Total(h) = Total(f) + v
<1> DEFINE o == Only(S, x, v)
<1>1. o \in [S -> Nat] /\ Total(o) = v
  BY TotalOnly
<1>2. Plus(f, o) \in [S -> Nat] /\ Total(Plus(f, o)) = Total(f) + Total(o)
  BY <1>1, TotalPlus
<1>3. \A n \in S : h[n] = Plus(f, o)[n]
  BY DEF Plus, Only
<1> HIDE DEF o
<1>4. h = Plus(f, o)
  BY <1>2, <1>3
<1> QED
  BY <1>1, <1>2, <1>4

\* Replacing one holder's amount replaces it in the total.
LEMMA TotalSet ==
    ASSUME NEW S, IsFiniteSet(S), NEW f \in [S -> Nat], NEW h \in [S -> Nat],
           NEW x \in S, \A n \in S \ {x} : h[n] = f[n]
    PROVE  Total(h) = Total(f) - f[x] + h[x] /\ f[x] <= Total(f)
<1> DEFINE e == [n \in S |-> IF n = x THEN 0 ELSE f[n]]
<1>1. e \in [S -> Nat] /\ e[x] = 0 /\ \A n \in S \ {x} : e[n] = f[n]
  OBVIOUS
<1> HIDE DEF e
<1>2. f[x] \in Nat /\ h[x] \in Nat
  OBVIOUS
<1>3. Total(f) = Total(e) + f[x]
  BY <1>1, <1>2, TotalAdd
<1>4. Total(h) = Total(e) + h[x]
  BY <1>1, <1>2, TotalAdd
<1>5. Total(e) \in Nat
  BY <1>1, TokensFinite
<1> QED
  BY <1>2, <1>3, <1>4, <1>5

\* Disjoint sets have no more elements together than a set that contains them.
LEMMA TotalDisjoint ==
    ASSUME NEW S, NEW T, IsFiniteSet(T), NEW Q \in [S -> SUBSET T],
           \A m, n \in S : m = n \/ Q[m] \cap Q[n] = {},
           NEW f \in [S -> Nat], \A n \in S : f[n] <= Cardinality(Q[n])
    PROVE  Total(f) <= Cardinality(T)
<1> DEFINE list == [n \in S |-> CHOOSE g : g \in Bijection(1..Cardinality(Q[n]), Q[n])]
           h == [t \in Tokens(f) |-> list[t[1]][t[2]]]
<1>1. ASSUME NEW n \in S
      PROVE  list[n] \in Bijection(1..Cardinality(Q[n]), Q[n]) /\ Cardinality(Q[n]) \in Nat
  <2>1. IsFiniteSet(Q[n])
    BY FS_Subset
  <2>2. PICK k \in Nat : ExistsBijection(1..k, Q[n])
    BY <2>1, FS_NatBijection
  <2>3. Cardinality(Q[n]) = k
    BY <2>2, FS_CountingElements
  <2>4. \E g : g \in Bijection(1..Cardinality(Q[n]), Q[n])
    BY <2>2, <2>3 DEF ExistsBijection
  <2> QED
    BY <2>2, <2>3, <2>4
<1> HIDE DEF list
<1>2. ASSUME NEW t \in Tokens(f)
      PROVE  /\ t = <<t[1], t[2]>> /\ t[1] \in S
             /\ t[2] \in 1..Cardinality(Q[t[1]])
             /\ list[t[1]][t[2]] \in Q[t[1]]
  <2>1. t = <<t[1], t[2]>> /\ t[1] \in S /\ t[2] \in 1..f[t[1]]
    BY TokensPairs
  <2>2. t[2] \in 1..Cardinality(Q[t[1]])
    BY <1>1, <2>1
  <2> QED
    BY <1>1, <2>1, <2>2 DEF Bijection, Surjection
<1>3. h \in [Tokens(f) -> T]
  BY <1>2
<1>4. ASSUME NEW t \in Tokens(f), NEW u \in Tokens(f), h[t] = h[u]
      PROVE  t = u
  <2>1. t[1] = u[1]
    BY <1>2, <1>4
  <2> DEFINE n == t[1]
  <2>2. list[n] \in Injection(1..Cardinality(Q[n]), Q[n])
    BY <1>1, <1>2 DEF Bijection
  <2>3. list[n][t[2]] = list[n][u[2]]
    BY <1>4, <2>1
  <2>4. t[2] \in 1..Cardinality(Q[n]) /\ u[2] \in 1..Cardinality(Q[n])
    BY <1>2, <2>1
  <2> HIDE DEF n
  <2>5. t[2] = u[2]
    BY <2>2, <2>3, <2>4 DEF Injection, IsInjective
  <2> QED
    BY <1>2, <2>1, <2>5
<1> HIDE DEF h
<1>5. h \in Injection(Tokens(f), T)
  BY <1>3, <1>4 DEF Injection, IsInjective
<1> QED
  BY <1>5, FS_Injection DEF Total
-----------------------------------------------------------------------------
(* Loops and orders *)

\* Induction, in the form that needs no predicate.
LEMMA Least ==
    ASSUME NEW T \in SUBSET Nat, T # {}
    PROVE  \E n \in T : \A m \in T : n <= m
<1>1. IsWellFoundedOn(OpToRel(<, Nat), Nat)
  BY NatLessThanWellFounded
<1>2. PICK n \in T : \A m \in T : ~ (<<m, n>> \in OpToRel(<, Nat))
  BY <1>1, WFMin
<1>3. \A m \in T : ~ (m < n)
  BY <1>2 DEF OpToRel
<1> QED
  BY <1>3

\* f is what a loop has computed after each of its n turns.
Iterates(f, first, step, n) == f[0] = first /\ \A i \in 1..n : f[i] = step[<<f[i - 1], i>>]

\* A loop that never leaves D.
LEMMA Recursion ==
    ASSUME NEW n \in Nat, NEW D, NEW first \in D, NEW step \in [D \X (1..n) -> D]
    PROVE  \E f \in [0..n -> D] : Iterates(f, first, step, n)
<1> DEFINE Upto(m) == \E f \in [0..m -> D] :
                          f[0] = first /\ \A i \in 1..m : f[i] = step[<<f[i - 1], i>>]
           T == {m \in 0..n : ~ Upto(m)}
<1>1. Upto(0)
  <2> DEFINE f == [i \in 0..0 |-> first]
  <2>1. f \in [0..0 -> D] /\ f[0] = first /\ 1..0 = {}
    OBVIOUS
  <2> QED
    BY <2>1
<1>2. ASSUME NEW m \in 0..n - 1, Upto(m)
      PROVE  Upto(m + 1)
  <2>1. PICK f \in [0..m -> D] : f[0] = first /\ \A i \in 1..m : f[i] = step[<<f[i - 1], i>>]
    BY <1>2
  <2> DEFINE g == [i \in 0..m + 1 |-> IF i <= m THEN f[i] ELSE step[<<f[m], m + 1>>]]
  <2>2. m + 1 \in 1..n /\ f[m] \in D /\ step[<<f[m], m + 1>>] \in D
    BY <2>1
  <2>3. g \in [0..m + 1 -> D] /\ g[0] = first
    BY <2>1, <2>2
  <2>4. \A i \in 1..m + 1 : g[i] = step[<<g[i - 1], i>>]
    <3> TAKE i \in 1..m + 1
    <3>1. CASE i <= m
      BY <2>1, <3>1
    <3>2. CASE i = m + 1
      BY <3>2
    <3> QED
      BY <3>1, <3>2
  <2> HIDE DEF g
  <2> QED
    BY <2>3, <2>4
<1> HIDE DEF Upto
<1>3. T = {}
  <2> SUFFICES ASSUME T # {}
               PROVE  FALSE
    OBVIOUS
  <2>1. PICK m \in T : \A k \in T : m <= k
    <3>1. T \in SUBSET Nat
      OBVIOUS
    <3> QED
      BY <3>1, Least
  <2>2. m - 1 \in 0..n - 1 /\ Upto(m - 1) /\ (m - 1) + 1 = m
    BY <1>1, <2>1
  <2> QED
    BY <1>2, <2>1, <2>2
<1> QED
  BY <1>3 DEF Upto, Iterates

LEMMA LoopStays ==
    ASSUME NEW n \in Nat, NEW D, NEW f, f[0] \in D,
           \A i \in 1..n : f[i - 1] \in D => f[i] \in D
    PROVE  \A i \in 0..n : f[i] \in D
<1> DEFINE T == {i \in 0..n : f[i] \notin D}
<1>1. T = {}
  <2> SUFFICES ASSUME T # {}
               PROVE  FALSE
    OBVIOUS
  <2>1. PICK i \in T : \A k \in T : i <= k
    <3>1. T \in SUBSET Nat
      OBVIOUS
    <3> QED
      BY <3>1, Least
  <2>2. i \in 1..n /\ f[i - 1] \in D
    BY <2>1
  <2> QED
    BY <2>1, <2>2
<1> QED
  BY <1>1

\* The elements of S before x in the order R, a set of pairs.
Below(S, R, x) == {y \in S : <<y, x>> \in R}

StrictOrder(S, R) ==
    /\ \A x \in S : <<x, x>> \notin R
    /\ \A x, y, z \in S : <<x, y>> \in R /\ <<y, z>> \in R => <<x, z>> \in R
    /\ \A x, y \in S : x = y \/ <<x, y>> \in R \/ <<y, x>> \in R

\* The places of a finite ordered set are 0, 1, 2 ...
LEMMA Ranks ==
    ASSUME NEW S, IsFiniteSet(S), NEW R, StrictOrder(S, R)
    PROVE  /\ \A x \in S : Cardinality(Below(S, R, x)) \in 0..Cardinality(S) - 1
           /\ \A x, y \in S : Cardinality(Below(S, R, x)) = Cardinality(Below(S, R, y)) => x = y
           /\ \A x, y \in S :
                 <<x, y>> \in R <=> Cardinality(Below(S, R, x)) < Cardinality(Below(S, R, y))
           /\ \A k \in 0..Cardinality(S) - 1 : \E x \in S : Cardinality(Below(S, R, x)) = k
<1> DEFINE f == [x \in S |-> Cardinality(Below(S, R, x))]
           n == Cardinality(S)
<1>0. n \in Nat
  BY FS_CardinalityType
<1>1. ASSUME NEW x \in S
      PROVE  IsFiniteSet(Below(S, R, x)) /\ f[x] \in Nat
  BY FS_Subset, FS_CardinalityType DEF Below
<1>2. ASSUME NEW x \in S, NEW T, IsFiniteSet(T), Below(S, R, x) \cup {x} \subseteq T
      PROVE  f[x] < Cardinality(T)
  <2>1. x \notin Below(S, R, x)
    BY DEF Below, StrictOrder
  <2>2. Cardinality(Below(S, R, x) \cup {x}) = f[x] + 1
    BY <1>1, <2>1, FS_AddElement
  <2>3. Cardinality(Below(S, R, x) \cup {x}) <= Cardinality(T) /\ Cardinality(T) \in Nat
    BY <1>2, FS_Subset, FS_CardinalityType
  <2> QED
    BY <1>1, <2>2, <2>3
<1>3. \A x \in S : f[x] \in 0..n - 1
  <2> TAKE x \in S
  <2>1. f[x] < n
    BY <1>2 DEF Below
  <2> QED
    BY <1>0, <1>1, <2>1
<1>4. ASSUME NEW x \in S, NEW y \in S, <<x, y>> \in R
      PROVE  f[x] < f[y]
  <2>1. Below(S, R, x) \cup {x} \subseteq Below(S, R, y)
    BY <1>4 DEF Below, StrictOrder
  <2> QED
    BY <1>1, <1>2, <2>1
<1>5. \A x, y \in S : /\ f[x] = f[y] => x = y
                      /\ <<x, y>> \in R <=> f[x] < f[y]
  <2> TAKE x, y \in S
  <2>1. f[x] \in Nat /\ f[y] \in Nat
    BY <1>1
  <2>2. x = y \/ <<x, y>> \in R \/ <<y, x>> \in R
    BY DEF StrictOrder
  <2> QED
    BY <1>4, <2>1, <2>2
<1>6. f \in Injection(S, 0..n - 1)
  <2>1. f \in [S -> 0..n - 1]
    BY <1>3
  <2> QED
    BY <1>5, <2>1 DEF Injection, IsInjective
<1>7. IsFiniteSet(0..n - 1) /\ Cardinality(0..n - 1) = n
  BY <1>0, FS_Interval
<1>8. f \in Surjection(S, 0..n - 1)
  BY <1>6, <1>7, FS_Injection
<1>9. \A k \in 0..n - 1 : \E x \in S : f[x] = k
  BY <1>8 DEF Surjection
<1> QED
  BY <1>3, <1>5, <1>9
=============================================================================
