------------------------------ MODULE VMProofs ------------------------------
(***************************************************************************)
(* Proofs of the safety properties of MVM: the machine keeps within its    *)
(* stack, its gas, its storage and its depth whatever bytes it runs, what  *)
(* delegate calls put in the place of a contract's code is gone when the   *)
(* call is over, a replica comes to the state that the producer has        *)
(* sealed, and the machine stands at instructions of the codes that the    *)
(* assembler makes.                                                        *)
(***************************************************************************)
EXTENDS MachineStep, Assembler, Lemmas, SequenceTheorems

\* A name for the bytes of a code, so that a step need not look at 256 cases.
Byte == 0..255

LEMMA ByteIs ==
    /\ \A b : b \in Byte <=> b \in Nat /\ b <= 255
    /\ Byte \subseteq Nat
<1>1. \A b : b \in 0..255 <=> b \in Nat /\ b <= 255
  OBVIOUS
<1>2. Byte \subseteq Nat
  BY <1>1 DEF Byte
<1> QED
  BY <1>1, <1>2 DEF Byte

(* Powers of two *)

LEMMA PowerIsNat ==
    ASSUME NEW n \in Nat
    PROVE  2 ^ n \in Nat \ {0} /\ IsFiniteSet(SUBSET (1..n)) /\ Cardinality(SUBSET (1..n)) = 2 ^ n
<1>1. IsFiniteSet(1..n) /\ Cardinality(1..n) = n
  BY FS_Interval
<1>2. IsFiniteSet(SUBSET (1..n)) /\ Cardinality(SUBSET (1..n)) = 2 ^ n
  BY <1>1, FS_SUBSET
<1>3. SUBSET (1..n) # {}
  OBVIOUS
<1> QED
  BY <1>2, <1>3, FS_CardinalityType, FS_EmptySet

LEMMA PowerGrows ==
    ASSUME NEW n \in Nat, NEW m \in Nat, m <= n
    PROVE  2 ^ m <= 2 ^ n
<1>1. SUBSET (1..m) \subseteq SUBSET (1..n)
  OBVIOUS
<1>2. IsFiniteSet(SUBSET (1..n)) /\ Cardinality(SUBSET (1..n)) = 2 ^ n
  BY PowerIsNat
<1>3. Cardinality(SUBSET (1..m)) = 2 ^ m
  BY PowerIsNat
<1>4. Cardinality(SUBSET (1..m)) <= Cardinality(SUBSET (1..n))
  BY <1>1, <1>2, FS_Subset
<1> QED
  BY <1>2, <1>3, <1>4

LEMMA PowerDoubles ==
    ASSUME NEW n \in Nat
    PROVE  2 ^ (n + 1) = 2 ^ n + 2 ^ n
<1> DEFINE A == SUBSET (1..n)
           B == {X \cup {n + 1} : X \in A}
           f == [X \in A |-> X \cup {n + 1}]
<1>1. SUBSET (1..n + 1) = A \cup B
  <2>1. ASSUME NEW X \in SUBSET (1..n + 1)
        PROVE  X \in A \cup B
    <3>1. CASE n + 1 \notin X
      BY <3>1
    <3>2. CASE n + 1 \in X
      <4>1. X \ {n + 1} \in A /\ X = (X \ {n + 1}) \cup {n + 1}
        BY <3>2
      <4> QED
        BY <4>1
    <3> QED
      BY <3>1, <3>2
  <2>2. ASSUME NEW X \in A
        PROVE  X \in SUBSET (1..n + 1) /\ X \cup {n + 1} \in SUBSET (1..n + 1)
    <3>1. 1..n \subseteq 1..n + 1 /\ n + 1 \in 1..n + 1
      OBVIOUS
    <3> QED
      BY <3>1
  <2>3. A \cup B \subseteq SUBSET (1..n + 1)
    <3> HIDE DEF A
    <3> QED
      BY <2>2
  <2> HIDE DEF A, B
  <2> QED
    BY <2>1, <2>3
<1>2. A \cap B = {}
  OBVIOUS
<1>3. f \in Bijection(A, B)
  <2>1. f \in [A -> B] /\ \A Y \in B : \E X \in A : f[X] = Y
    OBVIOUS
  <2>2. \A X, Y \in A : f[X] = f[Y] => X = Y
    <3> SUFFICES ASSUME NEW X \in A, NEW Y \in A, f[X] = f[Y]
                 PROVE  X = Y
      OBVIOUS
    <3>1. n + 1 \notin X /\ n + 1 \notin Y /\ X \cup {n + 1} = Y \cup {n + 1}
      OBVIOUS
    <3> QED
      BY <3>1
  <2> QED
    BY <2>1, <2>2 DEF Bijection, Injection, Surjection, IsInjective
<1>4. IsFiniteSet(A) /\ Cardinality(A) = 2 ^ n
  BY PowerIsNat
<1> HIDE DEF A, B, f
<1>5. IsFiniteSet(B) /\ Cardinality(B) = 2 ^ n
  <2>1. Cardinality(A) = Cardinality(B) /\ IsFiniteSet(B)
    BY <1>3, <1>4, FS_Bijection DEF ExistsBijection
  <2> QED
    BY <1>4, <2>1
<1>6. Cardinality(A \cup B) = Cardinality(A) + Cardinality(B) - Cardinality(A \cap B)
  BY <1>4, <1>5, FS_Union
<1>7. Cardinality(SUBSET (1..n + 1)) = 2 ^ (n + 1)
  BY PowerIsNat
<1>8. Cardinality(A \cup B) = 2 ^ n + 2 ^ n
  <2>1. Cardinality(A \cap B) = 0
    BY <1>2, FS_EmptySet
  <2>2. 2 ^ n \in Nat
    BY PowerIsNat
  <2> QED
    BY <1>4, <1>5, <1>6, <2>1, <2>2
<1> QED
  BY <1>1, <1>7, <1>8
-----------------------------------------------------------------------------
(* Words *)

LEMMA WordSize ==
    Word \in Nat /\ Word >= 256
<1>1. WordBits \in 8..32
  BY MVMAssumption
<1>2. PICK m \in Nat : m = 8
  OBVIOUS
<1>3. 2 ^ m <= 2 ^ WordBits /\ 2 ^ WordBits \in Nat
  <2>1. WordBits \in Nat /\ m <= WordBits
    BY <1>1, <1>2
  <2>2. 2 ^ m <= 2 ^ WordBits
    BY <2>1, PowerGrows
  <2> QED
    BY <2>1, <2>2, PowerIsNat
<1>4. 2 ^ 8 = 256
  OBVIOUS
<1>5. 2 ^ m = 256
  BY <1>2, <1>4
<1> QED
  BY <1>3, <1>5 DEF Word

LEMMA Wrapped ==
    ASSUME NEW x \in Int
    PROVE  x % Word \in Words
<1>1. Word \in Nat /\ Word > 0
  BY WordSize
<1> HIDE DEF Word
<1> QED
  BY <1>1 DEF Words

\* Whatever bits are put together, the result is a word.
LEMMA FromBitsIsWord ==
    ASSUME NEW S
    PROVE  FromBits(S) \in Words
<1> DEFINE n == WordBits
           bit(i) == IF i - 1 \in S THEN 2 ^ (i - 1) ELSE 0
           step == [e \in Nat \X (1..n) |-> e[1] + bit(e[2])]
           Is(f) == f = [i \in 0..n |-> IF i = 0 THEN 0 ELSE f[i - 1] + bit(i)]
           r == CHOOSE f : Is(f)
<1>1. n \in Nat
  BY MVMAssumption
<1>2. ASSUME NEW i \in 1..n
      PROVE  /\ bit(i) \in 0..2 ^ (i - 1)
             /\ 2 ^ i = 2 ^ (i - 1) + 2 ^ (i - 1) /\ 2 ^ (i - 1) \in Nat \ {0}
  <2>1. i - 1 \in Nat /\ (i - 1) + 1 = i
    BY <1>1
  <2>2. 2 ^ (i - 1) \in Nat \ {0} /\ 2 ^ ((i - 1) + 1) = 2 ^ (i - 1) + 2 ^ (i - 1)
    BY <2>1, PowerIsNat, PowerDoubles
  <2> QED
    BY <2>1, <2>2
<1>3. \A i \in 1..n : bit(i) \in Nat
  <2> HIDE DEF bit
  <2> QED
    BY <1>2
<1> HIDE DEF bit, n
<1>4. step \in [Nat \X (1..n) -> Nat]
  BY <1>3
<1>5. PICK g \in [0..n -> Nat] : Iterates(g, 0, step, n)
  <2> HIDE DEF step
  <2> QED
    BY <1>1, <1>4, Recursion
<1>6. Is(g)
  <2>1. g = [i \in 0..n |-> g[i]] /\ g[0] = 0
    BY <1>5 DEF Iterates
  <2>2. ASSUME NEW i \in 1..n
        PROVE  g[i] = g[i - 1] + bit(i)
    <3>1. g[i - 1] \in Nat
      BY <1>1, <1>5
    <3>2. g[i] = step[<<g[i - 1], i>>]
      BY <1>5 DEF Iterates
    <3> QED
      BY <3>1, <3>2
  <2>3. \A i \in 0..n : g[i] = IF i = 0 THEN 0 ELSE g[i - 1] + bit(i)
    <3> TAKE i \in 0..n
    <3>1. i = 0 \/ (i # 0 /\ i \in 1..n)
      BY <1>1
    <3> QED
      BY <2>1, <2>2, <3>1
  <2> QED
    BY <2>1, <2>3
<1>7. Is(r)
  BY <1>6
<1>8. FromBits(S) = r[n]
  BY DEF FromBits, n, bit
<1> HIDE DEF r
<1>9. r[0] = 0 /\ \A i \in 1..n : r[i] = r[i - 1] + bit(i)
  BY <1>1, <1>7
<1> DEFINE h == [i \in 0..n |-> IF r[i] \in 0..2 ^ i - 1 THEN 1 ELSE 0]
           One == {1}
<1>10. h[0] \in One
  <2>1. 2 ^ 0 = 1
    OBVIOUS
  <2> QED
    BY <1>1, <1>9, <2>1
<1>11. \A i \in 1..n : h[i - 1] \in One => h[i] \in One
  <2> SUFFICES ASSUME NEW i \in 1..n, h[i - 1] \in One
               PROVE  h[i] \in One
    OBVIOUS
  <2>1. i \in 0..n /\ i - 1 \in 0..n
    BY <1>1
  <2>2. r[i - 1] \in 0..2 ^ (i - 1) - 1
    BY <2>1
  <2>3. r[i] = r[i - 1] + bit(i)
    BY <1>9
  <2>4. r[i] \in 0..2 ^ i - 1
    BY <1>2, <2>2, <2>3
  <2> QED
    BY <2>1, <2>4
<1> HIDE DEF h
<1>12. h[n] \in One
  <2>1. \A i \in 0..n : h[i] \in One
    <3> HIDE DEF One
    <3> QED
      BY <1>1, <1>10, <1>11, LoopStays
  <2> QED
    BY <1>1, <2>1
<1>13. r[n] \in 0..2 ^ n - 1
  BY <1>1, <1>12 DEF h
<1> QED
  BY <1>8, <1>13 DEF Words, Word, n

LEMMA BinaryIsWord ==
    ASSUME NEW op \in Arithmetic, NEW mod \in 0..7, NEW a \in Words, NEW b \in Words,
           op \in {"DIV", "MOD"} => b # 0
    PROVE  Binary(op, mod, a, b) \in Words
<1> DEFINE shift == b % 32
<1>1. Word \in Nat /\ Word >= 256 /\ a \in Nat /\ b \in Nat
  BY WordSize DEF Words
<1>2. shift \in Nat /\ 2 ^ shift \in Nat \ {0}
  <2>1. shift \in Nat
    BY <1>1
  <2> HIDE DEF shift
  <2> QED
    BY <2>1, PowerIsNat
<1>3. 0 \in Words /\ 1 \in Words /\ \A x \in 0..a : x \in Words
  BY <1>1 DEF Words
<1>4. ASSUME NEW d \in Nat \ {0}
      PROVE  a \div d \in 0..a /\ a % d \in 0..d - 1
  BY <1>1
<1>5. a \div 2 ^ shift \in Words
  BY <1>2, <1>3, <1>4
<1>6. CASE op = "ADD"
  <2>1. (a + b) % Word \in Words
    BY <1>1, Wrapped
  <2> QED
    BY <1>6, <2>1 DEF Binary
<1>7. CASE op = "SUB"
  <2>1. (a - b) % Word \in Words
    BY <1>1, Wrapped
  <2> QED
    BY <1>7, <2>1 DEF Binary
<1>8. CASE op = "MUL"
  <2>1. a * b \in Int
    BY <1>1
  <2>2. (a * b) % Word \in Words
    BY <2>1, Wrapped
  <2> QED
    BY <1>8, <2>2 DEF Binary
<1>9. CASE op = "DIV"
  <2>1. a \div b \in Words
    BY <1>1, <1>3, <1>4, <1>9
  <2> QED
    BY <1>9, <2>1 DEF Binary
<1>10. CASE op = "MOD"
  <2>1. a % b \in 0..b - 1
    BY <1>1, <1>4, <1>10
  <2>2. a % b \in Words
    BY <1>1, <2>1 DEF Words
  <2> QED
    BY <1>10, <2>2 DEF Binary
<1>11. CASE op \in {"AND", "OR", "XOR"}
  BY <1>11, FromBitsIsWord DEF Binary
<1>12. CASE op = "SHL"
  <2>1. a * 2 ^ shift \in Int
    <3> HIDE DEF shift
    <3> QED
      BY <1>1, <1>2
  <2>2. (a * 2 ^ shift) % Word \in Words
    BY <2>1, Wrapped
  <2> QED
    BY <1>3, <1>12, <2>2 DEF Binary
<1>13. CASE op = "SHR"
  BY <1>3, <1>5, <1>13 DEF Binary
<1>14. CASE op = "CMP"
  BY <1>3, <1>14 DEF Binary
<1> QED
  BY <1>6, <1>7, <1>8, <1>9, <1>10, <1>11, <1>12, <1>13, <1>14 DEF Arithmetic
-----------------------------------------------------------------------------
(* The inductive invariant for the types *)

Storages ==
    {m \in UNION {[D -> Words] : D \in SUBSET Words} : Cardinality(DOMAIN m) <= MaxStorage}

Contracts ==
    [addr : Words, host : Devices, code : Seq(Byte), storage : Storages]

Frames ==
    [self : Nat, status : {"RUNNING", "HALTED", "FAILED"}, pc : Nat, stack : Seq(Words),
     gas : Nat, used : Nat, memory : [0..MaxMemory - 1 -> Words], snap : Storages,
     args : Seq(Words), caller : Words, value : Words, saved : Seq(Byte)]

\* What one execute() keeps to, among n contracts.
Bounded(f, n) ==
    /\ f.self \in 1..n
    /\ Len(f.stack) <= MaxStack /\ Len(f.args) <= MaxArgs
    /\ f.gas + f.used = MaxGas

\* A machine that waits for an XCALL has given three words for at most two.
FramesOK(fs, n) ==
    /\ fs \in Seq(Frames) /\ Len(fs) <= MaxDepth + 1
    /\ \A i \in 1..Len(fs) : Bounded(fs[i], n)
    /\ \A i \in 1..Len(fs) - 1 : fs[i].status = "RUNNING" /\ Len(fs[i].stack) + 3 <= MaxStack

StatesOK ==
    /\ contracts \in Seq(Contracts) /\ base \in Seq(Contracts)
    /\ txSnap \in Seq(Contracts) /\ sealed \in Seq(Contracts)
    /\ Len(base) = Len(contracts) /\ Len(txSnap) = Len(contracts)
    /\ Len(sealed) = Len(contracts)

\* A machine runs for the first call of the queue.
BooksOK ==
    /\ queue \in Seq(Calls) /\ included \in Seq(Calls)
    /\ phase \in {"idle", "create", "apply", "replay", "rejected"} /\ device \in Devices
    /\ phase \in {"idle", "rejected"} => frames = <<>> /\ queue = <<>>
    /\ frames # <<>> => queue # <<>>

VMInv == StatesOK /\ FramesOK(frames, Len(contracts)) /\ BooksOK

LEMMA ConstantsOK ==
    /\ MaxStack \in Nat /\ MaxStack >= 3 /\ MaxArgs \in Nat /\ MaxDepth \in Nat
    /\ MaxStorage \in Nat /\ MaxMemory \in Nat /\ MaxGas \in Nat /\ MaxGas \in Words
    /\ Words \subseteq Nat /\ 0 \in Words /\ 1 \in Words /\ Byte \subseteq Words
    /\ Number \in Words /\ Timestamp \in Words
<1>1. Word \in Nat /\ Word >= 256
  BY WordSize
<1>2. /\ Words \subseteq Nat /\ 0 \in Words /\ 1 \in Words /\ Byte \subseteq Words
  BY <1>1, ByteIs DEF Words
<1>3. /\ MaxStack \in Nat \ {0, 1, 2} /\ MaxArgs \in Nat /\ MaxDepth \in Nat
      /\ MaxStorage \in Nat /\ MaxMemory \in Nat /\ MaxGas \in Words
      /\ Number \in Words /\ Timestamp \in Words
  BY MVMAssumption
<1>4. MaxStack \in Nat /\ MaxStack >= 3
  BY <1>3
<1> QED
  BY <1>2, <1>3, <1>4

LEMMA StoragesAre ==
    ASSUME NEW m
    PROVE  IsStorage(m) <=> m \in Storages
  BY DEF IsStorage, Storages

LEMMA ContractsAre ==
    ASSUME NEW r, IsContract(r)
    PROVE  r \in Contracts
  BY StoragesAre DEF IsContract, Contracts, Byte

LEMMA FrameFacts ==
    ASSUME VMInv, frames # <<>>
    PROVE  /\ Len(frames) \in Nat \ {0} /\ Frame = frames[Len(frames)]
           /\ Frame \in Frames /\ Bounded(Frame, Len(contracts))
           /\ Self \in Contracts /\ Code \in Seq(Byte) /\ Len(Code) \in Nat
           /\ Stack \in Seq(Words) /\ Len(Stack) \in 0..MaxStack
           /\ frames[1] \in Frames /\ Frame.self \in DOMAIN contracts
<1>1. frames \in Seq(Frames) /\ Len(frames) \in Nat \ {0}
  BY EmptySeq DEF VMInv, FramesOK
<1>2. Frame = frames[Len(frames)]
  BY DEF Frame
<1>3. Frame \in Frames /\ Bounded(Frame, Len(contracts)) /\ frames[1] \in Frames
  BY <1>1, <1>2, ElementOfSeq DEF VMInv, FramesOK
<1>4. contracts \in Seq(Contracts) /\ Frame.self \in 1..Len(contracts)
  BY <1>3 DEF VMInv, StatesOK, Bounded
<1>5. Self \in Contracts /\ Frame.self \in DOMAIN contracts
  BY <1>4, ElementOfSeq, LenProperties DEF Self
<1>6. Code \in Seq(Byte)
  BY <1>5 DEF Code, Contracts
<1>7. Stack \in Seq(Words) /\ Len(Stack) <= MaxStack
  BY <1>3 DEF Stack, Frames, Bounded
<1> QED
  BY <1>1, <1>2, <1>3, <1>5, <1>6, <1>7, LenProperties, ConstantsOK

LEMMA StackFacts ==
    ASSUME VMInv, frames # <<>>
    PROVE  /\ \A n \in 1..Len(Stack) : Nth(n) \in Words
           /\ \A n \in 0..Len(Stack) : Without(n) \in Seq(Words) /\ Len(Without(n)) = Len(Stack) - n
<1>1. Stack \in Seq(Words) /\ Len(Stack) \in Nat
  BY FrameFacts, LenProperties
<1>2. ASSUME NEW n \in 1..Len(Stack)
      PROVE  Nth(n) \in Words
  BY <1>1, ElementOfSeq DEF Nth
<1>3. ASSUME NEW n \in 0..Len(Stack)
      PROVE  Without(n) \in Seq(Words) /\ Len(Without(n)) = Len(Stack) - n
  <2>1. \A i \in 1..Len(Stack) - n : Stack[i] \in Words
    BY <1>1, ElementOfSeq
  <2> QED
    BY <1>1, <2>1, SubSeqProperties DEF Without
<1> QED
  BY <1>2, <1>3

LEMMA SameInterval ==
    ASSUME NEW a \in Nat, NEW b \in Nat, 1..a = 1..b
    PROVE  a = b
<1>1. a # 0 => a \in 1..a
  OBVIOUS
<1>2. b # 0 => b \in 1..b
  OBVIOUS
<1>3. a <= b
  BY <1>1
<1>4. b <= a
  BY <1>2
<1> QED
  BY <1>3, <1>4

LEMMA FrontFacts ==
    ASSUME NEW S, NEW fs \in Seq(S), fs # <<>>
    PROVE  LET front == SubSeq(fs, 1, Len(fs) - 1)
           IN  /\ front \in Seq(S) /\ Len(front) = Len(fs) - 1
               /\ \A i \in 1..Len(fs) - 1 : front[i] = fs[i]
<1>1. Len(fs) \in Nat \ {0}
  BY EmptySeq
<1>2. \A i \in 1..Len(fs) - 1 : fs[i] \in S
  BY <1>1, ElementOfSeq
<1> DEFINE n == Len(fs) - 1
<1>3. n \in Nat /\ \A i \in 1..n : fs[i] \in S
  BY <1>1, <1>2
<1> HIDE DEF n
<1>4. /\ SubSeq(fs, 1, n) \in Seq(S) /\ Len(SubSeq(fs, 1, n)) = IF 1 <= n THEN n - 1 + 1 ELSE 0
      /\ \A i \in 1..n - 1 + 1 : SubSeq(fs, 1, n)[i] = fs[1 + i - 1]
  BY <1>3, SubSeqProperties
<1>5. \A i \in 1..n : i \in 1..n - 1 + 1 /\ 1 + i - 1 = i
  BY <1>3
<1>6. \A i \in 1..n : SubSeq(fs, 1, n)[i] = fs[i]
  BY <1>4, <1>5
<1>7. Len(SubSeq(fs, 1, n)) = n
  BY <1>3, <1>5
<1> QED
  BY <1>4, <1>6, <1>7 DEF n

\* The innermost machine goes on, or ends.
LEMMA Replaced ==
    ASSUME VMInv, frames # <<>>, NEW f \in Frames, Bounded(f, Len(contracts))
    PROVE  LET fs == Append(Callers, f)
           IN  FramesOK(fs, Len(contracts)) /\ fs # <<>> /\ Len(fs) = Len(frames)
<1> DEFINE fs == Append(Callers, f)
<1>1. frames \in Seq(Frames) /\ Len(frames) \in Nat \ {0}
  BY FrameFacts DEF VMInv, FramesOK
<1>2. /\ Callers \in Seq(Frames) /\ Len(Callers) = Len(frames) - 1
      /\ \A i \in 1..Len(frames) - 1 : Callers[i] = frames[i]
  BY <1>1, FrontFacts, FrameFacts DEF Callers
<1>3. /\ fs \in Seq(Frames) /\ Len(fs) = Len(frames) /\ fs # <<>>
      /\ fs[Len(frames)] = f /\ \A i \in 1..Len(frames) - 1 : fs[i] = frames[i]
  BY <1>1, <1>2, AppendProperties
<1> HIDE DEF fs
<1>4. FramesOK(fs, Len(contracts))
  BY <1>1, <1>3 DEF VMInv, FramesOK
<1> QED
  BY <1>3, <1>4 DEF fs
-----------------------------------------------------------------------------
(* Instructions *)

LEMMA CostIsNat ==
    ASSUME NEW op, NEW mod \in 0..7
    PROVE  Cost(op, mod) \in Nat /\ Size(op, mod) \in Nat
<1>1. Cost(op, mod) \in Nat
  BY DEF Cost
<1> QED
  BY <1>1 DEF Size, Width

LEMMA Fetched ==
    ASSUME VMInv, frames # <<>>, Affordable
    PROVE  /\ Here \in Byte /\ Mod \in 0..7 /\ NextPc \in Nat
           /\ Cost(Op, Mod) \in 0..Frame.gas
<1>1. Frame.pc \in Nat /\ Frame.gas \in Nat /\ Code \in Seq(Byte) /\ Len(Code) \in Nat
  BY FrameFacts DEF Frames
<1>2. Frame.pc + 1 \in 1..Len(Code) /\ Frame.gas >= Cost(Op, Mod)
  BY <1>1 DEF Affordable
<1>3. Here \in Byte
  BY <1>1, <1>2, ElementOfSeq DEF Here
<1>4. Mod \in 0..7
  BY <1>3, ByteIs DEF Mod, ModOf
<1>5. Cost(Op, Mod) \in Nat /\ Size(Op, Mod) \in Nat
  BY <1>4, CostIsNat
<1> QED
  BY <1>1, <1>2, <1>3, <1>4, <1>5 DEF NextPc

LEMMA OperandIsWord ==
    ASSUME VMInv, frames # <<>>, NEW width \in {1, 2, 4}, Frame.pc + width < Len(Code)
    PROVE  Operand(width) \in Words /\ Operand(width) \in Nat
<1> DEFINE byte(i) == Code[Frame.pc + 1 + i]
           join(w, i) == ((w * 256) + byte(i)) % Word
<1>1. Frame.pc \in Nat /\ Code \in Seq(Byte) /\ Len(Code) \in Nat
  BY FrameFacts DEF Frames
<1>2. \A i \in 1..width : Frame.pc + 1 + i \in 1..Len(Code)
  BY <1>1
<1>3. Words \subseteq Nat /\ Byte \subseteq Words
  BY ConstantsOK
<1>4. ASSUME NEW i \in 1..width
      PROVE  byte(i) \in Words /\ byte(i) \in Nat
  <2>1. Code[Frame.pc + 1 + i] \in Byte
    BY <1>1, <1>2, ElementOfSeq
  <2> QED
    BY <1>3, <2>1
<1> HIDE DEF byte
<1>5. ASSUME NEW i \in 1..width, NEW w \in Words
      PROVE  join(w, i) \in Words
  <2> DEFINE x == (w * 256) + byte(i)
  <2>1. byte(i) \in Nat /\ w \in Nat
    BY <1>3, <1>4
  <2>3. x \in Int
    BY <2>1
  <2> HIDE DEF x
  <2>2. x % Word \in Words
    BY <2>3, Wrapped
  <2> QED
    BY <2>2 DEF x
<1> HIDE DEF join
<1>6. CASE width = 1
  <2>1. byte(1) \in Words
    BY <1>4, <1>6
  <2>2. Operand(width) = byte(1)
    BY <1>6 DEF Operand, byte
  <2> QED
    BY <1>3, <2>1, <2>2
<1>7. CASE width = 2
  <2>1. byte(1) \in Words
    BY <1>4, <1>7
  <2>2. join(byte(1), 2) \in Words
    BY <1>5, <1>7, <2>1
  <2> QED
    BY <1>3, <1>7, <2>2 DEF Operand, byte, join
<1>8. CASE width = 4
  <2>1. byte(1) \in Words
    BY <1>4, <1>8
  <2>2. join(byte(1), 2) \in Words
    BY <1>5, <1>8, <2>1
  <2>3. join(join(byte(1), 2), 3) \in Words
    BY <1>5, <1>8, <2>2
  <2>4. join(join(join(byte(1), 2), 3), 4) \in Words
    BY <1>5, <1>8, <2>3
  <2> QED
    BY <1>3, <1>8, <2>4 DEF Operand, byte, join
<1> QED
  BY <1>6, <1>7, <1>8

\* What an instruction may rely on.
LEMMA Sound ==
    ASSUME VMInv, Goes
    PROVE  /\ frames # <<>> /\ Len(Stack) \in 0..MaxStack /\ Len(Stack) >= Needs(Op, Mod)
           /\ Grows(Op, Mod) => Len(Stack) < MaxStack
           /\ Frame.status = "RUNNING" /\ Mod \in 0..7 /\ NextPc \in Nat
           /\ Cost(Op, Mod) \in 0..Frame.gas /\ Code # <<>>
<1>1. frames # <<>> /\ Affordable /\ Frame.status = "RUNNING" /\ ~ Faulty
  BY DEF Goes, Active
<1>2. Len(Stack) \in 0..MaxStack /\ Frame.pc \in Nat /\ Len(Code) \in Nat /\ MaxStack \in Nat
  BY <1>1, FrameFacts, ConstantsOK DEF Frames
<1>3. Mod \in 0..7 /\ NextPc \in Nat /\ Cost(Op, Mod) \in 0..Frame.gas
  BY <1>1, Fetched
<1>4. Needs(Op, Mod) \in Nat
  BY <1>3 DEF Needs
<1>5. ~ (Len(Stack) < Needs(Op, Mod)) /\ ~ (Grows(Op, Mod) /\ Len(Stack) >= MaxStack)
  BY <1>1 DEF Faulty
<1>6. Len(Code) # 0
  BY <1>1, <1>2 DEF Affordable
<1>7. Code # <<>>
  BY <1>6, EmptySeq
<1> QED
  BY <1>1, <1>2, <1>3, <1>4, <1>5, <1>7

LEMMA ChargedIsFrame ==
    ASSUME NEW f \in Frames, NEW n, Bounded(f, n), NEW cost \in 0..f.gas
    PROVE  Charged(f, cost) \in Frames /\ Bounded(Charged(f, cost), n)
<1>1. MaxGas \in Nat /\ f.gas \in Nat /\ f.used \in Nat
  BY ConstantsOK DEF Frames
<1>2. f.gas - cost \in Nat /\ f.used + cost \in Nat /\ f.gas - cost + (f.used + cost) = MaxGas
  BY <1>1 DEF Bounded
<1> QED
  BY <1>2 DEF Charged, Frames, Bounded

\* The stack and the pc that an instruction leaves behind.
LEMMA Continues ==
    ASSUME VMInv, Goes, NEW stack \in Seq(Words), Len(stack) <= MaxStack, NEW pc \in Nat,
           Continue(stack, pc), UNCHANGED blockVars,
           contracts' \in Seq(Contracts), Len(contracts') = Len(contracts)
    PROVE  VMInv'
<1> DEFINE g == Charged(Frame, Cost(Op, Mod))
           f == [g EXCEPT !.stack = stack, !.pc = pc]
<1>1. frames # <<>> /\ Frame \in Frames /\ Bounded(Frame, Len(contracts))
  BY Sound, FrameFacts
<1>2. g \in Frames /\ Bounded(g, Len(contracts))
  BY <1>1, Sound, ChargedIsFrame
<1>3. frames' = Append(Callers, f)
  BY DEF Continue, Become
<1> HIDE DEF g
<1>4. f \in Frames /\ Bounded(f, Len(contracts))
  BY <1>2 DEF Frames, Bounded
<1> HIDE DEF f
<1>5. FramesOK(frames', Len(contracts)) /\ frames' # <<>>
  BY <1>1, <1>3, <1>4, Replaced
<1>6. BooksOK'
  BY <1>1, <1>5 DEF VMInv, BooksOK, blockVars
<1>7. StatesOK'
  BY DEF VMInv, StatesOK, blockVars
<1> QED
  BY <1>5, <1>6, <1>7 DEF VMInv

LEMMA PushedIsWord ==
    ASSUME VMInv, Goes, Grows(Op, Mod)
    PROVE  Pushed \in Words
<1>1. /\ frames # <<>> /\ Len(Stack) \in Nat /\ Len(Stack) >= Needs(Op, Mod) /\ Mod \in 0..7
      /\ Cost(Op, Mod) \in 0..Frame.gas
  BY Sound
<1>2. /\ Frame \in Frames /\ Bounded(Frame, Len(contracts)) /\ Self \in Contracts
      /\ frames[1] \in Frames
  BY <1>1, FrameFacts
<1>3. ~ Faulty
  BY DEF Goes
<1>4. CASE Op = "PUSH"
  <2>1. Mod \in 1..3 /\ ~ (Frame.pc + Width(Mod) >= Len(Code))
    BY <1>3, <1>4 DEF Faulty
  <2>2. Width(Mod) \in {1, 2, 4}
    BY <2>1 DEF Width
  <2>3. Frame.pc \in Nat /\ Len(Code) \in Nat
    BY <1>1, <1>2, FrameFacts DEF Frames
  <2>4. Frame.pc + Width(Mod) < Len(Code)
    BY <2>1, <2>2, <2>3
  <2>5. Operand(Width(Mod)) \in Words
    BY <1>1, <2>2, <2>4, OperandIsWord
  <2> QED
    BY <1>4, <2>5 DEF Pushed
<1>5. CASE Op = "DUP"
  <2>1. Len(Stack) >= 1
    BY <1>1, <1>5 DEF Needs
  <2>2. Nth(1) \in Words
    BY <1>1, <2>1, StackFacts
  <2> QED
    BY <1>5, <2>2 DEF Pushed
<1>6. CASE Op = "ARG"
  <2>1. Frame.caller \in Words /\ Frame.args \in Seq(Words)
    BY <1>2 DEF Frames
  <2>2. Mod # 7 => Mod + 1 \in 1..Len(Frame.args)
    <3>1. Mod # 7 => ~ (Mod >= Len(Frame.args))
      BY <1>3, <1>6 DEF Faulty
    <3>2. Len(Frame.args) \in Nat
      BY <2>1, LenProperties
    <3> QED
      BY <1>1, <3>1, <3>2
  <2>3. Mod # 7 => Frame.args[Mod + 1] \in Words
    BY <2>1, <2>2, ElementOfSeq
  <2> QED
    BY <1>6, <2>1, <2>3 DEF Pushed
<1>7. CASE Op = "BALANCE"
  BY <1>7, ConstantsOK DEF Pushed
<1>8. CASE Op = "CALLVALUE"
  <2>1. Frame.value \in Words
    BY <1>2 DEF Frames
  <2> QED
    BY <1>8, <2>1 DEF Pushed
<1>9. CASE Op = "EXT" /\ Mod > 2
  <2>1. Self.addr \in Words /\ frames[1].caller \in Words
    BY <1>2 DEF Frames, Contracts
  <2>2. Number \in Words /\ Timestamp \in Words
    BY ConstantsOK
  <2>3. Frame.gas - Cost(Op, Mod) \in Words
    <3>1. Frame.gas \in Nat /\ Frame.used \in Nat /\ Frame.gas + Frame.used = MaxGas
      BY <1>2 DEF Frames, Bounded
    <3>2. MaxGas \in 0..Word - 1 /\ Word \in Nat
      BY ConstantsOK, WordSize DEF Words
    <3>3. Frame.gas - Cost(Op, Mod) \in 0..Word - 1
      BY <1>1, <3>1, <3>2
    <3> QED
      BY <3>3 DEF Words
  <2>4. Mod \in 3..7
    BY <1>1, <1>9
  <2> QED
    BY <1>9, <2>1, <2>2, <2>3, <2>4 DEF Pushed
<1> QED
  BY <1>4, <1>5, <1>6, <1>7, <1>8, <1>9 DEF Grows

\* The instructions that change nothing but the machine.
LEMMA Same ==
    ASSUME VMInv, Goes, NEW stack \in Seq(Words), Len(stack) <= MaxStack, NEW pc \in Nat,
           Continue(stack, pc), UNCHANGED <<contracts, blockVars>>
    PROVE  VMInv'
<1>1. contracts' \in Seq(Contracts) /\ Len(contracts') = Len(contracts) /\ UNCHANGED blockVars
  BY DEF VMInv, StatesOK
<1> QED
  BY <1>1, Continues

LEMMA PushTyped ==
    ASSUME VMInv, Push
    PROVE  VMInv'
<1>1. Goes /\ Grows(Op, Mod) /\ UNCHANGED <<contracts, blockVars>>
  BY DEF Push
<1>2. /\ Stack \in Seq(Words) /\ Len(Stack) \in Nat /\ Len(Stack) < MaxStack /\ NextPc \in Nat
      /\ MaxStack \in Nat
  BY <1>1, Sound, FrameFacts, ConstantsOK
<1>3. Pushed \in Words
  BY <1>1, PushedIsWord
<1>4. Append(Stack, Pushed) \in Seq(Words) /\ Len(Append(Stack, Pushed)) = Len(Stack) + 1
  BY <1>2, <1>3, AppendProperties
<1>5. Len(Append(Stack, Pushed)) <= MaxStack
  BY <1>2, <1>4
<1>6. Continue(Append(Stack, Pushed), NextPc)
  BY DEF Push
<1> QED
  BY <1>1, <1>2, <1>4, <1>5, <1>6, Same

LEMMA SwapTyped ==
    ASSUME VMInv, Swap
    PROVE  VMInv'
<1>1. Goes /\ Op = "SWAP" /\ UNCHANGED <<contracts, blockVars>>
  BY DEF Swap
<1>2. frames # <<>> /\ Len(Stack) \in 0..MaxStack /\ Len(Stack) >= 2 /\ NextPc \in Nat
  BY <1>1, Sound DEF Needs, Arithmetic
<1>3. /\ Nth(1) \in Words /\ Nth(2) \in Words
      /\ Without(2) \in Seq(Words) /\ Len(Without(2)) = Len(Stack) - 2
  BY <1>2, StackFacts
<1>4. <<Nth(1), Nth(2)>> \in Seq(Words) /\ Len(<<Nth(1), Nth(2)>>) = 2
  BY <1>3
<1> DEFINE s == Without(2) \o <<Nth(1), Nth(2)>>
<1>5. s \in Seq(Words) /\ Len(s) = Len(Stack) - 2 + 2
  BY <1>3, <1>4, ConcatProperties
<1>6. Len(s) <= MaxStack
  BY <1>2, <1>5
<1>7. Continue(s, NextPc)
  BY DEF Swap
<1> QED
  BY <1>1, <1>2, <1>5, <1>6, <1>7, Same

LEMMA DropTyped ==
    ASSUME VMInv, Drop
    PROVE  VMInv'
<1> DEFINE n == Needs(Op, Mod)
<1>1. Goes /\ UNCHANGED <<contracts, blockVars>> /\ Continue(Without(n), NextPc)
  BY DEF Drop
<1>2. /\ frames # <<>> /\ Len(Stack) \in 0..MaxStack /\ Len(Stack) >= n /\ NextPc \in Nat
      /\ Mod \in 0..7 /\ MaxStack \in Nat
  BY <1>1, Sound, ConstantsOK
<1>3. n \in Nat
  BY <1>2 DEF Needs
<1> HIDE DEF n
<1>4. Without(n) \in Seq(Words) /\ Len(Without(n)) = Len(Stack) - n
  BY <1>2, <1>3, StackFacts
<1>5. Len(Without(n)) <= MaxStack
  BY <1>2, <1>3, <1>4
<1> QED
  BY <1>1, <1>2, <1>4, <1>5, Same

\* n words are taken off the stack and another is put there.
LEMMA Exchanged ==
    ASSUME VMInv, frames # <<>>, NEW n \in 1..Len(Stack), NEW w \in Words
    PROVE  Append(Without(n), w) \in Seq(Words) /\ Len(Append(Without(n), w)) <= MaxStack
<1>1. Len(Stack) \in 0..MaxStack /\ MaxStack \in Nat
  BY FrameFacts, ConstantsOK
<1>2. Without(n) \in Seq(Words) /\ Len(Without(n)) = Len(Stack) - n
  BY <1>1, StackFacts
<1>3. Append(Without(n), w) \in Seq(Words) /\ Len(Append(Without(n), w)) = Len(Stack) - n + 1
  BY <1>2, AppendProperties
<1> QED
  BY <1>1, <1>3

LEMMA CalculateTyped ==
    ASSUME VMInv, Calculate
    PROVE  VMInv'
<1> DEFINE w == Binary(Op, Mod, Nth(2), Nth(1))
<1>1. /\ Goes /\ Op \in Arithmetic /\ UNCHANGED <<contracts, blockVars>>
      /\ Continue(Append(Without(2), w), NextPc)
  BY DEF Calculate
<1>2. /\ frames # <<>> /\ Len(Stack) \in 0..MaxStack /\ Len(Stack) >= 2 /\ NextPc \in Nat
      /\ Mod \in 0..7
  <2>1. Needs(Op, Mod) = 2
    BY <1>1 DEF Needs, Arithmetic
  <2> QED
    BY <1>1, <2>1, Sound
<1>3. Nth(1) \in Words /\ Nth(2) \in Words
  BY <1>2, StackFacts
<1>4. Op \in {"DIV", "MOD"} => Nth(1) # 0
  BY <1>1 DEF Goes, Faulty
<1>5. w \in Words
  BY <1>1, <1>2, <1>3, <1>4, BinaryIsWord
<1> HIDE DEF w
<1>6. Append(Without(2), w) \in Seq(Words) /\ Len(Append(Without(2), w)) <= MaxStack
  BY <1>2, <1>5, Exchanged
<1> QED
  BY <1>1, <1>2, <1>6, Same

LEMMA SoundOne ==
    ASSUME VMInv, Goes, Needs(Op, Mod) >= 1
    PROVE  /\ 1 \in 1..Len(Stack) /\ Nth(1) \in Words
           /\ Without(1) \in Seq(Words) /\ Len(Without(1)) <= MaxStack
<1>1. /\ frames # <<>> /\ Len(Stack) \in 0..MaxStack /\ Len(Stack) >= Needs(Op, Mod)
      /\ Mod \in 0..7 /\ MaxStack \in Nat
  BY Sound, ConstantsOK
<1>2. Needs(Op, Mod) \in Nat
  BY <1>1 DEF Needs
<1>3. 1 \in 1..Len(Stack)
  BY <1>1, <1>2
<1>4. /\ Nth(1) \in Words /\ Without(1) \in Seq(Words) /\ Len(Without(1)) = Len(Stack) - 1
  BY <1>1, <1>3, StackFacts
<1> QED
  BY <1>1, <1>3, <1>4

LEMMA SoundTwo ==
    ASSUME VMInv, Goes, Needs(Op, Mod) = 2
    PROVE  /\ Nth(1) \in Words /\ Nth(2) \in Words
           /\ Without(2) \in Seq(Words) /\ Len(Without(2)) <= MaxStack
<1>1. frames # <<>> /\ Len(Stack) \in 0..MaxStack /\ Len(Stack) >= 2 /\ MaxStack \in Nat
  BY Sound, ConstantsOK
<1>2. /\ Nth(1) \in Words /\ Nth(2) \in Words
      /\ Without(2) \in Seq(Words) /\ Len(Without(2)) = Len(Stack) - 2
  BY <1>1, StackFacts
<1> QED
  BY <1>1, <1>2

LEMMA ReplaceTyped ==
    ASSUME VMInv, Replace
    PROVE  VMInv'
<1> DEFINE w == Nth(1)
           v == CASE Op = "SHA3" -> Hash[w]
                  [] Op = "SLOAD" -> StorageGet(Self.storage, w)
                  [] Op = "EXT" /\ Mod = 1 -> Frame.memory[w]
                  [] OTHER -> IF w = 0 THEN 1 ELSE 0
<1>1. /\ Goes /\ UNCHANGED <<contracts, blockVars>>
      /\ Op \in {"NOT", "SHA3", "SLOAD"} \/ (Op = "EXT" /\ Mod \in {0, 1})
      /\ Continue(Append(Without(1), v), NextPc)
  BY DEF Replace, Replacement
<1>2. Needs(Op, Mod) >= 1
  <2>1. Op \in {"NOT", "SHA3", "SLOAD"} => Needs(Op, Mod) = 1
    BY DEF Needs, Arithmetic
  <2>2. Op = "EXT" /\ Mod \in {0, 1} => Needs(Op, Mod) = 1
    BY DEF Needs, Arithmetic
  <2> QED
    BY <1>1, <2>1, <2>2
<1>3. frames # <<>> /\ NextPc \in Nat /\ Mod \in 0..7
  BY <1>1, Sound
<1>4. 1 \in 1..Len(Stack) /\ w \in Words
  BY <1>1, <1>2, SoundOne
<1>5. Frame \in Frames /\ Self \in Contracts
  BY <1>3, FrameFacts
<1>6. 0 \in Words /\ 1 \in Words /\ Words \subseteq Nat /\ MaxMemory \in Nat
  BY ConstantsOK
<1>7. Op = "SLOAD" => StorageGet(Self.storage, w) \in Words
  <2>1. Self.storage \in Storages
    BY <1>5 DEF Contracts
  <2>2. Self.storage \in [DOMAIN Self.storage -> Words]
    BY <2>1 DEF Storages
  <2> QED
    BY <1>6, <2>2 DEF StorageGet
<1>8. Op = "EXT" /\ Mod = 1 => Frame.memory[w] \in Words
  <2> SUFFICES ASSUME Op = "EXT", Mod = 1
               PROVE  Frame.memory[w] \in Words
    OBVIOUS
  <2>1. ~ (Nth(Mod) >= MaxMemory)
    BY <1>1 DEF Goes, Faulty
  <2>2. w \in 0..MaxMemory - 1
    <3>1. Nth(Mod) = w
      OBVIOUS
    <3>2. w \in Nat
      BY <1>4, <1>6
    <3> HIDE DEF w
    <3> QED
      BY <1>6, <2>1, <3>1, <3>2
  <2>3. Frame.memory \in [0..MaxMemory - 1 -> Words]
    BY <1>5 DEF Frames
  <2> HIDE DEF w
  <2> QED
    BY <2>2, <2>3
<1>9. Hash[w] \in Words
  BY <1>4, MVMAssumption
<1> HIDE DEF w
<1>10. v \in Words
  BY <1>1, <1>6, <1>7, <1>8, <1>9
<1> HIDE DEF v
<1>11. Append(Without(1), v) \in Seq(Words) /\ Len(Append(Without(1), v)) <= MaxStack
  BY <1>3, <1>4, <1>10, Exchanged
<1> QED
  BY <1>1, <1>3, <1>11, Same

LEMMA JumpTyped ==
    ASSUME VMInv, Jump
    PROVE  VMInv'
<1>1. Goes /\ Op = "JMP" /\ UNCHANGED <<contracts, blockVars>>
  BY DEF Jump
<1>2. /\ frames # <<>> /\ Len(Stack) \in 0..MaxStack /\ Mod \in 0..7 /\ NextPc \in Nat
  BY <1>1, Sound
<1>3. Stack \in Seq(Words) /\ Len(Stack) <= MaxStack
  BY <1>2, FrameFacts, ConstantsOK
<1>4. Operand(1) \in Nat
  <2>1. ~ (Frame.pc + 1 >= Len(Code))
    BY <1>1 DEF Goes, Faulty
  <2>2. Frame.pc \in Nat /\ Len(Code) \in Nat
    BY <1>2, FrameFacts DEF Frames
  <2>3. Frame.pc + 1 < Len(Code)
    BY <2>1, <2>2
  <2> QED
    BY <1>2, <2>3, OperandIsWord
<1>5. CASE Mod = 0
  <2>1. Continue(Stack, Operand(1))
    BY <1>5 DEF Jump
  <2> QED
    BY <1>1, <1>3, <1>4, <2>1, Same
<1>6. CASE Mod # 0
  <2> DEFINE pc == IF Nth(1) # 0 THEN Operand(1) ELSE NextPc
  <2>1. Continue(Without(1), pc)
    BY <1>6 DEF Jump
  <2>2. Needs(Op, Mod) = 1
    BY <1>1, <1>6 DEF Needs, Arithmetic
  <2>3. Without(1) \in Seq(Words) /\ Len(Without(1)) <= MaxStack
    BY <1>1, <2>2, SoundOne
  <2>4. pc \in Nat
    BY <1>2, <1>4
  <2> HIDE DEF pc
  <2> QED
    BY <1>1, <2>1, <2>3, <2>4, Same
<1> QED
  BY <1>5, <1>6

\* The code checks for the room that a new entry needs.
LEMMA StorageKeepsBound ==
    ASSUME NEW m \in Storages, NEW key \in Words, NEW value \in Words, ~ StorageFull(m, key)
    PROVE  StorageSet(m, key, value) \in Storages
<1> DEFINE s == StorageSet(m, key, value)
           D == DOMAIN m
<1>1. D \in SUBSET Words /\ m \in [D -> Words] /\ Cardinality(D) <= MaxStorage
  BY DEF Storages
<1>2. DOMAIN s = D \cup {key} /\ s \in [D \cup {key} -> Words] /\ D \cup {key} \in SUBSET Words
  BY <1>1 DEF StorageSet
<1>3. IsFiniteSet(D)
  <2>1. IsFiniteSet(0..Word - 1)
    BY WordSize, FS_Interval
  <2> QED
    BY <1>1, <2>1, FS_Subset DEF Words
<1>4. /\ Cardinality(D) \in Nat
      /\ Cardinality(D \cup {key}) = IF key \in D THEN Cardinality(D) ELSE Cardinality(D) + 1
  BY <1>3, FS_CardinalityType, FS_AddElement
<1>5. key \in D \/ ~ (Cardinality(D) >= MaxStorage)
  BY DEF StorageFull
<1>6. MaxStorage \in Nat
  BY ConstantsOK
<1> HIDE DEF s, D
<1>7. Cardinality(D \cup {key}) <= MaxStorage
  BY <1>1, <1>4, <1>5, <1>6
<1>8. s \in Storages
  BY <1>2, <1>7 DEF Storages
<1> QED
  BY <1>8 DEF s

LEMMA SStoreTyped ==
    ASSUME VMInv, SStore
    PROVE  VMInv'
<1>1. /\ Goes /\ Op = "SSTORE" /\ UNCHANGED blockVars /\ Continue(Without(2), NextPc)
      /\ contracts' = [contracts EXCEPT ![Frame.self].storage = StorageSet(@, Nth(2), Nth(1))]
  BY DEF SStore
<1>2. frames # <<>> /\ NextPc \in Nat
  BY <1>1, Sound
<1>3. Needs(Op, Mod) = 2
  BY <1>1 DEF Needs
<1>4. /\ Nth(1) \in Words /\ Nth(2) \in Words
      /\ Without(2) \in Seq(Words) /\ Len(Without(2)) <= MaxStack
  BY <1>1, <1>3, SoundTwo
<1>5. Self \in Contracts /\ Frame.self \in DOMAIN contracts /\ Self = contracts[Frame.self]
  BY <1>2, FrameFacts DEF Self
<1>6. Self.storage \in Storages /\ ~ StorageFull(Self.storage, Nth(2))
  BY <1>1, <1>5 DEF Contracts, Goes, Faulty
<1> DEFINE m == StorageSet(Self.storage, Nth(2), Nth(1))
           r == [Self EXCEPT !.storage = m]
<1>7. m \in Storages
  BY <1>4, <1>6, StorageKeepsBound
<1> HIDE DEF m
<1>8. r \in Contracts
  BY <1>5, <1>7 DEF Contracts
<1>9. contracts' = [contracts EXCEPT ![Frame.self] = r]
  BY <1>1, <1>5 DEF m
<1> HIDE DEF r
<1>10. contracts \in Seq(Contracts) /\ Frame.self \in 1..Len(contracts)
  BY <1>5, LenProperties DEF VMInv, StatesOK
<1>11. contracts' \in Seq(Contracts) /\ Len(contracts') = Len(contracts)
  BY <1>8, <1>9, <1>10, ExceptSeq
<1> QED
  BY <1>1, <1>2, <1>4, <1>11, Continues

\* Only the machine changes, and not the rest of its record.
LEMMA Rebuilt ==
    ASSUME VMInv, frames # <<>>, NEW f \in Frames, Bounded(f, Len(contracts)), Become(f),
           UNCHANGED <<contracts, blockVars>>
    PROVE  VMInv'
<1>1. FramesOK(frames', Len(contracts)) /\ frames' # <<>>
  BY Replaced DEF Become
<1>2. BooksOK' /\ StatesOK'
  BY <1>1 DEF VMInv, BooksOK, StatesOK, blockVars
<1> QED
  BY <1>1, <1>2 DEF VMInv

LEMMA ChargedNow ==
    ASSUME VMInv, Goes
    PROVE  LET g == Charged(Frame, Cost(Op, Mod))
           IN  g \in Frames /\ Bounded(g, Len(contracts))
  BY Sound, FrameFacts, ChargedIsFrame

LEMMA MStoreTyped ==
    ASSUME VMInv, MStore
    PROVE  VMInv'
<1> DEFINE g == Charged(Frame, Cost(Op, Mod))
           f == [g EXCEPT !.stack = Without(2), !.pc = NextPc, !.memory[Nth(2)] = Nth(1)]
<1>1. Goes /\ Op = "EXT" /\ Mod = 2 /\ UNCHANGED <<contracts, blockVars>> /\ Become(f)
  BY DEF MStore
<1>2. frames # <<>> /\ NextPc \in Nat
  BY <1>1, Sound
<1>3. g \in Frames /\ Bounded(g, Len(contracts))
  BY <1>1, ChargedNow
<1>4. Needs(Op, Mod) = 2
  BY <1>1 DEF Needs, Arithmetic
<1>5. /\ Nth(1) \in Words /\ Without(2) \in Seq(Words) /\ Len(Without(2)) <= MaxStack
  BY <1>1, <1>4, SoundTwo
<1> HIDE DEF g
<1>6. f \in Frames /\ Bounded(f, Len(contracts))
  BY <1>2, <1>3, <1>5 DEF Frames, Bounded
<1> HIDE DEF f
<1> QED
  BY <1>1, <1>2, <1>6, Rebuilt

\* The operands of an XCALL.
LEMMA Called ==
    ASSUME VMInv, Goes, Op = "XCALL"
    PROVE  /\ Len(Stack) >= 3 /\ ArgCount \in 0..MaxArgs /\ Len(Stack) >= 3 + ArgCount
           /\ Depth < MaxDepth
           /\ Without(3 + ArgCount) \in Seq(Words)
           /\ Len(Without(3 + ArgCount)) = Len(Stack) - (3 + ArgCount)
<1>1. frames # <<>> /\ Len(Stack) \in 0..MaxStack /\ Len(Stack) >= Needs(Op, Mod)
  BY Sound
<1>2. Needs(Op, Mod) = 3
  BY DEF Needs, Arithmetic
<1>3. 3 \in 1..Len(Stack)
  BY <1>1, <1>2
<1>4. MaxArgs \in Nat /\ Words \subseteq Nat /\ MaxDepth \in Nat
  BY ConstantsOK
<1>5. Nth(3) \in Nat
  BY <1>1, <1>3, <1>4, StackFacts
<1>6. ArgCount \in 0..MaxArgs
  BY <1>4, <1>5 DEF ArgCount
<1>7. ~ (Depth >= MaxDepth) /\ ~ (Len(Stack) < 3 + ArgCount)
  BY DEF Goes, Faulty
<1>8. Len(frames) \in Nat
  BY <1>1, FrameFacts
<1>9. Depth < MaxDepth /\ Len(Stack) >= 3 + ArgCount
  BY <1>1, <1>4, <1>6, <1>7, <1>8 DEF Depth
<1>10. 3 + ArgCount \in 0..Len(Stack)
  BY <1>1, <1>6, <1>9
<1>11. /\ Without(3 + ArgCount) \in Seq(Words)
       /\ Len(Without(3 + ArgCount)) = Len(Stack) - (3 + ArgCount)
  BY <1>1, <1>10, StackFacts
<1> QED
  BY <1>1, <1>3, <1>6, <1>9, <1>11

LEMMA CallNothingTyped ==
    ASSUME VMInv, CallNothing
    PROVE  VMInv'
<1> DEFINE n == 3 + ArgCount
           s == Append(Without(n), 0)
<1>1. /\ Goes /\ Op = "XCALL" /\ UNCHANGED <<contracts, blockVars>> /\ Continue(s, NextPc)
  BY DEF CallNothing
<1>2. frames # <<>> /\ NextPc \in Nat /\ Len(Stack) \in 0..MaxStack
  BY <1>1, Sound
<1>3. ArgCount \in 0..MaxArgs /\ Len(Stack) >= 3 + ArgCount /\ MaxArgs \in Nat
  BY <1>1, Called, ConstantsOK
<1>4. n \in 1..Len(Stack)
  BY <1>2, <1>3
<1>5. 0 \in Words
  BY ConstantsOK
<1> HIDE DEF n
<1>6. s \in Seq(Words) /\ Len(s) <= MaxStack
  BY <1>2, <1>4, <1>5, Exchanged
<1> HIDE DEF s
<1> QED
  BY <1>1, <1>2, <1>6, Same

LEMMA ExecutingIsFrame ==
    ASSUME StatesOK, NEW c \in DOMAIN contracts, NEW args \in Seq(Words), Len(args) <= MaxArgs,
           NEW caller \in Words, NEW value \in Words, NEW saved \in Seq(Byte)
    PROVE  LET f == Executing(c, args, caller, value, saved)
           IN  f \in Frames /\ Bounded(f, Len(contracts))
<1>1. c \in 1..Len(contracts) /\ contracts[c] \in Contracts
  BY LenProperties, ElementOfSeq DEF StatesOK
<1>2. contracts[c].storage \in Storages
  BY <1>1 DEF Contracts
<1>3. MaxGas \in Nat /\ 0 \in Words /\ MaxStack \in Nat
  BY ConstantsOK
<1>4. <<>> \in Seq(Words) /\ Len(<<>>) = 0
  BY EmptySeq
<1>5. [i \in 0..MaxMemory - 1 |-> 0] \in [0..MaxMemory - 1 -> Words]
  BY <1>3
<1>6. c \in Nat
  BY <1>1
<1>7. Executing(c, args, caller, value, saved) \in Frames
  BY <1>2, <1>3, <1>4, <1>5, <1>6 DEF Executing, Frames
<1>8. Bounded(Executing(c, args, caller, value, saved), Len(contracts))
  BY <1>1, <1>3, <1>4 DEF Executing, Bounded
<1> QED
  BY <1>7, <1>8

LEMMA TargetIs ==
    ASSUME VMInv, Targets # {}
    PROVE  Min(Targets) \in DOMAIN contracts
<1>1. DOMAIN contracts = 1..Len(contracts)
  BY LenProperties DEF VMInv, StatesOK
<1>2. Targets \in SUBSET Nat
  BY <1>1 DEF Targets, Addressed
<1>3. PICK n \in Targets : \A m \in Targets : n <= m
  BY <1>2, Least
<1>4. Min(Targets) \in Targets
  BY <1>3 DEF Min
<1> QED
  BY <1>4 DEF Targets, Addressed

LEMMA CallTyped ==
    ASSUME VMInv, Call
    PROVE  VMInv'
<1> DEFINE target == Min(Targets)
           delegate == Mod = 1
           args == [i \in 1..ArgCount |-> Nth(3 + i)]
           caller == IF Mod = 0 THEN Self.addr ELSE Frame.caller
           g == Charged(Frame, Cost(Op, Mod))
           waiting == [g EXCEPT !.stack = Without(3 + ArgCount)]
           callee == IF delegate THEN Executing(Frame.self, args, caller, 0, Saved(Frame.self))
                     ELSE Executing(target, args, caller, 0, <<>>)
           first == Append(Callers, waiting)
           n == Len(contracts)
<1>1. /\ Goes /\ Op = "XCALL" /\ Targets # {} /\ UNCHANGED blockVars
      /\ frames' = Append(first, callee)
      /\ contracts' = IF delegate
                      THEN [contracts EXCEPT ![Frame.self].code = contracts[target].code]
                      ELSE contracts
  BY DEF Call, Waiting, Callee, Lent, Target, Delegate, Arguments
<1>2. /\ frames # <<>> /\ Len(Stack) \in 0..MaxStack /\ Mod \in 0..7
      /\ Frame \in Frames /\ Self \in Contracts /\ Frame.self \in DOMAIN contracts
      /\ Self = contracts[Frame.self] /\ Len(frames) \in Nat
  BY <1>1, Sound, FrameFacts DEF Self
<1>3. /\ ArgCount \in 0..MaxArgs /\ Len(Stack) >= 3 + ArgCount /\ Depth < MaxDepth
      /\ Without(3 + ArgCount) \in Seq(Words)
      /\ Len(Without(3 + ArgCount)) = Len(Stack) - (3 + ArgCount)
  BY <1>1, Called
<1>4. MaxArgs \in Nat /\ MaxStack \in Nat /\ 0 \in Words /\ MaxDepth \in Nat
  BY ConstantsOK
<1>5. args \in Seq(Words) /\ Len(args) <= MaxArgs
  <2>1. \A i \in 1..ArgCount : 3 + i \in 1..Len(Stack)
    BY <1>2, <1>3, <1>4
  <2>2. \A i \in 1..ArgCount : Nth(3 + i) \in Words
    BY <1>2, <2>1, StackFacts
  <2>3. ArgCount \in Nat
    BY <1>3, <1>4
  <2>4. args \in [1..ArgCount -> Words]
    BY <2>2
  <2> HIDE DEF args
  <2>5. args \in Seq(Words)
    BY <2>3, <2>4, SeqDef
  <2>6. Len(args) \in Nat /\ DOMAIN args = 1..Len(args) /\ DOMAIN args = 1..ArgCount
    BY <2>4, <2>5, LenProperties
  <2>7. Len(args) = ArgCount
    <3>1. 1..Len(args) = 1..ArgCount
      BY <2>6
    <3> QED
      BY <2>3, <2>6, <3>1, SameInterval
  <2> QED
    BY <1>3, <2>5, <2>7
<1>6. caller \in Words
  BY <1>2 DEF Frames, Contracts
<1>7. target \in DOMAIN contracts
  BY <1>1, TargetIs
<1>8. g \in Frames /\ Bounded(g, n) /\ g.status = "RUNNING"
  <2>1. g.status = Frame.status
    BY <1>2 DEF Charged, Frames
  <2> QED
    BY <1>1, <2>1, ChargedNow, Sound
<1>9. contracts \in Seq(Contracts) /\ DOMAIN contracts = 1..n /\ n \in Nat
  BY LenProperties DEF VMInv, StatesOK
<1>10. callee \in Frames /\ Bounded(callee, n)
  <2>1. Saved(Frame.self) \in Seq(Byte) /\ <<>> \in Seq(Byte)
    BY <1>2, EmptySeq DEF Saved, Contracts
  <2>2. StatesOK
    BY DEF VMInv
  <2> HIDE DEF args, caller, target
  <2> QED
    BY <1>2, <1>4, <1>5, <1>6, <1>7, <2>1, <2>2, ExecutingIsFrame
<1> HIDE DEF g, callee
<1>11. waiting \in Frames /\ Bounded(waiting, n)
  <2>1. Len(Without(3 + ArgCount)) <= MaxStack
    BY <1>2, <1>3, <1>4
  <2> QED
    BY <1>3, <1>8, <2>1 DEF Frames, Bounded
<1>12. waiting.status = "RUNNING" /\ Len(waiting.stack) + 3 <= MaxStack
  <2>1. waiting.status = "RUNNING" /\ waiting.stack = Without(3 + ArgCount)
    BY <1>8 DEF Frames
  <2> QED
    BY <1>2, <1>3, <1>4, <2>1
<1> HIDE DEF waiting
<1>13. FramesOK(first, n) /\ Len(first) = Len(frames) /\ first # <<>>
  BY <1>2, <1>11, Replaced
<1>14. first[Len(frames)] = waiting
  <2>1. /\ Callers \in Seq(Frames) /\ Len(Callers) = Len(frames) - 1
    BY <1>2, FrontFacts DEF VMInv, FramesOK, Callers
  <2> QED
    BY <1>2, <1>11, <2>1, AppendProperties
<1> HIDE DEF first
<1>15. FramesOK(frames', n) /\ frames' # <<>>
  <2>1. /\ frames' \in Seq(Frames) /\ Len(frames') = Len(frames) + 1 /\ frames' # <<>>
        /\ frames'[Len(frames) + 1] = callee
        /\ \A i \in 1..Len(frames) : frames'[i] = first[i]
    BY <1>1, <1>10, <1>13, AppendProperties DEF FramesOK
  <2>2. Len(frames) + 1 <= MaxDepth + 1
    BY <1>2, <1>3, <1>4 DEF Depth
  <2>3. \A i \in 1..Len(frames') : Bounded(frames'[i], n)
    <3> TAKE i \in 1..Len(frames')
    <3>1. i \in 1..Len(frames) \/ i = Len(frames) + 1
      BY <1>2, <2>1
    <3> QED
      BY <1>10, <1>13, <2>1, <3>1 DEF FramesOK
  <2>4. \A i \in 1..Len(frames') - 1 :
            frames'[i].status = "RUNNING" /\ Len(frames'[i].stack) + 3 <= MaxStack
    <3> TAKE i \in 1..Len(frames') - 1
    <3>1. i \in 1..Len(frames) /\ (i \in 1..Len(frames) - 1 \/ i = Len(frames))
      BY <1>2, <2>1
    <3>2. frames'[i] = first[i]
      BY <2>1, <3>1
    <3>3. CASE i = Len(frames)
      BY <1>12, <1>14, <3>2, <3>3
    <3>4. CASE i \in 1..Len(frames) - 1
      BY <1>13, <3>2, <3>4 DEF FramesOK
    <3> QED
      BY <3>1, <3>3, <3>4
  <2> QED
    BY <2>1, <2>2, <2>3, <2>4 DEF FramesOK
<1>16. contracts' \in Seq(Contracts) /\ Len(contracts') = n
  <2> DEFINE r == [Self EXCEPT !.code = contracts[target].code]
  <2>1. contracts[target] \in Contracts
    BY <1>7, <1>9, ElementOfSeq
  <2>2. r \in Contracts
    BY <1>2, <2>1 DEF Contracts
  <2>3. contracts' = IF delegate THEN [contracts EXCEPT ![Frame.self] = r] ELSE contracts
    BY <1>1, <1>2
  <2> HIDE DEF r
  <2> QED
    BY <1>2, <1>9, <2>2, <2>3, ExceptSeq
<1>17. StatesOK'
  BY <1>1, <1>16 DEF VMInv, StatesOK, blockVars
<1>18. BooksOK'
  BY <1>1, <1>2, <1>15 DEF VMInv, BooksOK, blockVars
<1> QED
  BY <1>15, <1>16, <1>17, <1>18 DEF VMInv

LEMMA GpioTyped ==
    ASSUME VMInv, Gpio
    PROVE  VMInv'
<1>1. Goes /\ Op = "GPIO" /\ UNCHANGED <<contracts, blockVars>>
  BY DEF Gpio
<1>2. frames # <<>> /\ NextPc \in Nat
  BY <1>1, Sound
<1>3. CASE Mod \in {1, 3}
  <2>1. PICK level \in {0, 1} : Continue(Append(Without(1), level), NextPc)
    BY <1>3 DEF Gpio
  <2>2. Needs(Op, Mod) = 1
    BY <1>1, <1>3 DEF Needs, Arithmetic
  <2>3. level \in Words
    BY ConstantsOK
  <2>5. 1 \in 1..Len(Stack)
    BY <1>1, <2>2, SoundOne
  <2>4. /\ Append(Without(1), level) \in Seq(Words)
        /\ Len(Append(Without(1), level)) <= MaxStack
    BY <1>2, <2>3, <2>5, Exchanged
  <2> QED
    BY <1>1, <1>2, <2>1, <2>4, Same
<1>4. CASE Mod \notin {1, 3}
  <2>1. Continue(Without(2), NextPc)
    BY <1>4 DEF Gpio
  <2>2. Needs(Op, Mod) = 2
    BY <1>1, <1>4 DEF Needs, Arithmetic
  <2>3. Without(2) \in Seq(Words) /\ Len(Without(2)) <= MaxStack
    BY <1>1, <2>2, SoundTwo
  <2> QED
    BY <1>1, <1>2, <2>1, <2>3, Same
<1> QED
  BY <1>3, <1>4

LEMMA HaltTyped ==
    ASSUME VMInv, Halt
    PROVE  VMInv'
<1> DEFINE g == Charged(Frame, Cost(Op, Mod))
           f == [g EXCEPT !.status = IF Mod = 0 THEN "HALTED" ELSE "FAILED"]
<1>1. Goes /\ UNCHANGED <<contracts, blockVars>> /\ Become(f)
  BY DEF Halt
<1>2. frames # <<>>
  BY <1>1, Sound
<1>3. g \in Frames /\ Bounded(g, Len(contracts))
  BY <1>1, ChargedNow
<1> HIDE DEF g
<1>4. f \in Frames /\ Bounded(f, Len(contracts))
  BY <1>3 DEF Frames, Bounded
<1> HIDE DEF f
<1> QED
  BY <1>1, <1>2, <1>4, Rebuilt

LEMMA FaultTyped ==
    ASSUME VMInv, Fault
    PROVE  VMInv'
<1> DEFINE cost == IF Affordable THEN Cost(Op, Mod) ELSE 0
           g == Charged(Frame, cost)
           f == [g EXCEPT !.status = "FAILED"]
<1>1. Active /\ UNCHANGED <<contracts, blockVars>> /\ Become(f)
  BY DEF Fault
<1>2. frames # <<>> /\ Frame \in Frames /\ Bounded(Frame, Len(contracts)) /\ Frame.gas \in Nat
  BY <1>1, FrameFacts DEF Active, Frames
<1>3. cost \in 0..Frame.gas
  BY <1>2, Fetched
<1> HIDE DEF cost
<1>4. g \in Frames /\ Bounded(g, Len(contracts))
  BY <1>2, <1>3, ChargedIsFrame
<1> HIDE DEF g
<1>5. f \in Frames /\ Bounded(f, Len(contracts))
  BY <1>4 DEF Frames, Bounded
<1> HIDE DEF f
<1> QED
  BY <1>1, <1>2, <1>5, Rebuilt

LEMMA InstructionTyped ==
    ASSUME VMInv, Instruction
    PROVE  VMInv'
  BY PushTyped, SwapTyped, DropTyped, CalculateTyped, ReplaceTyped, JumpTyped, SStoreTyped,
     MStoreTyped, CallNothingTyped, CallTyped, GpioTyped, HaltTyped, FaultTyped
  DEF Instruction
-----------------------------------------------------------------------------
(* The end of execute() *)

LEMMA LeftTyped ==
    ASSUME VMInv, frames # <<>>
    PROVE  Left(Frame) \in Seq(Contracts) /\ Len(Left(Frame)) = Len(contracts)
<1> DEFINE c == Frame.self
           r == [Self EXCEPT !.storage = IF Frame.status = "HALTED" THEN @ ELSE Frame.snap,
                             !.code = IF Frame.saved = <<>> THEN @ ELSE Frame.saved]
<1>1. Frame \in Frames /\ Self \in Contracts /\ c \in DOMAIN contracts /\ Self = contracts[c]
  BY FrameFacts DEF Self
<1>2. r \in Contracts
  <2> DEFINE st == IF Frame.status = "HALTED" THEN Self.storage ELSE Frame.snap
             co == IF Frame.saved = <<>> THEN Self.code ELSE Frame.saved
  <2>1. r = [Self EXCEPT !.storage = st, !.code = co]
    OBVIOUS
  <2>2. st \in Storages /\ co \in Seq(Byte)
    BY <1>1 DEF Frames, Contracts
  <2> HIDE DEF r, st, co
  <2> QED
    BY <1>1, <2>1, <2>2 DEF Contracts
<1>3. contracts \in Seq(Contracts) /\ DOMAIN contracts = 1..Len(contracts)
  BY LenProperties DEF VMInv, StatesOK
<1>4. Left(Frame) = [contracts EXCEPT ![c] = r]
  BY <1>1, <1>3 DEF Left
<1> HIDE DEF r
<1> QED
  BY <1>1, <1>2, <1>3, <1>4, ExceptSeq

LEMMA Pushing ==
    ASSUME NEW S, NEW s \in Seq(S), NEW t \in Seq(S), Len(t) = 1,
           NEW u \in Seq(S), Len(u) <= 1
    PROVE  s \o t \o u \in Seq(S) /\ Len(s \o t \o u) <= Len(s) + 2
<1>1. Len(s) \in Nat /\ Len(u) \in Nat
  BY LenProperties
<1> DEFINE st == s \o t
<1>2. st \in Seq(S) /\ Len(st) = Len(s) + Len(t)
  BY ConcatProperties
<1> HIDE DEF st
<1>3. st \o u \in Seq(S) /\ Len(st \o u) = Len(st) + Len(u)
  BY <1>2, ConcatProperties
<1>4. Len(st \o u) <= Len(s) + 2
  BY <1>1, <1>2, <1>3
<1> QED
  BY <1>3, <1>4 DEF st

LEMMA ReturnTyped ==
    ASSUME VMInv, Return
    PROVE  VMInv'
<1> DEFINE m == Len(frames) - 1
           caller == frames[m]
           ok == Frame.status = "HALTED"
           result == IF ok /\ Stack # <<>> /\ Nth(1) # 0 THEN <<Nth(1)>> ELSE <<>>
           g == Charged(caller, Frame.used)
           s == caller.stack \o <<IF ok THEN 1 ELSE 0>> \o result
           resumed == IF Covers(caller, Frame.used)
                      THEN [g EXCEPT !.stack = @ \o <<IF ok THEN 1 ELSE 0>> \o result,
                                     !.pc = @ + 1]
                      ELSE [caller EXCEPT !.status = "FAILED"]
           kept == SubSeq(frames, 1, m - 1)
           n == Len(contracts)
<1>1. /\ frames # <<>> /\ Len(frames) > 1
      /\ frames' = Append(SubSeq(frames, 1, Len(frames) - 2), resumed)
      /\ contracts' = Left(Frame) /\ UNCHANGED blockVars
  BY DEF Return, Ended, Resumed
<1>2. /\ frames \in Seq(Frames) /\ Len(frames) \in Nat /\ Frame \in Frames
      /\ Stack \in Seq(Words) /\ Len(Stack) \in Nat
  BY <1>1, FrameFacts DEF VMInv, FramesOK
<1>3. m \in Nat \ {0} /\ m \in 1..Len(frames) /\ m \in 1..Len(frames) - 1 /\ m - 1 = Len(frames) - 2
  BY <1>1, <1>2
<1> HIDE DEF m
<1>4. /\ caller \in Frames /\ Bounded(caller, n) /\ caller.status = "RUNNING"
      /\ Len(caller.stack) + 3 <= MaxStack
  BY <1>2, <1>3, ElementOfSeq DEF VMInv, FramesOK
<1>5. 0 \in Words /\ 1 \in Words /\ MaxStack \in Nat /\ MaxGas \in Nat
  BY ConstantsOK
<1>6. result \in Seq(Words) /\ Len(result) <= 1 /\ Len(result) \in Nat
  <2>1. Stack # <<>> => Nth(1) \in Words
    <3>1. Stack # <<>> => 1 \in 1..Len(Stack)
      BY <1>2, EmptySeq
    <3> QED
      BY <1>1, <3>1, StackFacts
  <2>2. Stack # <<>> => <<Nth(1)>> \in Seq(Words) /\ Len(<<Nth(1)>>) = 1
    BY <2>1
  <2>3. <<>> \in Seq(Words) /\ Len(<<>>) = 0
    BY EmptySeq
  <2> QED
    BY <2>2, <2>3
<1> HIDE DEF result
<1>7. s \in Seq(Words) /\ Len(s) <= MaxStack
  <2> DEFINE one == <<IF ok THEN 1 ELSE 0>>
  <2>1. one \in Seq(Words) /\ Len(one) = 1
    BY <1>5
  <2>2. caller.stack \in Seq(Words)
    BY <1>4 DEF Frames
  <2>3. Len(caller.stack) \in Nat
    BY <2>2, LenProperties
  <2> HIDE DEF one, caller
  <2>4. s \in Seq(Words) /\ Len(s) <= Len(caller.stack) + 2
    BY <1>6, <2>1, <2>2, Pushing DEF one
  <2> HIDE DEF s
  <2> QED
    BY <1>4, <1>5, <2>3, <2>4 DEF caller
<1>8. resumed \in Frames /\ Bounded(resumed, n)
  <2> HIDE DEF caller
  <2>1. CASE Covers(caller, Frame.used)
    <3>1. Frame.used \in 0..caller.gas
      BY <1>2, <1>4, <2>1 DEF Covers, Frames
    <3>2. g \in Frames /\ Bounded(g, n)
      BY <1>4, <3>1, ChargedIsFrame
    <3>3. g.stack = caller.stack
      BY <1>4 DEF Charged, Frames
    <3> DEFINE f == [g EXCEPT !.stack = s, !.pc = @ + 1]
    <3>4. resumed = f
      BY <2>1, <3>2, <3>3 DEF Frames
    <3> HIDE DEF g, s
    <3>6. g.pc + 1 \in Nat
      BY <3>2 DEF Frames
    <3>5. f \in Frames /\ Bounded(f, n)
      BY <1>7, <3>2, <3>6 DEF Frames, Bounded
    <3> HIDE DEF resumed, f
    <3> QED
      BY <3>4, <3>5
  <2>2. CASE ~ Covers(caller, Frame.used)
    BY <1>4, <2>2 DEF Frames, Bounded
  <2> QED
    BY <2>1, <2>2
<1> HIDE DEF resumed, caller
<1>9. kept \in Seq(Frames) /\ Len(kept) = m - 1 /\ \A i \in 1..m - 1 : kept[i] = frames[i]
  <2> DEFINE k == m - 1
  <2>1. k \in Nat /\ \A i \in 1..k : frames[i] \in Frames
    BY <1>2, <1>3, ElementOfSeq
  <2> HIDE DEF k
  <2>2. /\ SubSeq(frames, 1, k) \in Seq(Frames)
        /\ Len(SubSeq(frames, 1, k)) = IF 1 <= k THEN k - 1 + 1 ELSE 0
        /\ \A i \in 1..k - 1 + 1 : SubSeq(frames, 1, k)[i] = frames[1 + i - 1]
    BY <2>1, SubSeqProperties
  <2>3. \A i \in 1..k : i \in 1..k - 1 + 1 /\ 1 + i - 1 = i
    BY <2>1
  <2>4. Len(SubSeq(frames, 1, k)) = k /\ \A i \in 1..k : SubSeq(frames, 1, k)[i] = frames[i]
    BY <2>1, <2>2, <2>3
  <2> QED
    BY <2>2, <2>4 DEF k
<1> HIDE DEF kept
<1>10. FramesOK(frames', n) /\ frames' # <<>>
  <2>1. frames' = Append(kept, resumed)
    BY <1>1, <1>3 DEF kept
  <2>2. /\ frames' \in Seq(Frames) /\ Len(frames') = m /\ frames' # <<>>
        /\ frames'[m] = resumed /\ \A i \in 1..m - 1 : frames'[i] = frames[i]
    BY <1>3, <1>8, <1>9, <2>1, AppendProperties
  <2>3. MaxDepth \in Nat /\ Len(frames) <= MaxDepth + 1
    BY ConstantsOK DEF VMInv, FramesOK
  <2>4. \A i \in 1..Len(frames') : Bounded(frames'[i], n)
    <3> TAKE i \in 1..Len(frames')
    <3>1. i = m \/ (i \in 1..m - 1 /\ i \in 1..Len(frames))
      BY <1>2, <1>3, <2>2
    <3> QED
      BY <1>8, <2>2, <3>1 DEF VMInv, FramesOK
  <2>5. \A i \in 1..Len(frames') - 1 :
            frames'[i].status = "RUNNING" /\ Len(frames'[i].stack) + 3 <= MaxStack
    <3> TAKE i \in 1..Len(frames') - 1
    <3>1. i \in 1..m - 1 /\ i \in 1..Len(frames) - 1
      BY <1>2, <1>3, <2>2
    <3> QED
      BY <2>2, <3>1 DEF VMInv, FramesOK
  <2>6. Len(frames') <= MaxDepth + 1
    BY <1>2, <1>3, <2>2, <2>3
  <2> QED
    BY <2>2, <2>4, <2>5, <2>6 DEF FramesOK
<1>11. contracts' \in Seq(Contracts) /\ Len(contracts') = n
  BY <1>1, LeftTyped
<1>12. StatesOK' /\ BooksOK'
  BY <1>1, <1>10, <1>11 DEF VMInv, StatesOK, BooksOK, blockVars
<1> QED
  BY <1>10, <1>11, <1>12 DEF VMInv
-----------------------------------------------------------------------------
(* Blocks *)

LEMMA NoFrames ==
    ASSUME NEW n
    PROVE  FramesOK(<<>>, n)
<1>1. <<>> \in Seq(Frames) /\ Len(<<>>) = 0 /\ MaxDepth \in Nat
  BY EmptySeq, ConstantsOK
<1> QED
  BY <1>1 DEF FramesOK

LEMMA InitTyped ==
    ASSUME Init
    PROVE  VMInv
<1>1. contracts \in Seq(Range(contracts)) /\ \A i \in DOMAIN contracts : IsContract(contracts[i])
  BY MVMAssumption DEF Init
<1>2. \A i \in DOMAIN contracts : contracts[i] \in Contracts
  BY <1>1, ContractsAre
<1>3. Range(contracts) \subseteq Contracts
  BY <1>2 DEF Range
<1>4. contracts \in Seq(Contracts)
  BY <1>1, <1>3, SeqMonotonic
<1>5. StatesOK
  BY <1>4 DEF Init, StatesOK
<1>6. FramesOK(frames, Len(contracts))
  BY NoFrames DEF Init
<1>7. BooksOK
  BY EmptySeq DEF Init, BooksOK, Devices
<1> QED
  BY <1>5, <1>6, <1>7 DEF VMInv

LEMMA CreateBlockTyped ==
    ASSUME VMInv, CreateBlock
    PROVE  VMInv'
<1>1. /\ phase = "idle" /\ frames = <<>> /\ UNCHANGED <<contracts, frames, txSnap, sealed>>
      /\ queue' \in UNION {[1..m -> Calls] : m \in 1..MaxCalls} /\ included' = <<>>
      /\ base' = contracts
      /\ phase' = "create" /\ device' = "producer"
  BY DEF CreateBlock, VMInv, BooksOK
<1>2. queue' \in Seq(Calls)
  <2>1. PICK m \in 1..MaxCalls : queue' \in [1..m -> Calls]
    BY <1>1
  <2>2. m \in Nat
    OBVIOUS
  <2> QED
    BY <2>1, <2>2, SeqDef
<1>3. included' \in Seq(Calls)
  BY <1>1, EmptySeq
<1>4. StatesOK'
  BY <1>1 DEF VMInv, StatesOK
<1>5. BooksOK'
  BY <1>1, <1>2, <1>3 DEF VMInv, BooksOK, Devices
<1>6. FramesOK(frames', Len(contracts'))
  BY <1>1 DEF VMInv
<1> QED
  BY <1>4, <1>5, <1>6 DEF VMInv

LEMMA StartCallTyped ==
    ASSUME VMInv, StartCall
    PROVE  VMInv'
<1> DEFINE c == Head(queue)
           f == Executing(c.contract, c.args, c.sender, c.value, <<>>)
<1>1. /\ frames = <<>> /\ queue # <<>>
      /\ UNCHANGED <<device, included, base, sealed>>
  BY DEF StartCall
<1>2. queue \in Seq(Calls) /\ c \in Calls /\ Tail(queue) \in Seq(Calls)
  BY <1>1, HeadTailProperties DEF VMInv, BooksOK
<1>3. CASE Callable(c.contract)
  <2>1. /\ frames' = <<f>> /\ txSnap' = contracts /\ queue' = queue
        /\ UNCHANGED <<contracts, phase>>
    BY <1>3 DEF StartCall
  <2>2. /\ c.args \in Seq(Words) /\ Len(c.args) <= MaxArgs /\ c.sender \in Words
        /\ c.value \in Words
    BY <1>2, MVMAssumption
  <2>3. c.contract \in DOMAIN contracts
    BY <1>3 DEF Callable
  <2>4. StatesOK /\ <<>> \in Seq(Byte)
    BY EmptySeq DEF VMInv
  <2>5. f \in Frames /\ Bounded(f, Len(contracts))
    <3> HIDE DEF c
    <3> QED
      BY <2>2, <2>3, <2>4, ExecutingIsFrame
  <2> HIDE DEF f
  <2>6. <<f>> \in Seq(Frames) /\ Len(<<f>>) = 1 /\ <<f>>[1] = f /\ <<f>> # <<>>
    BY <2>5
  <2>7. MaxDepth \in Nat
    BY ConstantsOK
  <2>8. FramesOK(frames', Len(contracts'))
    BY <2>1, <2>5, <2>6, <2>7 DEF FramesOK
  <2>9. StatesOK'
    BY <1>1, <2>1 DEF VMInv, StatesOK
  <2>10. BooksOK'
    BY <1>1, <2>1, <2>6 DEF VMInv, BooksOK
  <2> QED
    BY <2>8, <2>9, <2>10 DEF VMInv
<1>4. CASE ~ Callable(c.contract)
  <2>1. /\ frames' = <<>> /\ txSnap' = txSnap /\ contracts' \in {contracts, base}
        /\ \/ phase' = phase /\ queue' = Tail(queue)
           \/ phase' = "rejected" /\ queue' = <<>>
    BY <1>1, <1>4 DEF StartCall, Reject
  <2>2. StatesOK'
    BY <1>1, <2>1 DEF VMInv, StatesOK
  <2>3. BooksOK'
    BY <1>1, <1>2, <2>1, EmptySeq DEF VMInv, BooksOK
  <2> QED
    BY <2>1, <2>2, <2>3, NoFrames DEF VMInv
<1> QED
  BY <1>3, <1>4

LEMMA FinishCallTyped ==
    ASSUME VMInv, FinishCall
    PROVE  VMInv'
<1>1. frames # <<>> /\ frames' = <<>> /\ UNCHANGED <<device, base, txSnap, sealed>>
  BY DEF FinishCall, Ended
<1>2. /\ Left(Frame) \in Seq(Contracts) /\ Len(Left(Frame)) = Len(contracts)
      /\ txSnap \in Seq(Contracts) /\ Len(txSnap) = Len(contracts)
      /\ base \in Seq(Contracts) /\ Len(base) = Len(contracts)
  BY <1>1, LeftTyped DEF VMInv, StatesOK
<1>3. /\ queue \in Seq(Calls) /\ included \in Seq(Calls) /\ queue # <<>>
      /\ phase \in {"create", "apply", "replay"}
  BY <1>1 DEF VMInv, BooksOK
<1>4. Head(queue) \in Calls /\ Tail(queue) \in Seq(Calls)
  BY <1>3, HeadTailProperties
<1>5. Append(included, Head(queue)) \in Seq(Calls)
  BY <1>3, <1>4, AppendProperties
<1>6. <<>> \in Seq(Calls)
  BY EmptySeq
<1>7. /\ contracts' \in Seq(Contracts) /\ Len(contracts') = Len(contracts)
      /\ queue' \in Seq(Calls) /\ included' \in Seq(Calls)
      /\ phase' = phase \/ (phase' = "rejected" /\ queue' = <<>>)
  BY <1>2, <1>3, <1>4, <1>5, <1>6 DEF FinishCall, RolledBack, Reject
<1>8. StatesOK'
  BY <1>1, <1>7 DEF VMInv, StatesOK
<1>9. BooksOK'
  BY <1>1, <1>3, <1>7 DEF VMInv, BooksOK
<1> QED
  BY <1>1, <1>8, <1>9, NoFrames DEF VMInv

LEMMA BookkeepingTyped ==
    ASSUME VMInv, Seal \/ CheckRoot \/ EndReplay
    PROVE  VMInv'
<1>1. frames = <<>> /\ frames' = <<>> /\ included' = included
  BY DEF Seal, CheckRoot, EndReplay
<1>2. /\ contracts' \in {contracts, base, sealed} /\ base' = base /\ txSnap' = txSnap
      /\ sealed' \in {contracts, sealed}
  BY DEF Seal, CheckRoot, EndReplay, Reject
<1>3. StatesOK'
  BY <1>2 DEF VMInv, StatesOK
<1>4. BooksOK'
  <2>1. CASE Seal
    BY <1>1, <2>1 DEF Seal, VMInv, BooksOK
  <2>2. CASE CheckRoot
    BY <1>1, <2>2, EmptySeq DEF CheckRoot, Reject, VMInv, BooksOK
  <2>3. CASE EndReplay
    BY <1>1, <2>3 DEF EndReplay, VMInv, BooksOK, Devices
  <2> QED
    BY <2>1, <2>2, <2>3
<1> QED
  BY <1>1, <1>3, <1>4, NoFrames DEF VMInv

LEMMA NextTyped ==
    ASSUME VMInv, [Next]_vars
    PROVE  VMInv'
<1>1. CASE UNCHANGED vars
  <2>1. UNCHANGED <<contracts, frames>> /\ UNCHANGED blockVars
    BY <1>1 DEF vars
  <2> QED
    BY <2>1 DEF VMInv, StatesOK, BooksOK, blockVars
<1> QED
  BY <1>1, InstructionTyped, ReturnTyped, CreateBlockTyped, StartCallTyped, FinishCallTyped,
     BookkeepingTyped
  DEF Next, Progress

LEMMA InvTypes ==
    ASSUME VMInv
    PROVE  TypeOK
<1>1. /\ frames \in Seq(Frames) /\ Len(frames) \in Nat /\ DOMAIN frames = 1..Len(frames)
      /\ contracts \in Seq(Contracts)
  BY LenProperties DEF VMInv, FramesOK, StatesOK
<1>2. ASSUME NEW i \in DOMAIN frames
      PROVE  LET f == frames[i]
             IN  /\ Len(f.stack) <= MaxStack /\ \A k \in DOMAIN f.stack : f.stack[k] \in Words
                 /\ f.gas >= 0 /\ f.used >= 0 /\ f.gas + f.used = MaxGas
                 /\ i < Len(frames) => f.status = "RUNNING"
  <2>1. i \in 1..Len(frames) /\ frames[i] \in Frames /\ Bounded(frames[i], Len(contracts))
    BY <1>1, ElementOfSeq DEF VMInv, FramesOK
  <2>2. frames[i].stack \in Seq(Words) /\ frames[i].gas \in Nat /\ frames[i].used \in Nat
    BY <2>1 DEF Frames
  <2>3. \A k \in DOMAIN frames[i].stack : frames[i].stack[k] \in Words
    BY <2>2, LenProperties, ElementOfSeq
  <2>4. i < Len(frames) => frames[i].status = "RUNNING"
    <3> SUFFICES ASSUME i < Len(frames)
                 PROVE  frames[i].status = "RUNNING"
      OBVIOUS
    <3>1. i \in 1..Len(frames) - 1
      BY <1>1, <2>1
    <3> QED
      BY <3>1 DEF VMInv, FramesOK
  <2> QED
    BY <2>1, <2>2, <2>3, <2>4 DEF Bounded
<1>3. ASSUME NEW i \in DOMAIN contracts
      PROVE  Cardinality(DOMAIN contracts[i].storage) <= MaxStorage
  <2>1. contracts[i] \in Contracts
    BY <1>1, LenProperties, ElementOfSeq
  <2> QED
    BY <2>1 DEF Contracts, Storages
<1>4. Len(frames) <= MaxDepth + 1
  BY DEF VMInv, FramesOK
<1>5. phase \in {"idle", "create", "apply", "replay", "rejected"} /\ device \in Devices
  BY DEF VMInv, BooksOK
<1> QED
  BY <1>2, <1>3, <1>4, <1>5 DEF TypeOK

\* Whatever bytes a contract consists of, each machine keeps within its stack and
\* its gas, a contract within its storage, and nested calls within their depth
\* (MVM::execute in mvm.h).
THEOREM MachineKeepsBounds == Spec => []TypeOK
<1>1. Init => VMInv
  BY InitTyped
<1>2. VMInv /\ [Next]_vars => VMInv'
  BY NextTyped
<1>3. VMInv => TypeOK
  BY InvTypes
<1> QED
  BY <1>1, <1>2, <1>3, PTL DEF Spec
-----------------------------------------------------------------------------
(* The code of a contract after delegate calls *)

\* The machines that will put back the code of contract c.
Borrowed(c) == {k \in 1..Len(frames) : frames[k].self = c /\ frames[k].saved # <<>>}

SameCodes(s, t) == \A i \in DOMAIN contracts : s[i].code = t[i].code

\* Delegate calls may be nested in one contract, each saving what the one before it
\* has left in the contract's code: only the outermost has the contract's own.
CodeKept(c) ==
    \/ Borrowed(c) = {} /\ contracts[c].code = base[c].code
    \/ \E k \in Borrowed(c) :
          frames[k].saved = base[c].code /\ \A j \in Borrowed(c) : k <= j

CodesInv ==
    /\ SameCodes(txSnap, base) /\ SameCodes(sealed, base)
    /\ \A c \in DOMAIN contracts : CodeKept(c)

\* A step after which each machine has the contract and the saved code that it had,
\* and each contract its code.
LEMMA CodesStay ==
    ASSUME CodesInv, UNCHANGED <<base, txSnap, sealed>>, Len(frames') = Len(frames),
           \A k \in 1..Len(frames) :
               frames'[k].self = frames[k].self /\ frames'[k].saved = frames[k].saved,
           DOMAIN contracts' = DOMAIN contracts,
           \A c \in DOMAIN contracts : contracts'[c].code = contracts[c].code
    PROVE  CodesInv'
<1>1. ASSUME NEW c \in DOMAIN contracts
      PROVE  CodeKept(c)'
  <2>1. Borrowed(c)' = Borrowed(c)
    BY DEF Borrowed
  <2>2. \A k \in Borrowed(c) : frames'[k].saved = frames[k].saved
    BY DEF Borrowed
  <2>3. CodeKept(c)
    BY DEF CodesInv
  <2> QED
    BY <2>1, <2>2, <2>3 DEF CodeKept
<1>2. SameCodes(txSnap, base)' /\ SameCodes(sealed, base)'
  BY DEF CodesInv, SameCodes
<1> QED
  BY <1>1, <1>2 DEF CodesInv

LEMMA CodesBecome ==
    ASSUME VMInv, CodesInv, frames # <<>>, NEW f, Become(f),
           f.self = Frame.self, f.saved = Frame.saved, UNCHANGED blockVars,
           DOMAIN contracts' = DOMAIN contracts,
           \A c \in DOMAIN contracts : contracts'[c].code = contracts[c].code
    PROVE  CodesInv'
<1> DEFINE S == Frames \cup {f}
<1>1. frames \in Seq(Frames) /\ Len(frames) \in Nat \ {0} /\ Frame = frames[Len(frames)]
  BY FrameFacts DEF VMInv, FramesOK
<1>2. /\ Callers \in Seq(Frames) /\ Len(Callers) = Len(frames) - 1
      /\ \A i \in 1..Len(frames) - 1 : Callers[i] = frames[i]
  BY <1>1, FrontFacts DEF Callers
<1>3. Callers \in Seq(S) /\ f \in S
  BY <1>2, SeqMonotonic
<1> HIDE DEF S
<1>4. /\ Len(frames') = Len(frames) /\ frames'[Len(frames)] = f
      /\ \A i \in 1..Len(frames) - 1 : frames'[i] = frames[i]
  BY <1>1, <1>2, <1>3, AppendProperties DEF Become
<1>5. \A k \in 1..Len(frames) :
          frames'[k].self = frames[k].self /\ frames'[k].saved = frames[k].saved
  <2> TAKE k \in 1..Len(frames)
  <2>1. k = Len(frames) \/ k \in 1..Len(frames) - 1
    BY <1>1
  <2> QED
    BY <1>1, <1>4, <2>1
<1>6. UNCHANGED <<base, txSnap, sealed>>
  BY DEF blockVars
<1> QED
  BY <1>4, <1>5, <1>6, CodesStay

LEMMA CodesContinue ==
    ASSUME VMInv, CodesInv, Goes, NEW stack, NEW pc, Continue(stack, pc), UNCHANGED blockVars,
           DOMAIN contracts' = DOMAIN contracts,
           \A c \in DOMAIN contracts : contracts'[c].code = contracts[c].code
    PROVE  CodesInv'
<1> DEFINE f == [Charged(Frame, Cost(Op, Mod)) EXCEPT !.stack = stack, !.pc = pc]
<1>1. frames # <<>> /\ Frame \in Frames
  BY Sound, FrameFacts
<1>2. f.self = Frame.self /\ f.saved = Frame.saved
  BY <1>1 DEF Charged, Frames
<1>3. Become(f)
  BY DEF Continue
<1> HIDE DEF f
<1> QED
  BY <1>1, <1>2, <1>3, CodesBecome

\* All instructions but a call leave the codes alone.
LEMMA CodesUntouched ==
    ASSUME VMInv, Instruction, ~ Call
    PROVE  /\ DOMAIN contracts' = DOMAIN contracts
           /\ \A c \in DOMAIN contracts : contracts'[c].code = contracts[c].code
<1>1. CASE SStore
  <2>1. contracts' = [contracts EXCEPT ![Frame.self].storage = StorageSet(@, Nth(2), Nth(1))]
    BY <1>1 DEF SStore
  <2>2. contracts \in Seq(Contracts) /\ DOMAIN contracts = 1..Len(contracts)
    BY LenProperties DEF VMInv, StatesOK
  <2>3. \A c \in DOMAIN contracts : contracts[c] \in Contracts
    BY <2>2, ElementOfSeq
  <2> QED
    BY <2>1, <2>3 DEF Contracts
<1>2. CASE ~ SStore
  <2>1. contracts' = contracts
    BY <1>2 DEF Instruction, Push, Swap, Drop, Calculate, Replace, Jump, MStore, CallNothing,
                Gpio, Halt, Fault
  <2> QED
    BY <2>1
<1> QED
  BY <1>1, <1>2

LEMMA PlainCodes ==
    ASSUME VMInv, CodesInv, Instruction, ~ Call
    PROVE  CodesInv'
<1>1. UNCHANGED blockVars
  BY DEF Instruction, Push, Swap, Drop, Calculate, Replace, Jump, SStore, MStore, CallNothing,
         Gpio, Halt, Fault
<1>2. /\ DOMAIN contracts' = DOMAIN contracts
      /\ \A c \in DOMAIN contracts : contracts'[c].code = contracts[c].code
  BY CodesUntouched
<1>3. ASSUME NEW stack, NEW pc, Goes, Continue(stack, pc)
      PROVE  CodesInv'
  BY <1>1, <1>2, <1>3, CodesContinue
<1>4. ASSUME NEW f, frames # <<>>, Become(f), f.self = Frame.self, f.saved = Frame.saved
      PROVE  CodesInv'
  BY <1>1, <1>2, <1>4, CodesBecome
<1>5. frames # <<>> => Frame \in Frames
  BY FrameFacts
<1>6. CASE Push
  BY <1>3, <1>6 DEF Push
<1>7. CASE Swap
  BY <1>3, <1>7 DEF Swap
<1>8. CASE Drop
  BY <1>3, <1>8 DEF Drop
<1>9. CASE Calculate
  BY <1>3, <1>9 DEF Calculate
<1>10. CASE Replace
  BY <1>3, <1>10 DEF Replace
<1>11. CASE Jump
  BY <1>3, <1>11 DEF Jump
<1>12. CASE SStore
  BY <1>3, <1>12 DEF SStore
<1>13. CASE MStore
  <2> DEFINE f == [Charged(Frame, Cost(Op, Mod)) EXCEPT
                      !.stack = Without(2), !.pc = NextPc, !.memory[Nth(2)] = Nth(1)]
  <2>1. Become(f) /\ frames # <<>>
    BY <1>13 DEF MStore, Goes, Active
  <2>2. f.self = Frame.self /\ f.saved = Frame.saved
    BY <1>5, <2>1 DEF Charged, Frames
  <2> HIDE DEF f
  <2> QED
    BY <1>4, <2>1, <2>2
<1>14. CASE CallNothing
  BY <1>3, <1>14 DEF CallNothing
<1>15. CASE Gpio
  BY <1>3, <1>15 DEF Gpio
<1>16. CASE Halt
  <2> DEFINE f == [Charged(Frame, Cost(Op, Mod)) EXCEPT
                      !.status = IF Mod = 0 THEN "HALTED" ELSE "FAILED"]
  <2>1. Become(f) /\ frames # <<>>
    BY <1>16 DEF Halt, Goes, Active
  <2>2. f.self = Frame.self /\ f.saved = Frame.saved
    BY <1>5, <2>1 DEF Charged, Frames
  <2> HIDE DEF f
  <2> QED
    BY <1>4, <2>1, <2>2
<1>17. CASE Fault
  <2> DEFINE f == [Charged(Frame, IF Affordable THEN Cost(Op, Mod) ELSE 0) EXCEPT
                      !.status = "FAILED"]
  <2>1. Become(f) /\ frames # <<>>
    BY <1>17 DEF Fault, Active
  <2>2. f.self = Frame.self /\ f.saved = Frame.saved
    BY <1>5, <2>1 DEF Charged, Frames
  <2> HIDE DEF f
  <2> QED
    BY <1>4, <2>1, <2>2
<1> QED
  BY <1>6, <1>7, <1>8, <1>9, <1>10, <1>11, <1>12, <1>13, <1>14, <1>15, <1>16, <1>17
  DEF Instruction

\* What an XCALL leaves behind: the caller waits, and the callee begins.
LEMMA CallIs ==
    ASSUME VMInv, Call
    PROVE  LET n == Len(frames)
           IN  /\ frames # <<>> /\ n \in Nat \ {0} /\ Frame = frames[n]
               /\ Len(frames') = n + 1 /\ frames'[n] = Waiting /\ frames'[n + 1] = Callee
               /\ \A i \in 1..n - 1 : frames'[i] = frames[i]
               /\ Waiting.self = Frame.self /\ Waiting.saved = Frame.saved
               /\ Waiting.pc = Frame.pc /\ Callee.pc = 0
               /\ IF Delegate THEN Callee.self = Frame.self /\ Callee.saved = Code
                  ELSE Callee.self = Target /\ Callee.saved = <<>>
               /\ Code # <<>> /\ Frame.self \in DOMAIN contracts
               /\ contracts' = Lent /\ DOMAIN contracts' = DOMAIN contracts
<1> DEFINE S == Frames \cup {Waiting, Callee}
           n == Len(frames)
<1>1. /\ Goes /\ frames' = Append(Append(Callers, Waiting), Callee)
      /\ contracts' = Lent /\ DOMAIN contracts' = DOMAIN contracts
  BY DEF Call, Lent
<1>2. /\ frames # <<>> /\ frames \in Seq(Frames) /\ n \in Nat \ {0} /\ Frame = frames[n]
      /\ Frame \in Frames /\ Frame.self \in DOMAIN contracts /\ Code # <<>>
  BY <1>1, Sound, FrameFacts DEF VMInv, FramesOK
<1>3. /\ Waiting.self = Frame.self /\ Waiting.saved = Frame.saved /\ Waiting.pc = Frame.pc
  BY <1>2 DEF Waiting, Charged, Frames
<1>4. /\ Callee.pc = 0
      /\ IF Delegate THEN Callee.self = Frame.self /\ Callee.saved = Code
         ELSE Callee.self = Target /\ Callee.saved = <<>>
  BY DEF Callee, Executing, Saved, Code, Self
<1>5. /\ Len(frames') = n + 1 /\ frames'[n + 1] = Callee /\ frames'[n] = Waiting
      /\ \A i \in 1..n - 1 : frames'[i] = frames[i]
  <2>1. /\ Callers \in Seq(Frames) /\ Len(Callers) = n - 1
        /\ \A i \in 1..n - 1 : Callers[i] = frames[i]
    BY <1>2, FrontFacts DEF Callers
  <2>2. Callers \in Seq(S) /\ Waiting \in S /\ Callee \in S
    BY <2>1, SeqMonotonic
  <2> DEFINE first == Append(Callers, Waiting)
  <2> HIDE DEF S, n
  <2>3. /\ first \in Seq(S) /\ Len(first) = n - 1 + 1 /\ first[n - 1 + 1] = Waiting
        /\ \A i \in 1..n - 1 : first[i] = Callers[i]
    BY <2>1, <2>2, AppendProperties
  <2>4. frames' = Append(first, Callee)
    BY <1>1
  <2> HIDE DEF first
  <2>5. /\ Len(frames') = Len(first) + 1 /\ frames'[Len(first) + 1] = Callee
        /\ \A i \in 1..Len(first) : frames'[i] = first[i]
    BY <2>2, <2>3, <2>4, AppendProperties
  <2>6. n - 1 + 1 = n /\ n \in 1..n /\ \A i \in 1..n - 1 : i \in 1..n
    BY <1>2
  <2> QED
    BY <2>1, <2>3, <2>5, <2>6
<1> QED
  BY <1>1, <1>2, <1>3, <1>4, <1>5

LEMMA CallCodes ==
    ASSUME VMInv, CodesInv, Call
    PROVE  CodesInv'
<1> DEFINE n == Len(frames)
           own == Frame.self
<1>1. /\ UNCHANGED blockVars
      /\ contracts' = IF Delegate
                      THEN [contracts EXCEPT ![own].code = contracts[Target].code]
                      ELSE contracts
  BY DEF Call, Lent
<1>2. n \in Nat \ {0} /\ Frame = frames[n] /\ own \in DOMAIN contracts
  BY CallIs
<1>3. Waiting.self = own /\ Waiting.saved = Frame.saved
  BY CallIs
<1>4. IF Delegate THEN Callee.self = own /\ Callee.saved = contracts[own].code
      ELSE Callee.saved = <<>>
  BY CallIs DEF Code, Self
<1>5. contracts[own].code # <<>>
  BY CallIs DEF Code, Self
<1>6. /\ Len(frames') = n + 1 /\ frames'[n + 1] = Callee /\ frames'[n] = Waiting
      /\ \A i \in 1..n - 1 : frames'[i] = frames[i]
  BY CallIs
<1>7. \A k \in 1..n : frames'[k].self = frames[k].self /\ frames'[k].saved = frames[k].saved
  <2> TAKE k \in 1..n
  <2>1. k = n \/ k \in 1..n - 1
    BY <1>2
  <2> QED
    BY <1>2, <1>3, <1>6, <2>1
<1> HIDE DEF n
<1>8. DOMAIN contracts' = DOMAIN contracts
  BY <1>1
<1>9. ASSUME NEW c \in DOMAIN contracts
      PROVE  CodeKept(c)'
  <2>1. CodeKept(c)
    BY DEF CodesInv
  <2>2. base' = base
    BY <1>1 DEF blockVars
  <2>3. Borrowed(c) \subseteq 1..n
    BY DEF Borrowed, n
  <2>4. CASE Delegate /\ c = own
    <3>1. Borrowed(c)' = Borrowed(c) \cup {n + 1}
      <4>1. 1..n + 1 = 1..n \cup {n + 1}
        BY <1>2
      <4> QED
        BY <1>4, <1>5, <1>6, <1>7, <2>4, <4>1 DEF Borrowed, n
    <3>2. CASE Borrowed(c) = {}
      <4>1. frames'[n + 1].saved = base[c].code
        BY <1>4, <1>6, <2>1, <2>4, <3>2 DEF CodeKept
      <4>2. Borrowed(c)' = {n + 1} /\ n + 1 \in Nat
        BY <1>2, <3>1, <3>2
      <4>3. \A j \in Borrowed(c)' : n + 1 <= j
        BY <4>2
      <4> QED
        BY <2>2, <4>1, <4>2, <4>3 DEF CodeKept
    <3>3. CASE Borrowed(c) # {}
      <4>1. PICK k \in Borrowed(c) :
                frames[k].saved = base[c].code /\ \A j \in Borrowed(c) : k <= j
        BY <2>1, <3>3 DEF CodeKept
      <4>2. k \in 1..n /\ k <= n + 1
        BY <1>2, <2>3
      <4>3. frames'[k].saved = base[c].code
        BY <1>7, <4>1, <4>2
      <4>4. \A j \in Borrowed(c)' : k <= j
        BY <3>1, <4>1, <4>2
      <4>5. k \in Borrowed(c)'
        BY <3>1
      <4> QED
        BY <2>2, <4>3, <4>4, <4>5 DEF CodeKept
    <3> QED
      BY <3>2, <3>3
  <2>5. CASE ~ (Delegate /\ c = own)
    <3>1. Borrowed(c)' = Borrowed(c)
      <4>1. 1..n + 1 = 1..n \cup {n + 1}
        BY <1>2
      <4>2. ~ (frames'[n + 1].self = c /\ frames'[n + 1].saved # <<>>)
        BY <1>4, <1>6, <2>5
      <4>3. Borrowed(c)' = {k \in 1..n + 1 : frames'[k].self = c /\ frames'[k].saved # <<>>}
        BY <1>6 DEF Borrowed
      <4>4. Borrowed(c) = {k \in 1..n : frames[k].self = c /\ frames[k].saved # <<>>}
        BY DEF Borrowed, n
      <4> QED
        BY <1>7, <4>1, <4>2, <4>3, <4>4
    <3>2. contracts'[c].code = contracts[c].code
      <4>1. CASE Delegate
        <5>1. c # own
          BY <2>5, <4>1
        <5>2. contracts'[c] = contracts[c]
          BY <1>1, <4>1, <5>1
        <5> QED
          BY <5>2
      <4>2. CASE ~ Delegate
        BY <1>1, <4>2
      <4> QED
        BY <4>1, <4>2
    <3>3. \A k \in Borrowed(c) : frames'[k].saved = frames[k].saved
      BY <1>7, <2>3
    <3> QED
      BY <2>1, <2>2, <3>1, <3>2, <3>3 DEF CodeKept
  <2> QED
    BY <2>4, <2>5
<1>10. SameCodes(txSnap, base)' /\ SameCodes(sealed, base)'
  BY <1>1, <1>8 DEF CodesInv, SameCodes, blockVars
<1> QED
  BY <1>8, <1>9, <1>10 DEF CodesInv

LEMMA LeftCode ==
    ASSUME VMInv, frames # <<>>, NEW c \in DOMAIN contracts
    PROVE  Left(Frame)[c].code = IF c = Frame.self /\ Frame.saved # <<>> THEN Frame.saved
                                 ELSE contracts[c].code
<1>1. Frame.self \in DOMAIN contracts
  BY FrameFacts
<1>2. contracts \in Seq(Contracts) /\ DOMAIN contracts = 1..Len(contracts)
  BY LenProperties DEF VMInv, StatesOK
<1>3. contracts[c] \in Contracts
  BY <1>2, ElementOfSeq
<1> QED
  BY <1>1, <1>3 DEF Left, Contracts

\* When the innermost machine ends, what it saved is back and the others still
\* have theirs.
LEMMA LeftCodes ==
    ASSUME VMInv, CodesInv, frames # <<>>, NEW c \in DOMAIN contracts
    PROVE  LET rest == Borrowed(c) \ {Len(frames)}
           IN  \/ rest = {} /\ Left(Frame)[c].code = base[c].code
               \/ \E k \in rest : frames[k].saved = base[c].code /\ \A j \in rest : k <= j
<1> DEFINE n == Len(frames)
           own == Frame.self
           rest == Borrowed(c) \ {n}
<1>1. n \in Nat \ {0} /\ Frame = frames[n] /\ own \in DOMAIN contracts
  BY FrameFacts
<1>2. CodeKept(c)
  BY DEF CodesInv
<1>3. Left(Frame)[c].code = IF c = own /\ Frame.saved # <<>> THEN Frame.saved ELSE contracts[c].code
  BY LeftCode
<1>4. n \in Borrowed(c) <=> c = own /\ Frame.saved # <<>>
  BY <1>1 DEF Borrowed
<1>5. CASE Borrowed(c) = {}
  <2>1. rest = {} /\ contracts[c].code = base[c].code
    BY <1>2, <1>5 DEF CodeKept
  <2> QED
    BY <1>3, <1>4, <1>5, <2>1
<1>6. CASE Borrowed(c) # {}
  <2>1. PICK k \in Borrowed(c) : frames[k].saved = base[c].code /\ \A j \in Borrowed(c) : k <= j
    BY <1>2, <1>6 DEF CodeKept
  <2>2. CASE k = n
    <3>1. rest = {}
      <4>1. \A j \in Borrowed(c) : j \in Nat /\ j <= n /\ n <= j
        BY <1>1, <2>1, <2>2 DEF Borrowed
      <4> QED
        BY <1>1, <4>1
    <3>2. Left(Frame)[c].code = base[c].code
      BY <1>1, <1>3, <1>4, <2>1, <2>2
    <3> QED
      BY <3>1, <3>2
  <2>3. CASE k # n
    BY <2>1, <2>3
  <2> QED
    BY <2>2, <2>3
<1> QED
  BY <1>5, <1>6

\* What the end of a nested execute() leaves behind: its caller goes on.
LEMMA ReturnIs ==
    ASSUME VMInv, Return
    PROVE  LET m == Len(frames) - 1
           IN  /\ frames # <<>> /\ m \in Nat \ {0} /\ Len(frames) = m + 1
               /\ Len(frames') = m /\ frames'[m] = Resumed
               /\ \A i \in 1..m - 1 : frames'[i] = frames[i]
               /\ Resumed.self = frames[m].self /\ Resumed.saved = frames[m].saved
               /\ Resumed.status = "RUNNING" => Resumed.pc = frames[m].pc + 1
               /\ contracts' = Left(Frame) /\ UNCHANGED <<base, txSnap, sealed>>
<1> DEFINE m == Len(frames) - 1
           caller == frames[m]
           kept == SubSeq(frames, 1, Len(frames) - 2)
           S == Frames \cup {Resumed}
<1>1. /\ frames # <<>> /\ Len(frames) > 1 /\ frames' = Append(kept, Resumed)
      /\ contracts' = Left(Frame) /\ UNCHANGED <<base, txSnap, sealed>>
  BY DEF Return, Ended, blockVars
<1>2. frames \in Seq(Frames) /\ Len(frames) \in Nat
  BY <1>1, FrameFacts DEF VMInv, FramesOK
<1>3. m \in Nat \ {0} /\ m \in 1..Len(frames) /\ Len(frames) = m + 1 /\ Len(frames) - 2 = m - 1
  BY <1>1, <1>2
<1>4. caller \in Frames
  BY <1>2, <1>3, ElementOfSeq
<1>5. /\ Resumed.self = caller.self /\ Resumed.saved = caller.saved
      /\ Resumed.status = "RUNNING" => Resumed.pc = caller.pc + 1
  <2> DEFINE ok == Frame.status = "HALTED"
             result == IF ok /\ Stack # <<>> /\ Nth(1) # 0 THEN <<Nth(1)>> ELSE <<>>
  <2>1. Resumed = IF Covers(caller, Frame.used)
                  THEN [Charged(caller, Frame.used) EXCEPT
                           !.stack = @ \o <<IF ok THEN 1 ELSE 0>> \o result, !.pc = @ + 1]
                  ELSE [caller EXCEPT !.status = "FAILED"]
    BY DEF Resumed
  <2> HIDE DEF result, ok, caller
  <2> QED
    BY <1>4, <2>1 DEF Charged, Frames
<1> HIDE DEF m
<1>6. /\ kept \in Seq(Frames) /\ Len(kept) = m - 1
      /\ \A i \in 1..m - 1 : kept[i] = frames[i]
  <2> DEFINE k == m - 1
  <2>1. k \in Nat /\ kept = SubSeq(frames, 1, k) /\ \A i \in 1..k : frames[i] \in Frames
    BY <1>2, <1>3, ElementOfSeq
  <2> HIDE DEF k, kept
  <2>2. /\ SubSeq(frames, 1, k) \in Seq(Frames)
        /\ Len(SubSeq(frames, 1, k)) = IF 1 <= k THEN k - 1 + 1 ELSE 0
        /\ \A i \in 1..k - 1 + 1 : SubSeq(frames, 1, k)[i] = frames[1 + i - 1]
    BY <2>1, SubSeqProperties
  <2>3. \A i \in 1..k : i \in 1..k - 1 + 1 /\ 1 + i - 1 = i
    BY <2>1
  <2>4. Len(kept) = k /\ \A i \in 1..k : kept[i] = frames[i]
    BY <2>1, <2>2, <2>3
  <2> QED
    BY <2>1, <2>2, <2>4 DEF k
<1> HIDE DEF kept
<1>7. /\ Len(frames') = m /\ frames'[m] = Resumed
      /\ \A i \in 1..m - 1 : frames'[i] = frames[i]
  <2>1. kept \in Seq(S) /\ Resumed \in S
    BY <1>6, SeqMonotonic
  <2> HIDE DEF S
  <2>2. /\ Len(frames') = Len(kept) + 1 /\ frames'[Len(kept) + 1] = Resumed
        /\ \A i \in 1..Len(kept) : frames'[i] = kept[i]
    BY <1>1, <2>1, AppendProperties
  <2> QED
    BY <1>3, <1>6, <2>2
<1> QED
  BY <1>1, <1>3, <1>5, <1>7 DEF m

LEMMA ReturnCodes ==
    ASSUME VMInv, CodesInv, Return
    PROVE  CodesInv'
<1> DEFINE m == Len(frames) - 1
<1>1. frames # <<>> /\ contracts' = Left(Frame) /\ UNCHANGED <<base, txSnap, sealed>>
  BY ReturnIs
<1>2. m \in Nat \ {0} /\ Len(frames) = m + 1
  BY ReturnIs
<1>3. Resumed.self = frames[m].self /\ Resumed.saved = frames[m].saved
  BY ReturnIs
<1>4. /\ Len(frames') = m /\ frames'[m] = Resumed
      /\ \A i \in 1..m - 1 : frames'[i] = frames[i]
  BY ReturnIs
<1> HIDE DEF m
<1>5. \A k \in 1..m : frames'[k].self = frames[k].self /\ frames'[k].saved = frames[k].saved
  <2> TAKE k \in 1..m
  <2>1. k = m \/ k \in 1..m - 1
    BY <1>2
  <2> QED
    BY <1>3, <1>4, <2>1
<1>6. DOMAIN contracts' = DOMAIN contracts
  BY <1>1 DEF Left
<1>7. ASSUME NEW c \in DOMAIN contracts
       PROVE  CodeKept(c)'
  <2> DEFINE rest == Borrowed(c) \ {Len(frames)}
  <2>1. Borrowed(c)' = rest
    <3>1. 1..m + 1 = 1..m \cup {m + 1} /\ m + 1 \notin 1..m
      BY <1>2
    <3>2. Borrowed(c)' = {k \in 1..m : frames'[k].self = c /\ frames'[k].saved # <<>>}
      BY <1>4 DEF Borrowed
    <3>3. Borrowed(c) = {k \in 1..m + 1 : frames[k].self = c /\ frames[k].saved # <<>>}
      BY <1>2 DEF Borrowed
    <3> QED
      BY <1>2, <1>5, <3>1, <3>2, <3>3
  <2>2. \/ rest = {} /\ Left(Frame)[c].code = base[c].code
        \/ \E k \in rest : frames[k].saved = base[c].code /\ \A j \in rest : k <= j
    BY <1>1, LeftCodes
  <2>3. \A k \in rest : frames'[k].saved = frames[k].saved
    <3>1. rest \subseteq 1..m
      BY <2>1, <1>4 DEF Borrowed
    <3> QED
      BY <1>5, <3>1
  <2>4. base' = base
    BY <1>1
  <2> HIDE DEF rest
  <2> QED
    BY <1>1, <2>1, <2>2, <2>3, <2>4 DEF CodeKept
<1>8. SameCodes(txSnap, base)' /\ SameCodes(sealed, base)'
  BY <1>1, <1>6 DEF CodesInv, SameCodes
<1> QED
  BY <1>6, <1>7, <1>8 DEF CodesInv

\* Without a machine nothing is borrowed.
LEMMA NothingBorrowed ==
    ASSUME frames = <<>>, NEW c
    PROVE  Borrowed(c) = {} /\ (CodeKept(c) <=> contracts[c].code = base[c].code)
<1>1. Len(<<>>) = 0
  OBVIOUS
<1>2. Borrowed(c) = {}
  BY <1>1 DEF Borrowed
<1> QED
  BY <1>2 DEF CodeKept

LEMMA CodesAtRest ==
    ASSUME frames' = <<>>, SameCodes(contracts, base)', SameCodes(txSnap, base)',
           SameCodes(sealed, base)'
    PROVE  CodesInv'
<1>1. Len(<<>>) = 0
  OBVIOUS
<1>2. \A c : Borrowed(c)' = {}
  BY <1>1 DEF Borrowed
<1> QED
  BY <1>2 DEF CodesInv, CodeKept, SameCodes

LEMMA FinishCodes ==
    ASSUME VMInv, CodesInv, FinishCall
    PROVE  CodesInv'
<1>1. /\ frames # <<>> /\ Len(frames) = 1 /\ frames' = <<>>
      /\ UNCHANGED <<base, txSnap, sealed>>
      /\ contracts' \in {Left(Frame), txSnap, base}
  BY DEF FinishCall, Ended, RolledBack, Reject
<1>2. DOMAIN contracts' = DOMAIN contracts
  <2>1. /\ txSnap \in Seq(Contracts) /\ base \in Seq(Contracts) /\ contracts \in Seq(Contracts)
        /\ Len(txSnap) = Len(contracts) /\ Len(base) = Len(contracts)
    BY DEF VMInv, StatesOK
  <2>2. DOMAIN txSnap = DOMAIN contracts /\ DOMAIN base = DOMAIN contracts
    BY <2>1, LenProperties
  <2> QED
    BY <1>1, <2>2 DEF Left
<1>3. ASSUME NEW c \in DOMAIN contracts
      PROVE  Left(Frame)[c].code = base[c].code
  <2>1. Borrowed(c) \ {Len(frames)} = {}
    BY <1>1 DEF Borrowed
  <2> QED
    BY <1>1, <2>1, LeftCodes
<1>4. SameCodes(txSnap, base) /\ SameCodes(sealed, base)
  BY DEF CodesInv
<1>5. SameCodes(contracts, base)'
  BY <1>1, <1>2, <1>3, <1>4 DEF SameCodes
<1>6. SameCodes(txSnap, base)' /\ SameCodes(sealed, base)'
  BY <1>1, <1>2, <1>4 DEF SameCodes
<1> QED
  BY <1>1, <1>5, <1>6, CodesAtRest

LEMMA BlockCodes ==
    ASSUME VMInv, CodesInv, CreateBlock \/ Seal \/ CheckRoot \/ EndReplay
    PROVE  CodesInv'
<1>1. frames = <<>> /\ frames' = <<>>
  BY DEF CreateBlock, Seal, CheckRoot, EndReplay, VMInv, BooksOK
<1>2. /\ SameCodes(contracts, base) /\ SameCodes(txSnap, base) /\ SameCodes(sealed, base)
  BY <1>1, NothingBorrowed DEF CodesInv, SameCodes
<1>3. DOMAIN base = DOMAIN contracts /\ DOMAIN sealed = DOMAIN contracts
  <2>1. /\ sealed \in Seq(Contracts) /\ base \in Seq(Contracts) /\ contracts \in Seq(Contracts)
        /\ Len(sealed) = Len(contracts) /\ Len(base) = Len(contracts)
    BY DEF VMInv, StatesOK
  <2> QED
    BY <2>1, LenProperties
<1>4. CASE CreateBlock
  <2>1. base' = contracts /\ UNCHANGED <<contracts, txSnap, sealed>>
    BY <1>4 DEF CreateBlock
  <2>2. /\ SameCodes(contracts, base)' /\ SameCodes(txSnap, base)' /\ SameCodes(sealed, base)'
    BY <1>2, <2>1 DEF SameCodes
  <2> QED
    BY <1>1, <2>2, CodesAtRest
<1>5. CASE Seal \/ CheckRoot \/ EndReplay
  <2>1. /\ contracts' \in {contracts, base, sealed} /\ sealed' \in {contracts, sealed}
        /\ UNCHANGED <<base, txSnap>>
    BY <1>5 DEF Seal, CheckRoot, EndReplay, Reject
  <2>2. DOMAIN contracts' = DOMAIN contracts
    BY <1>3, <2>1
  <2>3. /\ SameCodes(contracts, base)' /\ SameCodes(txSnap, base)' /\ SameCodes(sealed, base)'
    BY <1>2, <2>1, <2>2 DEF SameCodes
  <2> QED
    BY <1>1, <2>3, CodesAtRest
<1> QED
  BY <1>4, <1>5

LEMMA StartCodes ==
    ASSUME VMInv, CodesInv, StartCall
    PROVE  CodesInv'
<1> DEFINE h == Head(queue)
           f == Executing(h.contract, h.args, h.sender, h.value, <<>>)
<1>1. frames = <<>> /\ UNCHANGED <<base, sealed>>
  BY DEF StartCall
<1>2. SameCodes(contracts, base) /\ SameCodes(txSnap, base) /\ SameCodes(sealed, base)
  BY <1>1, NothingBorrowed DEF CodesInv, SameCodes
<1>3. CASE Callable(h.contract)
  <2>1. frames' = <<f>> /\ txSnap' = contracts /\ contracts' = contracts
    BY <1>3 DEF StartCall
  <2>2. f.saved = <<>>
    BY DEF Executing
  <2> HIDE DEF f
  <2>3. Len(<<f>>) = 1 /\ <<f>>[1] = f
    OBVIOUS
  <2>4. \A c : Borrowed(c)' = {}
    BY <2>1, <2>2, <2>3 DEF Borrowed
  <2> QED
    BY <1>1, <1>2, <2>1, <2>4 DEF CodesInv, CodeKept, SameCodes
<1>4. CASE ~ Callable(h.contract)
  <2>1. frames' = <<>> /\ txSnap' = txSnap /\ contracts' \in {contracts, base}
    BY <1>1, <1>4 DEF StartCall, Reject
  <2>2. DOMAIN base = DOMAIN contracts
    <3>1. /\ base \in Seq(Contracts) /\ contracts \in Seq(Contracts)
          /\ Len(base) = Len(contracts)
      BY DEF VMInv, StatesOK
    <3> QED
      BY <3>1, LenProperties
  <2>3. /\ SameCodes(contracts, base)' /\ SameCodes(txSnap, base)'
        /\ SameCodes(sealed, base)'
    BY <1>1, <1>2, <2>1, <2>2 DEF SameCodes
  <2> QED
    BY <2>1, <2>3, CodesAtRest
<1> QED
  BY <1>3, <1>4

LEMMA NextCodes ==
    ASSUME VMInv, CodesInv, [Next]_vars
    PROVE  CodesInv'
<1>1. CASE UNCHANGED vars
  <2>1. UNCHANGED <<contracts, frames, base, txSnap, sealed>>
    BY <1>1 DEF vars, blockVars
  <2> QED
    BY <2>1 DEF CodesInv, SameCodes, CodeKept, Borrowed
<1> QED
  BY <1>1, PlainCodes, CallCodes, ReturnCodes, FinishCodes, BlockCodes, StartCodes
  DEF Next, Progress

\* Between two transactions each contract has its own code again, however delegate
\* calls were nested and whichever of them failed (the end of MVM::execute, and
\* DELEGATECALL in mvm.h).
THEOREM CodesComeBack == Spec => []CodeRestored
<1>1. Init => VMInv /\ CodesInv
  <2> SUFFICES ASSUME Init
               PROVE  VMInv /\ CodesInv
    OBVIOUS
  <2>1. frames = <<>> /\ base = contracts /\ txSnap = contracts /\ sealed = contracts
    BY DEF Init
  <2>2. \A c : Borrowed(c) = {} /\ CodeKept(c)
    BY <2>1, NothingBorrowed
  <2> QED
    BY <2>1, <2>2, InitTyped DEF CodesInv, SameCodes
<1>2. VMInv /\ CodesInv /\ [Next]_vars => (VMInv /\ CodesInv)'
  BY NextTyped, NextCodes
<1>3. CodesInv => CodeRestored
  BY NothingBorrowed DEF CodesInv, CodeRestored
<1> QED
  BY <1>1, <1>2, <1>3, PTL DEF Spec
-----------------------------------------------------------------------------
(* The machine as a function *)

\* One step of a machine that reads no pin is the one that Outcome says.
LEMMA Deterministic ==
    ASSUME Instruction \/ Return, phase # "replay"
    PROVE  <<contracts', frames'>> = Outcome
<1> DEFINE Usual == /\ Op \notin {"HALT", "SSTORE"} /\ ~ (Op = "EXT" /\ Mod = 2)
                    /\ Op # "XCALL" \/ Targets = {}
<1>1. ASSUME Goes, Usual, Continue(NewStack, NewPc), UNCHANGED contracts
      PROVE  <<contracts', frames'>> = Outcome
  BY <1>1 DEF Outcome, Onward, Paying, Going, Continue, Become, Goes, Active, Ended
<1>2. CASE Push
  <2>1. Grows(Op, Mod) /\ Goes
    BY <1>2 DEF Push
  <2>2. Usual /\ Op # "JMP"
    BY <2>1 DEF Grows
  <2>3. NewStack = Append(Stack, Pushed) /\ NewPc = NextPc
    BY <2>1, <2>2 DEF NewStack, NewPc, Grows, Arithmetic
  <2> QED
    BY <1>1, <1>2, <2>2, <2>3 DEF Push
<1>3. CASE Swap
  BY <1>1, <1>3 DEF Swap, NewStack, NewPc, Grows, Arithmetic
<1>4. CASE Drop
  BY <1>1, <1>4 DEF Drop, NewStack, NewPc, Grows, Arithmetic
<1>5. CASE Calculate
  BY <1>1, <1>5 DEF Calculate, NewStack, NewPc, Grows, Arithmetic
<1>6. CASE Replace
  <2>1. Goes /\ (Op \in {"NOT", "SHA3", "SLOAD"} \/ (Op = "EXT" /\ Mod \in {0, 1}))
    BY <1>6 DEF Replace
  <2>2. Usual /\ Op # "JMP" /\ ~ Grows(Op, Mod)
    BY <2>1 DEF Grows
  <2>3. NewStack = Append(Without(1), Replacement) /\ NewPc = NextPc
    BY <2>1, <2>2 DEF NewStack, NewPc, Arithmetic
  <2> QED
    BY <1>1, <1>6, <2>2, <2>3 DEF Replace
<1>7. CASE Jump
  BY <1>1, <1>7 DEF Jump, NewStack, NewPc, Grows, Arithmetic
<1>8. CASE SStore
  BY <1>8 DEF SStore, Outcome, NewStack, NewPc, Onward, Stored, Paying, Continue, Become, Goes,
              Active, Ended, Grows, Arithmetic
<1>9. CASE MStore
  BY <1>9 DEF MStore, Outcome, NewStack, NewPc, Remembering, Paying, Going, Become, Goes, Active,
              Ended, Grows, Arithmetic
<1>10. CASE CallNothing
  BY <1>1, <1>10 DEF CallNothing, NewStack, NewPc, Grows, Arithmetic
<1>11. CASE Call
  BY <1>11 DEF Call, Outcome, Goes, Active, Ended
<1>12. CASE Gpio
  BY <1>1, <1>12 DEF Gpio, NewStack, NewPc, Grows, Arithmetic
<1>13. CASE Halt
  BY <1>13 DEF Halt, Outcome, Halting, Paying, Going, Become, Goes, Active, Ended
<1>14. CASE Fault
  BY <1>14 DEF Fault, Outcome, Failing, Going, Become, Active, Ended
<1>15. CASE Return
  BY <1>15 DEF Return, Outcome
<1> QED
  BY <1>2, <1>3, <1>4, <1>5, <1>6, <1>7, <1>8, <1>9, <1>10, <1>11, <1>12, <1>13, <1>14, <1>15
  DEF Instruction
-----------------------------------------------------------------------------
(* Runs *)

\* The machine in a state of contracts[] and calls that need not be this one's, of
\* a device that has the code of the contracts h.
M(h, c, f) ==
    INSTANCE MachineStep
    WITH contracts <- c, frames <- f, device <- "producer", local <- [d \in Devices |-> h]

After(h, s) == M(h, s[1], s[2])!Outcome
IsOver(h, s) == M(h, s[1], s[2])!Over

\* The states t[0], ..., t[n] of a machine that is left to itself.
Path(h, t, n) ==
    /\ n \in Nat /\ DOMAIN t = 0..n
    /\ \A i \in 0..n - 1 : ~ IsOver(h, t[i]) /\ t[i + 1] = After(h, t[i])

Reaches(h, s, e) == \E n, t : Path(h, t, n) /\ t[0] = s /\ t[n] = e

LEMMA ReachesItself ==
    ASSUME NEW h, NEW s
    PROVE  Reaches(h, s, s)
<1> DEFINE t == [i \in 0..0 |-> s]
<1>1. Path(h, t, 0) /\ t[0] = s
  BY DEF Path
<1> HIDE DEF t
<1> QED
  BY <1>1 DEF Reaches

LEMMA ReachesOn ==
    ASSUME NEW h, NEW s, NEW e, Reaches(h, s, e), ~ IsOver(h, e)
    PROVE  Reaches(h, s, After(h, e))
<1>1. PICK n, t : Path(h, t, n) /\ t[0] = s /\ t[n] = e
  BY DEF Reaches
<1> DEFINE u == [i \in 0..n + 1 |-> IF i \in 0..n THEN t[i] ELSE After(h, e)]
<1>2. n \in Nat
  BY <1>1 DEF Path
<1>3. u[0] = s /\ u[n + 1] = After(h, e) /\ DOMAIN u = 0..n + 1
  BY <1>1, <1>2
<1>4. \A i \in 0..n : u[i] = t[i]
  BY <1>2
<1>5. ASSUME NEW i \in 0..n
      PROVE  ~ IsOver(h, u[i]) /\ u[i + 1] = After(h, u[i])
  <2>1. CASE i = n
    BY <1>1, <1>2, <1>3, <1>4, <2>1
  <2>2. CASE i # n
    <3>1. i \in 0..n - 1 /\ i + 1 \in 0..n
      BY <1>2, <2>2
    <3> HIDE DEF u
    <3> QED
      BY <1>1, <1>4, <3>1 DEF Path
  <2> QED
    BY <2>1, <2>2
<1> HIDE DEF u
<1>6. n + 1 \in Nat /\ 0..(n + 1) - 1 = 0..n
  BY <1>2
<1>7. Path(h, u, n + 1)
  BY <1>3, <1>5, <1>6 DEF Path
<1> QED
  BY <1>3, <1>7 DEF Reaches

\* As long as both go on, two paths from one state are the same.
LEMMA PathsAgree ==
    ASSUME NEW h, NEW t, NEW u, NEW n, NEW m, Path(h, t, n), Path(h, u, m), t[0] = u[0],
           NEW k \in 0..n, k \in 0..m
    PROVE  t[k] = u[k]
<1> DEFINE D == {i \in 0..k : t[i] # u[i]}
<1>1. n \in Nat /\ m \in Nat /\ k \in Nat
  BY DEF Path
<1>2. SUFFICES ASSUME D # {}
               PROVE  FALSE
  BY <1>1
<1>3. D \in SUBSET Nat
  BY <1>1
<1>4. PICK i \in D : \A j \in D : i <= j
  BY <1>2, <1>3, Least
<1>5. i \in 1..k
  BY <1>1, <1>4
<1>6. i - 1 \in 0..k /\ i - 1 \notin D
  BY <1>1, <1>4, <1>5
<1>7. t[i - 1] = u[i - 1] /\ i - 1 \in 0..n - 1 /\ i - 1 \in 0..m - 1 /\ (i - 1) + 1 = i
  BY <1>1, <1>5, <1>6
<1>8. t[i] = u[i]
  BY <1>7 DEF Path
<1> QED
  BY <1>4, <1>8

LEMMA OneEnd ==
    ASSUME NEW h, NEW s, NEW d, NEW e, Reaches(h, s, d), Reaches(h, s, e),
           IsOver(h, d), IsOver(h, e)
    PROVE  d = e
<1>1. PICK n, t : Path(h, t, n) /\ t[0] = s /\ t[n] = d
  BY DEF Reaches
<1>2. PICK m, u : Path(h, u, m) /\ u[0] = s /\ u[m] = e
  BY DEF Reaches
<1>3. n \in Nat /\ m \in Nat
  BY <1>1, <1>2 DEF Path
<1>4. CASE n < m
  <2>1. t[n] = u[n]
    BY <1>1, <1>2, <1>3, <1>4, PathsAgree
  <2>2. n \in 0..m - 1
    BY <1>3, <1>4
  <2> QED
    BY <1>1, <1>2, <2>1, <2>2 DEF Path
<1>5. CASE m < n
  <2>1. t[m] = u[m]
    BY <1>1, <1>2, <1>3, <1>5, PathsAgree
  <2>2. m \in 0..n - 1
    BY <1>3, <1>5
  <2> QED
    BY <1>1, <1>2, <2>1, <2>2 DEF Path
<1>6. CASE n = m
  BY <1>1, <1>2, <1>3, <1>6, PathsAgree
<1> QED
  BY <1>3, <1>4, <1>5, <1>6
-----------------------------------------------------------------------------
(* The machine here and the machine elsewhere *)

Launches(h, c, call) == M(h, c, <<>>)!Launched(call)
Knows(h, c, call) == M(h, c, <<>>)!Found(call)
Pays(h, s, call) == M(h, s[1], s[2])!Paid(call)
Leaves(h, s, call, gas) == M(h, s[1], s[2])!Remains(call, gas)

\* The device with the code of h finds what this one finds when the next step is
\* an XCALL.
Alike(h) == Goes /\ Op = "XCALL" => Addressed \cap h = Targets

\* The operators of this machine and those of the other, in the same state, are
\* the same.
LEMMA SameFrame ==
    ASSUME NEW h
    PROVE  /\ M(h, contracts, frames)!Frame = Frame /\ M(h, contracts, frames)!Self = Self
           /\ M(h, contracts, frames)!Code = Code /\ M(h, contracts, frames)!Depth = Depth
           /\ M(h, contracts, frames)!Op = Op /\ M(h, contracts, frames)!Mod = Mod
           /\ M(h, contracts, frames)!Stack = Stack /\ M(h, contracts, frames)!Callers = Callers
  BY DEF M!Op, M!Mod, M!Frame, M!Self, M!Code, M!Here, M!Depth, M!Stack, M!Callers, M!OpOf,
         M!ModOf, M!OpNames,
         Op, Mod, Frame, Self, Code, Here, Depth, Stack, Callers, OpOf, ModOf, OpNames

LEMMA SameTables ==
    ASSUME NEW h
    PROVE  /\ M(h, contracts, frames)!Cost(Op, Mod) = Cost(Op, Mod)
           /\ M(h, contracts, frames)!Needs(Op, Mod) = Needs(Op, Mod)
           /\ M(h, contracts, frames)!Grows(Op, Mod) <=> Grows(Op, Mod)
           /\ M(h, contracts, frames)!Width(Mod) = Width(Mod)
           /\ M(h, contracts, frames)!Size(Op, Mod) = Size(Op, Mod)
           /\ M(h, contracts, frames)!Arithmetic = Arithmetic
  BY DEF M!Cost, M!Needs, M!Grows, M!Width, M!Size, M!Arithmetic,
         Cost, Needs, Grows, Width, Size, Arithmetic

LEMMA SameWords ==
    ASSUME NEW h, NEW n
    PROVE  /\ M(h, contracts, frames)!Nth(n) = Nth(n)
           /\ M(h, contracts, frames)!Without(n) = Without(n)
           /\ M(h, contracts, frames)!Operand(n) = Operand(n)
<1>1. /\ M(h, contracts, frames)!Frame = Frame /\ M(h, contracts, frames)!Code = Code
      /\ M(h, contracts, frames)!Stack = Stack
  BY SameFrame
<1>2. M(h, contracts, frames)!Nth(n) = Nth(n) /\ M(h, contracts, frames)!Without(n) = Without(n)
  BY <1>1 DEF M!Nth, M!Without, Nth, Without
<1>3. M(h, contracts, frames)!Operand(n) = Operand(n)
  BY <1>1 DEF M!Operand, M!Word, Operand, Word
<1> QED
  BY <1>2, <1>3

LEMMA SameStorage ==
    ASSUME NEW h, NEW m, NEW k, NEW v
    PROVE  /\ M(h, contracts, frames)!StorageGet(m, k) = StorageGet(m, k)
           /\ M(h, contracts, frames)!StorageFull(m, k) <=> StorageFull(m, k)
           /\ M(h, contracts, frames)!StorageSet(m, k, v) = StorageSet(m, k, v)
<1>1. M(h, contracts, frames)!StorageGet(m, k) = StorageGet(m, k)
  BY DEF M!StorageGet, StorageGet
<1>2. M(h, contracts, frames)!Cardinality(DOMAIN m) = Cardinality(DOMAIN m)
  BY DEF M!Cardinality, Cardinality
<1>3. M(h, contracts, frames)!StorageFull(m, k) <=> StorageFull(m, k)
  BY <1>2 DEF M!StorageFull, StorageFull
<1>4. M(h, contracts, frames)!StorageSet(m, k, v) = StorageSet(m, k, v)
  BY DEF M!StorageSet, StorageSet
<1> QED
  BY <1>1, <1>3, <1>4

LEMMA SameStep ==
    ASSUME NEW h, NEW f, NEW n
    PROVE  /\ M(h, contracts, frames)!Charged(f, n) = Charged(f, n)
           /\ M(h, contracts, frames)!Covers(f, n) <=> Covers(f, n)
           /\ M(h, contracts, frames)!Left(f) = Left(f)
           /\ M(h, contracts, frames)!Saved(f) = Saved(f)
           /\ M(h, contracts, frames)!Going(f) = Going(f)
  BY SameFrame
  DEF M!Charged, M!Covers, M!Left, M!Saved, M!Going, Charged, Covers, Left, Saved, Going

LEMMA SameExecuting ==
    ASSUME NEW h, NEW c, NEW args, NEW caller, NEW value, NEW saved
    PROVE  M(h, contracts, frames)!Executing(c, args, caller, value, saved)
             = Executing(c, args, caller, value, saved)
  BY DEF M!Executing, Executing

LEMMA SameGuards ==
    ASSUME NEW h
    PROVE  /\ M(h, contracts, frames)!Active <=> Active
           /\ M(h, contracts, frames)!Ended <=> Ended
           /\ M(h, contracts, frames)!Affordable <=> Affordable
           /\ M(h, contracts, frames)!Goes <=> Goes
           /\ M(h, contracts, frames)!ArgCount = ArgCount
           /\ M(h, contracts, frames)!Arguments = Arguments
           /\ M(h, contracts, frames)!NextPc = NextPc
           /\ M(h, contracts, frames)!Delegate <=> Delegate
<1>1. M(h, contracts, frames)!ArgCount = ArgCount /\ M(h, contracts, frames)!Pin = Pin
  BY SameFrame, SameWords DEF M!ArgCount, M!Pin, ArgCount, Pin
<1>4. M(h, contracts, frames)!Delegate <=> Delegate
  BY SameFrame DEF M!Delegate, Delegate
<1>5. M(h, contracts, frames)!NextPc = NextPc
  BY SameFrame, SameTables DEF M!NextPc, NextPc
<1>6. M(h, contracts, frames)!Active <=> Active
  BY SameFrame DEF M!Active, Active
<1>7. M(h, contracts, frames)!Ended <=> Ended
  BY SameFrame DEF M!Ended, Ended
<1>8. M(h, contracts, frames)!Affordable <=> Affordable
  BY SameFrame, SameTables DEF M!Affordable, Affordable
<1>9. M(h, contracts, frames)!Faulty <=> Faulty
  BY <1>1, SameFrame, SameTables, SameWords, SameStorage DEF M!Faulty, Faulty
<1>10. M(h, contracts, frames)!Goes <=> Goes
  BY <1>6, <1>8, <1>9 DEF M!Goes, Goes
<1>11. M(h, contracts, frames)!Arguments = Arguments
  BY <1>1, SameWords DEF M!Arguments, Arguments
<1> QED
  BY <1>1, <1>4, <1>5, <1>6, <1>7, <1>8, <1>10, <1>11

LEMMA SameTargets ==
    ASSUME NEW h
    PROVE  M(h, contracts, frames)!Targets = Addressed \cap h
<1>1. M(h, contracts, frames)!Addressed = Addressed
  BY SameWords DEF M!Addressed, Addressed
<1>2. M(h, contracts, frames)!Targets
        = M(h, contracts, frames)!Addressed \cap [d \in Devices |-> h]["producer"]
  BY DEF M!Targets
<1>3. [d \in Devices |-> h]["producer"] = h
  BY DEF Devices
<1> QED
  BY <1>1, <1>2, <1>3

LEMMA SameResults ==
    ASSUME NEW h
    PROVE  /\ M(h, contracts, frames)!Pushed = Pushed
           /\ M(h, contracts, frames)!Replacement = Replacement
           /\ M(h, contracts, frames)!Waiting = Waiting
           /\ M(h, contracts, frames)!Resumed = Resumed
<1>1. /\ M(h, contracts, frames)!Frame = Frame /\ M(h, contracts, frames)!Self = Self
      /\ M(h, contracts, frames)!Op = Op /\ M(h, contracts, frames)!Mod = Mod
      /\ M(h, contracts, frames)!Stack = Stack
      /\ M(h, contracts, frames)!Width(Mod) = Width(Mod)
      /\ M(h, contracts, frames)!Cost(Op, Mod) = Cost(Op, Mod)
  BY SameFrame, SameTables
<1>2. /\ M(h, contracts, frames)!Nth(1) = Nth(1)
      /\ M(h, contracts, frames)!Without(3 + ArgCount) = Without(3 + ArgCount)
      /\ M(h, contracts, frames)!Operand(Width(Mod)) = Operand(Width(Mod))
  BY SameWords
<1>3. M(h, contracts, frames)!Pushed = Pushed
  BY <1>1, <1>2 DEF M!Pushed, Pushed
<1>4. M(h, contracts, frames)!Replacement = Replacement
  <2>1. M(h, contracts, frames)!StorageGet(Self.storage, Nth(1)) = StorageGet(Self.storage, Nth(1))
    BY SameStorage
  <2> QED
    BY <1>1, <1>2, <2>1 DEF M!Replacement, Replacement
<1>5. M(h, contracts, frames)!Waiting = Waiting
  <2>1. /\ M(h, contracts, frames)!Charged(Frame, Cost(Op, Mod)) = Charged(Frame, Cost(Op, Mod))
        /\ M(h, contracts, frames)!ArgCount = ArgCount
    BY SameStep, SameGuards
  <2> QED
    BY <1>1, <1>2, <2>1 DEF M!Waiting, Waiting
<1>6. M(h, contracts, frames)!Resumed = Resumed
  BY <1>1, <1>2, SameStep DEF M!Resumed, Resumed
<1> QED
  BY <1>3, <1>4, <1>5, <1>6

LEMMA SameCallee ==
    ASSUME NEW h, M(h, contracts, frames)!Targets = Targets
    PROVE  M(h, contracts, frames)!Lent = Lent /\ M(h, contracts, frames)!Callee = Callee
<1>1. M(h, contracts, frames)!Target = Target
  BY DEF M!Target, Target, M!Min, Min
<1>2. M(h, contracts, frames)!Lent = Lent
  BY <1>1, SameFrame, SameGuards DEF M!Lent, Lent
<1>3. M(h, contracts, frames)!Callee = Callee
  BY <1>1, SameFrame, SameGuards, SameStep, SameExecuting DEF M!Callee, Callee
<1> QED
  BY <1>2, <1>3

LEMMA SameStack ==
    ASSUME NEW h
    PROVE  /\ M(h, contracts, frames)!NewStack = NewStack
           /\ M(h, contracts, frames)!NewPc = NewPc
<1>1. /\ M(h, contracts, frames)!Nth(1) = Nth(1) /\ M(h, contracts, frames)!Nth(2) = Nth(2)
      /\ M(h, contracts, frames)!Without(1) = Without(1)
      /\ M(h, contracts, frames)!Without(2) = Without(2)
      /\ M(h, contracts, frames)!Without(Needs(Op, Mod)) = Without(Needs(Op, Mod))
      /\ M(h, contracts, frames)!Without(3 + ArgCount) = Without(3 + ArgCount)
      /\ M(h, contracts, frames)!Operand(1) = Operand(1)
  BY SameWords
<1>2. M(h, contracts, frames)!Binary(Op, Mod, Nth(2), Nth(1)) = Binary(Op, Mod, Nth(2), Nth(1))
  BY DEF M!Binary, M!FromBits, M!Bits, M!Word, Binary, FromBits, Bits, Word
<1>5. /\ M(h, contracts, frames)!Op = Op /\ M(h, contracts, frames)!Mod = Mod
      /\ M(h, contracts, frames)!Stack = Stack
  BY SameFrame
<1>6. /\ M(h, contracts, frames)!Needs(Op, Mod) = Needs(Op, Mod)
      /\ M(h, contracts, frames)!Grows(Op, Mod) <=> Grows(Op, Mod)
      /\ M(h, contracts, frames)!Arithmetic = Arithmetic
  BY SameTables
<1>7. /\ M(h, contracts, frames)!ArgCount = ArgCount
      /\ M(h, contracts, frames)!Pushed = Pushed
      /\ M(h, contracts, frames)!Replacement = Replacement
  BY SameGuards, SameResults
<1>3. M(h, contracts, frames)!NewStack = NewStack
  BY <1>1, <1>2, <1>5, <1>6, <1>7 DEF M!NewStack, NewStack
<1>4. M(h, contracts, frames)!NewPc = NewPc
  BY <1>1, SameFrame, SameGuards DEF M!NewPc, NewPc
<1> QED
  BY <1>3, <1>4

LEMMA SameOutcome ==
    ASSUME NEW h, Alike(h)
    PROVE  M(h, contracts, frames)!Outcome = Outcome
<1>1. M(h, contracts, frames)!Paying = Paying
  BY SameStep, SameFrame, SameTables DEF M!Paying, Paying
<1>2. M(h, contracts, frames)!Onward = Onward
  BY <1>1, SameStack DEF M!Onward, Onward
<1>3. M(h, contracts, frames)!Nth(1) = Nth(1) /\ M(h, contracts, frames)!Nth(2) = Nth(2)
  BY SameWords
<1>4. M(h, contracts, frames)!Remembering = Remembering
  BY <1>1, <1>3, SameStack DEF M!Remembering, Remembering
<1>5. M(h, contracts, frames)!Halting = Halting
  BY <1>1, SameFrame DEF M!Halting, Halting
<1>6. M(h, contracts, frames)!Failing = Failing
  <2>1. M(h, contracts, frames)!Charged(Frame, IF Affordable THEN Cost(Op, Mod) ELSE 0)
          = Charged(Frame, IF Affordable THEN Cost(Op, Mod) ELSE 0)
    BY SameStep
  <2> QED
    BY <2>1, SameFrame, SameTables, SameGuards DEF M!Failing, Failing
<1>7. M(h, contracts, frames)!Stored = Stored
  <2> DEFINE m == contracts[Frame.self].storage
  <2>1. M(h, contracts, frames)!StorageSet(m, Nth(2), Nth(1)) = StorageSet(m, Nth(2), Nth(1))
    BY SameStorage
  <2> QED
    BY <1>3, <2>1, SameFrame DEF M!Stored, Stored
<1>8. \A f : M(h, contracts, frames)!Going(f) = Going(f)
  BY SameStep
<1>9. M(h, contracts, frames)!Left(Frame) = Left(Frame)
  BY SameStep
<1>10. CASE Goes /\ Op = "XCALL"
  <2>1. M(h, contracts, frames)!Targets = Targets
    BY <1>10, SameTargets DEF Alike
  <2>2. M(h, contracts, frames)!Lent = Lent /\ M(h, contracts, frames)!Callee = Callee
    BY <2>1, SameCallee
  <2>3. M(h, contracts, frames)!Waiting = Waiting /\ M(h, contracts, frames)!Callers = Callers
    BY SameFrame, SameResults
  <2>4. ~ Ended
    BY <1>10 DEF Goes, Active, Ended
  <2> QED
    BY <1>2, <1>8, <1>10, <2>1, <2>2, <2>3, <2>4, SameFrame, SameGuards DEF M!Outcome, Outcome
<1>11. CASE ~ (Goes /\ Op = "XCALL")
  <2>1. /\ M(h, contracts, frames)!Frame = Frame /\ M(h, contracts, frames)!Callers = Callers
        /\ M(h, contracts, frames)!Op = Op /\ M(h, contracts, frames)!Mod = Mod
        /\ M(h, contracts, frames)!Resumed = Resumed
    BY SameFrame, SameResults
  <2>2. /\ M(h, contracts, frames)!Ended <=> Ended
        /\ M(h, contracts, frames)!Goes <=> Goes
    BY SameGuards
  <2>3. CASE Goes
    BY <1>2, <1>4, <1>5, <1>7, <1>8, <1>9, <1>11, <2>1, <2>2, <2>3 DEF M!Outcome, Outcome
  <2>4. CASE ~ Goes
    BY <1>6, <1>8, <1>9, <2>1, <2>2, <2>4 DEF M!Outcome, Outcome
  <2> QED
    BY <2>3, <2>4
<1> QED
  BY <1>10, <1>11

\* What the machine does here is what it does elsewhere.
LEMMA HereAsThere ==
    ASSUME NEW h
    PROVE  /\ Alike(h) => After(h, <<contracts, frames>>) = Outcome
           /\ IsOver(h, <<contracts, frames>>) <=> Ended /\ Len(frames) = 1
           /\ \A call, gas : Leaves(h, <<contracts, frames>>, call, gas) =
                  <<Left(Frame), [gas EXCEPT ![call.sender] = @ + Frame.used]>>
           /\ \A call : Pays(h, <<contracts, frames>>, call) <=>
                  /\ Frame.status = "HALTED"
                  /\ call.gasLimit = 0 \/ Frame.used <= call.gasLimit
<1>1. Alike(h) => After(h, <<contracts, frames>>) = Outcome
  BY SameOutcome DEF After
<1>2. IsOver(h, <<contracts, frames>>) <=> Ended /\ Len(frames) = 1
  BY SameGuards DEF IsOver, M!Over
<1>3. ASSUME NEW call, NEW gas
      PROVE  Leaves(h, <<contracts, frames>>, call, gas) =
                 <<Left(Frame), [gas EXCEPT ![call.sender] = @ + Frame.used]>>
  <2>1. M(h, contracts, frames)!Left(Frame) = Left(Frame)
    BY SameStep
  <2> QED
    BY <2>1, SameFrame DEF Leaves, M!Remains
<1>4. ASSUME NEW call
      PROVE  Pays(h, <<contracts, frames>>, call) <=>
                 /\ Frame.status = "HALTED"
                 /\ call.gasLimit = 0 \/ Frame.used <= call.gasLimit
  BY SameFrame DEF Pays, M!Paid
<1> QED
  BY <1>1, <1>2, <1>3, <1>4

LEMMA Launching ==
    ASSUME NEW h, NEW call
    PROVE  Launches(h, contracts, call) =
               <<contracts,
                 <<Executing(call.contract, call.args, call.sender, call.value, <<>>)>>>>
<1>1. ASSUME NEW c, NEW args, NEW caller, NEW value, NEW saved
      PROVE  M(h, contracts, <<>>)!Executing(c, args, caller, value, saved)
               = Executing(c, args, caller, value, saved)
  BY DEF M!Executing, Executing
<1> QED
  BY <1>1 DEF Launches, M!Launched

LEMMA Knowing ==
    ASSUME NEW h, NEW c, NEW call
    PROVE  Knows(h, c, call) <=> call.contract \in DOMAIN c /\ call.contract \in h
<1>1. [d \in Devices |-> h]["producer"] = h
  BY DEF Devices
<1> QED
  BY <1>1 DEF Knows, M!Found

-----------------------------------------------------------------------------
(* What the replica finds *)

\* The call is made of the contracts and with the gas of c and succeeds, and d is
\* what it leaves behind.
Includes(h, c, call, d) ==
    /\ Knows(h, c[1], call)
    /\ \E e : /\ Reaches(h, Launches(h, c[1], call), e) /\ IsOver(h, e)
              /\ Pays(h, e, call) /\ d = Leaves(h, e, call, c[2])

\* The calls, one after the other, lead from c to d.
Chain(h, cs, calls) ==
    DOMAIN cs = 0..Len(calls) /\ \A i \in 1..Len(calls) : Includes(h, cs[i - 1], calls[i], cs[i])

Leads(h, c, calls, d) == \E cs : Chain(h, cs, calls) /\ cs[0] = c /\ cs[Len(calls)] = d

LEMMA LeadsNowhere ==
    ASSUME NEW h, NEW c, NEW d
    PROVE  Leads(h, c, <<>>, d) <=> c = d
<1>1. ASSUME Leads(h, c, <<>>, d)
      PROVE  c = d
  BY <1>1 DEF Leads
<1>2. Leads(h, c, <<>>, c)
  <2> DEFINE cs == [i \in 0..0 |-> c]
  <2>1. Chain(h, cs, <<>>) /\ cs[0] = c /\ Len(<<>>) = 0
    BY DEF Chain
  <2> HIDE DEF cs
  <2> QED
    BY <2>1 DEF Leads
<1> QED
  BY <1>1, <1>2

LEMMA LeadsOn ==
    ASSUME NEW h, NEW S, NEW calls \in Seq(S), NEW call \in S, NEW c, NEW d, NEW e,
           Leads(h, c, calls, d), Includes(h, d, call, e)
    PROVE  Leads(h, c, Append(calls, call), e)
<1> DEFINE n == Len(calls)
           more == Append(calls, call)
<1>1. PICK cs : Chain(h, cs, calls) /\ cs[0] = c /\ cs[n] = d
  BY DEF Leads
<1>2. n \in Nat
  BY LenProperties
<1>3. /\ more \in Seq(S) /\ Len(more) = n + 1 /\ more[n + 1] = call
      /\ \A i \in 1..n : more[i] = calls[i]
  BY AppendProperties
<1> DEFINE u == [i \in 0..n + 1 |-> IF i \in 0..n THEN cs[i] ELSE e]
<1>4. u[n + 1] = e /\ DOMAIN u = 0..n + 1 /\ \A i \in 0..n : u[i] = cs[i]
  BY <1>2
<1> HIDE DEF n, more, u
<1>5. ASSUME NEW i \in 1..n + 1
      PROVE  Includes(h, u[i - 1], more[i], u[i])
  <2>1. CASE i = n + 1
    BY <1>1, <1>2, <1>3, <1>4, <2>1
  <2>2. CASE i # n + 1
    <3>1. i \in 1..n /\ i \in 0..n /\ i - 1 \in 0..n
      BY <1>2, <2>2
    <3> QED
      BY <1>1, <1>3, <1>4, <3>1 DEF Chain, n
  <2> QED
    BY <2>1, <2>2
<1>6. Chain(h, u, more)
  BY <1>3, <1>4, <1>5 DEF Chain
<1>7. u[0] = c /\ u[Len(more)] = e
  BY <1>1, <1>2, <1>3, <1>4
<1> QED
  BY <1>6, <1>7 DEF Leads, more

LEMMA LeadsFirst ==
    ASSUME NEW h, NEW S, NEW calls \in Seq(S), calls # <<>>, NEW c, NEW e, Leads(h, c, calls, e)
    PROVE  \E d : Includes(h, c, Head(calls), d) /\ Leads(h, d, Tail(calls), e)
<1> DEFINE n == Len(calls)
           rest == Tail(calls)
<1>1. PICK cs : Chain(h, cs, calls) /\ cs[0] = c /\ cs[n] = e
  BY DEF Leads
<1>2. n \in Nat \ {0} /\ Head(calls) = calls[1]
  BY EmptySeq, LenProperties, HeadTailProperties
<1>3. /\ rest \in Seq(S) /\ Len(rest) = n - 1
      /\ \A i \in 1..n - 1 : rest[i] = calls[i + 1]
  BY HeadTailProperties
<1> DEFINE u == [i \in 0..n - 1 |-> cs[i + 1]]
<1> HIDE DEF rest
<1>4. Includes(h, c, Head(calls), cs[1])
  <2>1. 1 \in 1..n /\ 1 - 1 = 0
    BY <1>2
  <2> QED
    BY <1>1, <1>2, <2>1 DEF Chain
<1>5. ASSUME NEW i \in 1..n - 1
      PROVE  Includes(h, u[i - 1], rest[i], u[i])
  <2>1. i + 1 \in 1..n /\ i - 1 \in 0..n - 1 /\ i \in 0..n - 1
        /\ (i - 1) + 1 = i /\ (i + 1) - 1 = i
    BY <1>2
  <2>2. Includes(h, cs[(i + 1) - 1], calls[i + 1], cs[i + 1])
    BY <1>1, <2>1 DEF Chain
  <2>3. u[i - 1] = cs[i] /\ u[i] = cs[i + 1]
    BY <2>1
  <2> QED
    BY <1>3, <2>1, <2>2, <2>3
<1>6. u[0] = cs[1] /\ u[n - 1] = e /\ DOMAIN u = 0..n - 1
  <2>1. 0 \in 0..n - 1 /\ n - 1 \in 0..n - 1 /\ (n - 1) + 1 = n
    BY <1>2
  <2> QED
    BY <1>1, <2>1
<1> HIDE DEF u
<1>7. Chain(h, u, rest)
  BY <1>3, <1>5, <1>6 DEF Chain
<1>8. Leads(h, cs[1], rest, e)
  BY <1>3, <1>6, <1>7 DEF Leads
<1> QED
  BY <1>4, <1>8 DEF rest

LEMMA IncludesOne ==
    ASSUME NEW h, NEW c, NEW call, NEW d, Includes(h, c, call, d),
           NEW e, Reaches(h, Launches(h, c[1], call), e), IsOver(h, e)
    PROVE  Pays(h, e, call) /\ d = Leaves(h, e, call, c[2])
  BY OneEnd DEF Includes

\* The code that the replica has got; the producer and the replica do not have the
\* code of the same of these contracts.
There == local["replica"]
Differ(S) == \E i \in S : ~ (i \in local["producer"] <=> i \in local["replica"])

\* The state between the transactions, the machine that runs for the next, and the
\* states before and after the block.
Settled == <<IF frames = <<>> THEN contracts ELSE txSnap, spent>>

Underway ==
    frames # <<>> =>
        /\ Knows(There, txSnap, Head(queue))
        /\ Reaches(There, Launches(There, txSnap, Head(queue)), <<contracts, frames>>)

Before == <<base, Free>>
Sealed == <<sealed, sealedSpent>>

\* If the replica has the code that the calls have looked for, and no more of it
\* than the producer, then the producer's block leads on the replica to the state
\* that it is sealed with, and what is left of the block leads the replica there.
ReplicaInv ==
    /\ phase = "create" => device = "producer"
    /\ phase = "apply" => device = "replica"
    /\ phase = "create" => Differ(asked) \/ Underway
    /\ phase = "create" => Differ(sought) \/ Leads(There, Before, included, Settled)
    /\ phase = "apply" => Differ(sought) \/ Underway
    /\ phase \in {"replay", "apply"} => Differ(sought) \/ Leads(There, Before, included, Sealed)
    /\ phase = "apply" => Differ(sought) \/ Leads(There, Settled, queue, Sealed)
    /\ phase = "rejected" => Differ(sought)

LEMMA StepNotEmpty ==
    ASSUME VMInv, Instruction \/ Return
    PROVE  frames # <<>> /\ frames' # <<>>
<1>1. frames # <<>>
  BY DEF Instruction, Push, Swap, Drop, Calculate, Replace, Jump, SStore, MStore, CallNothing,
         Call, Gpio, Halt, Fault, Return, Goes, Active, Ended
<1>2. ASSUME NEW s \in Seq(Frames), NEW f
      PROVE  Append(s, f) # <<>>
  <2> DEFINE S == Frames \cup {f}
  <2>1. s \in Seq(S) /\ f \in S
    BY SeqMonotonic
  <2> HIDE DEF S
  <2>2. Append(s, f) \in Seq(S) /\ Len(Append(s, f)) = Len(s) + 1 /\ Len(s) \in Nat
    BY <2>1, AppendProperties, LenProperties
  <2> QED
    BY <2>2, EmptySeq
<1>3. frames \in Seq(Frames) /\ Len(frames) \in Nat \ {0}
  BY <1>1, FrameFacts DEF VMInv, FramesOK
<1>4. Callers \in Seq(Frames)
  BY <1>1, <1>3, FrontFacts DEF Callers
<1>5. CASE Call
  <2> DEFINE S == Frames \cup {Waiting}
  <2>1. Callers \in Seq(S) /\ Waiting \in S
    BY <1>4, SeqMonotonic
  <2> HIDE DEF S
  <2>2. Append(Callers, Waiting) \in Seq(S)
    BY <2>1, AppendProperties
  <2> DEFINE T == S \cup {Callee}
             s == Append(Callers, Waiting)
  <2>3. s \in Seq(T) /\ Callee \in T
    BY <2>2, SeqMonotonic
  <2> HIDE DEF T, s
  <2>4. Append(s, Callee) \in Seq(T) /\ Len(Append(s, Callee)) = Len(s) + 1 /\ Len(s) \in Nat
    BY <2>3, AppendProperties, LenProperties
  <2> QED
    BY <1>1, <1>5, <2>4, EmptySeq DEF Call, s
<1>6. CASE Return
  <2> DEFINE k == Len(frames) - 2
  <2>1. k \in Nat /\ \A i \in 1..k : frames[i] \in Frames
    BY <1>3, <1>6, ElementOfSeq DEF Return
  <2> HIDE DEF k
  <2>2. SubSeq(frames, 1, k) \in Seq(Frames)
    BY <2>1, SubSeqProperties
  <2> QED
    BY <1>1, <1>2, <1>6, <2>2 DEF Return, k
<1>7. CASE Instruction /\ ~ Call
  BY <1>1, <1>2, <1>4, <1>7 DEF Instruction, Push, Swap, Drop, Calculate, Replace, Jump, SStore,
     MStore, CallNothing, Gpio, Halt, Fault, Continue, Become
<1> QED
  BY <1>5, <1>6, <1>7

\* What is looked for where the two devices do not differ is found by both.
LEMMA StepAlike ==
    ASSUME Instruction \/ Return, phase = "create", device = "producer", ~ Differ(asked)'
    PROVE  Alike(There) /\ local' = local /\ ~ Differ(asked)
<1>1. local' = local /\ asked \subseteq asked'
  BY DEF Instruction, Push, Swap, Drop, Calculate, Replace, Jump, SStore, MStore, CallNothing,
         Call, Gpio, Halt, Fault, Return, Asked, blockVars
<1>2. ASSUME Goes, Op = "XCALL"
      PROVE  Addressed \cap There = Targets
  <2>1. CallNothing \/ Call
    BY <1>2 DEF Instruction, Push, Swap, Drop, Calculate, Replace, Jump, SStore, MStore, Gpio,
       Halt, Fault, Return, Goes, Active, Ended, Grows, Arithmetic
  <2>2. Addressed \subseteq asked'
    BY <2>1 DEF CallNothing, Call, Asked
  <2>3. \A i \in Addressed : i \in local["producer"] <=> i \in local["replica"]
    BY <1>1, <2>2 DEF Differ
  <2> QED
    BY <2>3 DEF Targets, There
<1> QED
  BY <1>1, <1>2 DEF Alike, Differ

LEMMA StepReplica ==
    ASSUME VMInv, ReplicaInv, Instruction \/ Return
    PROVE  ReplicaInv'
<1>1. frames # <<>> /\ frames' # <<>>
  BY StepNotEmpty
<1>2. UNCHANGED blockVars
  BY DEF Instruction, Push, Swap, Drop, Calculate, Replace, Jump, SStore, MStore, CallNothing,
         Call, Gpio, Halt, Fault, Return
<1>3. UNCHANGED <<phase, device, queue, included, base, txSnap, spent, sealed, sealedSpent,
                  local, sought>>
  BY <1>2 DEF blockVars
<1>4. /\ Settled' = Settled /\ There' = There /\ Before' = Before /\ Sealed' = Sealed
      /\ Differ(sought)' <=> Differ(sought)
  BY <1>1, <1>3 DEF Settled, There, Before, Sealed, Differ, Free
<1>5. ASSUME phase # "replay", Underway, Alike(There)
      PROVE  Underway'
  <2> DEFINE s == Launches(There, txSnap, Head(queue))
  <2>1. Knows(There, txSnap, Head(queue)) /\ Reaches(There, s, <<contracts, frames>>)
    BY <1>1, <1>5 DEF Underway
  <2>2. ~ IsOver(There, <<contracts, frames>>)
    <3>1. ~ (Ended /\ Len(frames) = 1)
      <4>1. CASE Instruction
        BY <4>1 DEF Instruction, Push, Swap, Drop, Calculate, Replace, Jump, SStore, MStore,
           CallNothing, Call, Gpio, Halt, Fault, Goes, Active, Ended
      <4>2. CASE Return
        BY <1>1, <4>2, FrameFacts DEF Return
      <4> QED
        BY <4>1, <4>2
    <3> QED
      BY <3>1, HereAsThere
  <2>3. Reaches(There, s, After(There, <<contracts, frames>>))
    BY <2>1, <2>2, ReachesOn
  <2>4. After(There, <<contracts, frames>>) = <<contracts', frames'>>
    BY <1>5, HereAsThere, Deterministic
  <2>5. Reaches(There, s, <<contracts', frames'>>)
    BY <2>3, <2>4
  <2> QED
    BY <1>3, <1>4, <2>1, <2>5 DEF Underway
<1>6. phase = "create" => (Differ(asked) \/ Underway)'
  <2> SUFFICES ASSUME phase = "create", ~ Differ(asked)'
               PROVE  Underway'
    OBVIOUS
  <2>1. Alike(There) /\ ~ Differ(asked)
    BY StepAlike DEF ReplicaInv
  <2> QED
    BY <1>5, <2>1 DEF ReplicaInv
<1>7. phase = "apply" => Differ(sought) \/ Underway'
  <2> SUFFICES ASSUME phase = "apply", ~ Differ(sought)
               PROVE  Underway'
    OBVIOUS
  <2>1. Alike(There)
    BY DEF ReplicaInv, Alike, Targets, There
  <2> QED
    BY <1>5, <2>1 DEF ReplicaInv
<1> QED
  BY <1>3, <1>4, <1>6, <1>7 DEF ReplicaInv

LEMMA StartReplica ==
    ASSUME VMInv, ReplicaInv, StartCall
    PROVE  ReplicaInv'
<1> DEFINE c == Head(queue)
<1>1. /\ frames = <<>> /\ queue # <<>>
      /\ UNCHANGED <<device, included, base, spent, sealed, sealedSpent, local, sought>>
  BY DEF StartCall
<1>2. queue \in Seq(Calls)
  BY DEF VMInv, BooksOK
<1>3. Settled = <<contracts, spent>>
  BY <1>1 DEF Settled
<1>4. /\ There' = There /\ Before' = Before /\ Sealed' = Sealed
      /\ Differ(sought)' <=> Differ(sought)
  BY <1>1 DEF There, Before, Sealed, Differ, Free
<1>5. CASE Callable(c.contract)
  <2>1. /\ frames' = <<Executing(c.contract, c.args, c.sender, c.value, <<>>)>>
        /\ txSnap' = contracts /\ contracts' = contracts /\ queue' = queue /\ phase' = phase
        /\ phase = "create" => asked' = {c.contract}
    BY <1>5 DEF StartCall
  <2> DEFINE f == Executing(c.contract, c.args, c.sender, c.value, <<>>)
  <2>2. <<f>> # <<>>
    OBVIOUS
  <2>3. Settled' = Settled
    BY <1>1, <1>3, <2>1, <2>2 DEF Settled
  <2>4. ASSUME c.contract \in There
        PROVE  Underway'
    <3>1. Launches(There, contracts, c) = <<contracts', frames'>>
      BY <2>1, Launching
    <3>2. Reaches(There, Launches(There, contracts, c), <<contracts', frames'>>)
      BY <3>1, ReachesItself
    <3>3. Knows(There, contracts, c)
      BY <1>5, <2>4, Knowing DEF Callable
    <3> QED
      BY <1>4, <2>1, <3>2, <3>3 DEF Underway
  <2>5. phase = "create" => (Differ(asked) \/ Underway)'
    <3> SUFFICES ASSUME phase = "create", ~ Differ(asked)'
                 PROVE  c.contract \in There
      BY <2>4
    <3>1. c.contract \in local["producer"]
      BY <1>5 DEF Callable, ReplicaInv
    <3> QED
      BY <1>1, <2>1, <3>1 DEF Differ, There
  <2>6. phase = "apply" => Underway'
    BY <1>5, <2>4 DEF Callable, ReplicaInv, There
  <2> QED
    BY <1>1, <1>4, <2>1, <2>3, <2>5, <2>6 DEF ReplicaInv
<1>6. CASE ~ Callable(c.contract) /\ phase # "apply"
  <2>1. queue' = Tail(queue) /\ frames' = <<>> /\ contracts' = contracts /\ phase' = phase
    BY <1>1, <1>6 DEF StartCall
  <2>2. Settled' = Settled /\ Underway'
    BY <1>1, <1>3, <2>1 DEF Settled, Underway
  <2> QED
    BY <1>1, <1>4, <1>6, <2>1, <2>2 DEF ReplicaInv
<1>7. CASE ~ Callable(c.contract) /\ phase = "apply"
  <2>1. phase' = "rejected"
    BY <1>7 DEF StartCall, Reject
  <2>2. Differ(sought)
    <3> SUFFICES ASSUME ~ Differ(sought)
                 PROVE  FALSE
      OBVIOUS
    <3>1. Leads(There, Settled, queue, Sealed)
      BY <1>7 DEF ReplicaInv
    <3>2. PICK d : Includes(There, Settled, c, d)
      BY <1>1, <1>2, <3>1, LeadsFirst
    <3>3. Knows(There, contracts, c)
      BY <1>3, <3>2 DEF Includes
    <3> QED
      BY <1>7, <3>3, Knowing DEF Callable, ReplicaInv, There
  <2> QED
    BY <1>4, <2>1, <2>2 DEF ReplicaInv
<1> QED
  BY <1>5, <1>6, <1>7

LEMMA FinishReplica ==
    ASSUME VMInv, ReplicaInv, FinishCall
    PROVE  ReplicaInv'
<1> DEFINE c == Head(queue)
           e == <<contracts, frames>>
<1>1. /\ frames # <<>> /\ Ended /\ Len(frames) = 1 /\ frames' = <<>>
      /\ UNCHANGED <<device, base, txSnap, sealed, sealedSpent, local, asked>>
  BY DEF FinishCall, Ended
<1>2. queue \in Seq(Calls) /\ included \in Seq(Calls) /\ queue # <<>>
  BY <1>1 DEF VMInv, BooksOK
<1>3. c \in Calls
  BY <1>2, HeadTailProperties
<1>4. /\ Settled = <<txSnap, spent>> /\ Settled' = <<contracts', spent'>> /\ Underway'
      /\ There' = There /\ Before' = Before /\ Sealed' = Sealed
  BY <1>1 DEF Settled, Underway, There, Before, Sealed, Free
<1>5. /\ IsOver(There, e) /\ (Pays(There, e, c) <=> Succeeded)
      /\ Leaves(There, e, c, spent) = <<Left(Frame), Spent>>
  BY <1>1, HereAsThere DEF Succeeded, Spent
<1>6. CASE phase = "create"
  <2>1. /\ included' = IF Succeeded THEN Append(included, c) ELSE included
        /\ spent' = IF Succeeded THEN Spent ELSE spent
        /\ sought' = IF Succeeded THEN sought \cup asked ELSE sought
        /\ contracts' = RolledBack(Succeeded) /\ phase' = "create"
    BY <1>6 DEF FinishCall
  <2>2. Differ(sought) \/ Leads(There, Before, included, Settled)
    BY <1>6 DEF ReplicaInv
  <2>3. (Differ(sought) \/ Leads(There, Before, included, Settled))'
    <3>1. CASE ~ Succeeded
      <4>1. Settled' = Settled /\ (Differ(sought)' <=> Differ(sought))
        BY <1>1, <1>4, <2>1, <3>1 DEF RolledBack, Differ
      <4> QED
        BY <1>4, <2>1, <2>2, <3>1, <4>1
    <3>2. CASE Succeeded
      <4> SUFFICES ASSUME ~ Differ(sought)'
                   PROVE  Leads(There, Before, included', <<Left(Frame), Spent>>)
        BY <1>4, <2>1, <3>2 DEF RolledBack
      <4>1. ~ Differ(sought) /\ ~ Differ(asked)
        BY <1>1, <2>1, <3>2 DEF Differ
      <4>2. Includes(There, Settled, c, <<Left(Frame), Spent>>)
        <5>1. /\ Knows(There, txSnap, c)
              /\ Reaches(There, Launches(There, txSnap, c), e)
          BY <1>1, <1>6, <4>1 DEF ReplicaInv, Underway
        <5> QED
          BY <1>4, <1>5, <3>2, <5>1 DEF Includes
      <4>3. Leads(There, Before, Append(included, c), <<Left(Frame), Spent>>)
        BY <1>2, <1>3, <2>2, <4>1, <4>2, LeadsOn
      <4> QED
        BY <2>1, <3>2, <4>3
    <3> QED
      BY <3>1, <3>2
  <2> QED
    BY <1>1, <1>4, <1>6, <2>1, <2>3 DEF ReplicaInv
<1>7. CASE phase = "apply" /\ ~ Differ(sought)
  <2>1. /\ Leads(There, Settled, queue, Sealed)
        /\ Reaches(There, Launches(There, txSnap, c), e)
    BY <1>1, <1>7 DEF ReplicaInv, Underway
  <2>2. PICK d : Includes(There, Settled, c, d) /\ Leads(There, d, Tail(queue), Sealed)
    BY <1>2, <2>1, LeadsFirst
  <2>3. Settled[1] = txSnap /\ Settled[2] = spent
    BY <1>4
  <2>4. Succeeded /\ d = <<Left(Frame), Spent>>
    BY <1>5, <2>1, <2>2, <2>3, IncludesOne
  <2>5. /\ contracts' = Left(Frame) /\ spent' = Spent /\ queue' = Tail(queue)
        /\ phase' = "apply" /\ included' = included /\ sought' = sought
    BY <1>7, <2>4 DEF FinishCall
  <2>6. Differ(sought)' <=> Differ(sought)
    BY <1>1, <2>5 DEF Differ
  <2>7. Leads(There, Settled, queue, Sealed)'
    BY <1>4, <2>2, <2>4, <2>5
  <2> QED
    BY <1>1, <1>4, <1>7, <2>5, <2>6, <2>7 DEF ReplicaInv
<1>8. CASE phase = "apply" /\ Differ(sought)
  <2>1. phase' \in {"apply", "rejected"} /\ sought' = sought
    BY <1>8 DEF FinishCall, Reject
  <2>2. Differ(sought)'
    BY <1>1, <1>8, <2>1 DEF Differ
  <2> QED
    BY <1>1, <1>8, <2>1, <2>2 DEF ReplicaInv
<1>9. CASE phase = "replay"
  <2>1. phase' = "replay" /\ included' = included /\ sought' = sought
    BY <1>9 DEF FinishCall
  <2>2. Differ(sought)' <=> Differ(sought)
    BY <1>1, <2>1 DEF Differ
  <2> QED
    BY <1>4, <1>9, <2>1, <2>2 DEF ReplicaInv
<1> QED
  BY <1>6, <1>7, <1>8, <1>9 DEF FinishCall

LEMMA BlockReplica ==
    ASSUME VMInv, ReplicaInv, CreateBlock \/ Seal \/ CheckRoot \/ EndReplay
    PROVE  ReplicaInv'
<1>1. CASE CreateBlock
  <2>1. /\ frames = <<>> /\ frames' = <<>> /\ contracts' = contracts /\ base' = contracts
        /\ spent' = Free /\ phase' = "create" /\ included' = <<>> /\ device' = "producer"
    BY <1>1 DEF CreateBlock, VMInv, BooksOK
  <2>2. Settled' = <<contracts, Free>> /\ Before' = <<contracts, Free>> /\ Underway'
    BY <2>1 DEF Settled, Before, Underway, Free
  <2>3. Leads(There, Before, <<>>, Settled)'
    BY <2>2, LeadsNowhere
  <2> QED
    BY <2>1, <2>2, <2>3 DEF ReplicaInv
<1>2. CASE ~ CreateBlock
  <2>1. UNCHANGED <<local, sought, base, included>>
    BY <1>2 DEF Seal, CheckRoot, EndReplay
  <2>2. /\ There' = There /\ Before' = Before /\ (Differ(sought)' <=> Differ(sought))
    BY <2>1 DEF There, Before, Differ, Free
  <2>3. CASE Seal
    <3>1. Settled = Sealed' /\ phase = "create" /\ phase' = "replay"
      BY <2>3 DEF Settled, Sealed, Seal
    <3> QED
      BY <2>1, <2>2, <3>1 DEF ReplicaInv
  <2>4. CASE CheckRoot
    <3>1. Settled = <<contracts, spent>> /\ queue = <<>> /\ phase = "apply" /\ Sealed' = Sealed
      BY <2>4 DEF Settled, Sealed, CheckRoot
    <3>2. Differ(sought) \/ (contracts = sealed /\ spent = sealedSpent)
      BY <3>1, LeadsNowhere DEF ReplicaInv, Sealed
    <3>3. \/ phase' = "replay" /\ contracts = sealed /\ spent = sealedSpent
          \/ phase' = "rejected" /\ Differ(sought)
      BY <2>4, <3>2 DEF CheckRoot, Reject
    <3> QED
      BY <2>1, <2>2, <3>1, <3>3 DEF ReplicaInv
  <2>5. CASE EndReplay /\ device = "producer"
    <3>1. /\ frames' = <<>> /\ contracts' = base /\ spent' = Free /\ queue' = included
          /\ phase = "replay" /\ phase' = "apply" /\ device' = "replica"
          /\ sealed' = sealed /\ sealedSpent' = sealedSpent
      BY <2>5 DEF EndReplay
    <3>2. Settled' = Before /\ Sealed' = Sealed /\ Underway'
      BY <3>1 DEF Settled, Sealed, Before, Underway
    <3> QED
      BY <2>1, <2>2, <3>1, <3>2 DEF ReplicaInv
  <2>6. CASE EndReplay /\ device = "replica"
    BY <2>6 DEF EndReplay, ReplicaInv
  <2> QED
    BY <1>2, <2>3, <2>4, <2>5, <2>6 DEF EndReplay
<1> QED
  BY <1>1, <1>2

\* The replica accepts the block that the producer has made, whatever the contracts
\* do and however they call each other, unless the two do not have the code of the
\* same of the contracts that the block's calls look for: otherwise the same calls
\* succeed, take the same gas and lead to the same state, those that failed left no
\* trace, and the replay neither.
THEOREM ReplicaAgrees == Spec => []ReplicaAccepts
<1>1. Init => VMInv /\ ReplicaInv
  BY InitTyped DEF Init, ReplicaInv
<1>2. VMInv /\ ReplicaInv /\ [Next]_vars => (VMInv /\ ReplicaInv)'
  <2> SUFFICES ASSUME VMInv, ReplicaInv, [Next]_vars
               PROVE  ReplicaInv'
    BY NextTyped
  <2>1. CASE UNCHANGED vars
    BY <2>1 DEF vars, blockVars, ReplicaInv, Underway, Settled, There, Differ, Before, Sealed, Free
  <2>2. CASE Next
    BY <2>2, StepReplica, StartReplica, FinishReplica, BlockReplica DEF Next, Progress
  <2> QED
    BY <2>1, <2>2
<1>3. ReplicaInv => ReplicaAccepts
  BY DEF ReplicaInv, ReplicaAccepts, Differ
<1> QED
  BY <1>1, <1>2, <1>3, PTL DEF Spec

-----------------------------------------------------------------------------
(* Where the machine stands *)

SizeAt(code, pc) == Size(OpOf(code[pc + 1]), ModOf(code[pc + 1]))

LEMMA SizeBounds ==
    ASSUME NEW code, NEW pc
    PROVE  SizeAt(code, pc) \in 1..5
<1>1. \A mod : Width(mod) \in 0..4
  BY DEF Width
<1>2. ASSUME NEW op, NEW mod
      PROVE  Size(op, mod) \in 1..5
  <2>1. PICK w \in 0..4 : w = Width(mod)
    BY <1>1
  <2>2. CASE op = "PUSH"
    BY <2>1, <2>2 DEF Size
  <2>3. CASE op # "PUSH"
    BY <2>3 DEF Size
  <2> QED
    BY <2>2, <2>3
<1> QED
  BY <1>2 DEF SizeAt

\* S contains with each instruction the one that is read after it.
Closed(code, S) == \A p \in S : p < Len(code) => p + SizeAt(code, p) \in S

\* The recursion by which Starts is defined has one solution: at 0 it is what every
\* closed set contains that contains 0.
LEMMA StartsAre ==
    ASSUME NEW code \in Seq(Byte)
    PROVE  Starts(code) = {q \in 0..Len(code) - 1 : \A S \in SUBSET (0..Len(code) + 4) :
                              0 \in S /\ Closed(code, S) => q \in S}
<1> DEFINE len == Len(code)
           Is(f) == f = [pc \in 0..len + 4 |->
                            IF pc >= len THEN {}
                            ELSE {pc} \cup f[pc + Size(OpOf(code[pc + 1]), ModOf(code[pc + 1]))]]
           r == CHOOSE f : Is(f)
           next(pc) == pc + SizeAt(code, pc)
           g == [pc \in 0..len + 4 |->
                    {q \in 0..len - 1 : \A S \in SUBSET (0..len + 4) :
                        pc \in S /\ Closed(code, S) => q \in S}]
<1>1. len \in Nat
  BY LenProperties
<1>2. \A pc \in 0..len + 4 : pc < len => next(pc) \in pc + 1..len + 4
  BY <1>1, SizeBounds
<1>3. \A S : Closed(code, S) <=> \A p \in S : p < len => next(p) \in S
  BY DEF Closed
<1> HIDE DEF len, next
<1>4. ASSUME NEW pc \in 0..len + 4
      PROVE  g[pc] = IF pc >= len THEN {} ELSE {pc} \cup g[next(pc)]
  <2>1. CASE pc >= len
    <3>1. {pc} \in SUBSET (0..len + 4)
      OBVIOUS
    <3>2. Closed(code, {pc})
      <4>1. \A p \in {pc} : ~ (p < len)
        BY <1>1, <2>1
      <4> QED
        BY <1>3, <4>1
    <3>3. \A q \in g[pc] : q = pc /\ q \in 0..len - 1
      BY <3>1, <3>2
    <3> QED
      BY <1>1, <2>1, <3>3
  <2>2. CASE pc < len
    <3>1. pc \in g[pc]
      BY <1>1, <2>2
    <3>2. next(pc) \in 0..len + 4
      BY <1>1, <1>2, <2>2
    <3>3. ASSUME NEW q \in g[next(pc)]
          PROVE  q \in g[pc]
      <4>1. ASSUME NEW S \in SUBSET (0..len + 4), pc \in S, Closed(code, S)
            PROVE  q \in S
        <5>1. next(pc) \in S
          BY <1>3, <2>2, <4>1
        <5> QED
          BY <3>2, <3>3, <4>1, <5>1
      <4> QED
        BY <3>2, <3>3, <4>1
    <3>4. ASSUME NEW q \in g[pc], q # pc
          PROVE  q \in g[next(pc)]
      <4>1. ASSUME NEW S \in SUBSET (0..len + 4), next(pc) \in S, Closed(code, S)
            PROVE  q \in S
        <5>1. S \cup {pc} \in SUBSET (0..len + 4) /\ pc \in S \cup {pc}
              /\ Closed(code, S \cup {pc})
          BY <1>3, <4>1
        <5>2. q \in S \cup {pc}
          BY <3>4, <5>1
        <5> QED
          BY <3>4, <5>2
      <4> QED
        BY <3>2, <3>4, <4>1
    <3>5. g[pc] = {pc} \cup g[next(pc)]
      BY <3>1, <3>3, <3>4
    <3> HIDE DEF g
    <3> QED
      BY <1>1, <2>2, <3>5
  <2> HIDE DEF g
  <2> QED
    BY <1>1, <2>1, <2>2
<1>5. g = [pc \in 0..len + 4 |-> g[pc]]
  OBVIOUS
<1>6. g[0] = {q \in 0..len - 1 : \A S \in SUBSET (0..len + 4) :
                  0 \in S /\ Closed(code, S) => q \in S}
  BY <1>1
<1> HIDE DEF g
<1>7. Is(g)
  BY <1>4, <1>5 DEF next, SizeAt
<1>8. Is(r)
  BY <1>7
<1>9. Starts(code) = r[0]
  BY DEF Starts, len
<1> HIDE DEF r
<1>10. \A pc \in 0..len + 4 : r[pc] = IF pc >= len THEN {} ELSE {pc} \cup r[next(pc)]
  BY <1>8 DEF next, SizeAt
<1> DEFINE T == {m \in 0..len + 4 : r[len + 4 - m] # g[len + 4 - m]}
<1>11. T = {}
  <2> SUFFICES ASSUME T # {}
               PROVE  FALSE
    OBVIOUS
  <2>1. PICK m \in T : \A k \in T : m <= k
    <3>1. T \in SUBSET Nat
      BY <1>1
    <3> QED
      BY <3>1, Least
  <2>2. PICK pc \in 0..len + 4 : pc = len + 4 - m /\ r[pc] # g[pc]
    BY <1>1, <2>1
  <2>3. ASSUME NEW n \in pc + 1..len + 4
        PROVE  r[n] = g[n]
    <3>1. PICK k \in 0..len + 4 : k = len + 4 - n /\ k < m /\ len + 4 - k = n
      BY <1>1, <2>1, <2>2, <2>3
    <3>2. k \notin T
      <4>1. ~ (m <= k)
        BY <1>1, <2>1, <3>1
      <4> HIDE DEF T
      <4> QED
        BY <2>1, <4>1
    <3> QED
      BY <3>1, <3>2
  <2> HIDE DEF T
  <2>4. pc < len => r[next(pc)] = g[next(pc)]
    <3>1. pc < len => next(pc) \in pc + 1..len + 4
      BY <1>2, <2>2
    <3> QED
      BY <2>3, <3>1
  <2>5. r[pc] = g[pc]
    <3>1. r[pc] = IF pc >= len THEN {} ELSE {pc} \cup r[next(pc)]
      BY <1>10
    <3>2. g[pc] = IF pc >= len THEN {} ELSE {pc} \cup g[next(pc)]
      BY <1>4
    <3>3. pc >= len \/ pc < len
      BY <1>1
    <3> HIDE DEF g
    <3> QED
      BY <2>4, <3>1, <3>2, <3>3
  <2> QED
    BY <2>2, <2>5
<1>12. r[0] = g[0]
  <2>1. len + 4 \in 0..len + 4 /\ len + 4 - (len + 4) = 0
    BY <1>1
  <2>2. len + 4 \notin T
    BY <1>11
  <2> QED
    BY <2>1, <2>2
<1> QED
  BY <1>6, <1>9, <1>12 DEF len

\* Reading goes on to the end of the code.
LEMMA StartsOn ==
    ASSUME NEW code \in Seq(Byte), NEW q \in Starts(code)
    PROVE  /\ q \in 0..Len(code) - 1
           /\ q + SizeAt(code, q) < Len(code) => q + SizeAt(code, q) \in Starts(code)
<1> DEFINE next == q + SizeAt(code, q)
<1>1. Len(code) \in Nat /\ q \in 0..Len(code) - 1
  BY StartsAre, LenProperties
<1>2. next \in Nat
  BY <1>1, SizeBounds
<1>3. ASSUME NEW S \in SUBSET (0..Len(code) + 4), 0 \in S, Closed(code, S)
      PROVE  next \in S
  <2>1. q \in S
    BY <1>3, StartsAre
  <2> QED
    BY <1>1, <1>3, <2>1 DEF Closed
<1> HIDE DEF next
<1>4. next < Len(code) => next \in Starts(code)
  BY <1>1, <1>2, <1>3, StartsAre
<1> QED
  BY <1>1, <1>4 DEF next

\* The machine may stand at the start of an instruction and at the end.
Stands(pc, code) == pc \in Starts(code) \cup {Len(code)}

LEMMA StandsFirst ==
    ASSUME NEW code \in Seq(Byte)
    PROVE  Stands(0, code)
<1>1. Len(code) \in Nat
  BY LenProperties
<1> QED
  BY <1>1, StartsAre DEF Stands

\* Every jump that the machine may make leads to the start of an instruction.
Aligned(code) ==
    \A pc \in Starts(code) :
        /\ OpOf(code[pc + 1]) = "JMP" /\ pc + 1 < Len(code) /\ code[pc + 2] < Len(code)
        => code[pc + 2] \in Starts(code)

\* Where an instruction leads.
LEMMA GoesOn ==
    ASSUME VMInv, Goes, Stands(Frame.pc, Code), Aligned(Code)
    PROVE  Stands(NextPc, Code) /\ (Op = "JMP" => Stands(Operand(1), Code))
<1> DEFINE len == Len(Code)
           pc == Frame.pc
<1>1. frames # <<>> /\ Affordable /\ ~ Faulty
  BY DEF Goes, Active
<1>2. Code \in Seq(Byte) /\ len \in Nat /\ pc \in Nat
  BY <1>1, FrameFacts DEF Frames
<1>3. pc < len
  BY <1>1 DEF Affordable
<1>4. pc \in Starts(Code)
  BY <1>2, <1>3 DEF Stands
<1>5. NextPc = pc + SizeAt(Code, pc) /\ SizeAt(Code, pc) = Size(Op, Mod)
  BY DEF NextPc, SizeAt, Op, Mod, Here
<1>6. NextPc \in Nat /\ NextPc <= len
  <2>1. CASE Op = "PUSH"
    <3>1. Mod \in 1..3 /\ ~ (pc + Width(Mod) >= len)
      BY <1>1, <2>1 DEF Faulty
    <3>2. Width(Mod) \in Nat /\ Size(Op, Mod) = 1 + Width(Mod)
      BY <2>1, <3>1 DEF Width, Size
    <3> QED
      BY <1>2, <1>5, <3>1, <3>2
  <2>2. CASE Op = "JMP"
    <3>1. ~ (pc + 1 >= len) /\ Size(Op, Mod) = 2
      BY <1>1, <2>2 DEF Faulty, Size
    <3> QED
      BY <1>2, <1>5, <3>1
  <2>3. CASE Op \notin {"PUSH", "JMP"}
    <3>1. Size(Op, Mod) = 1
      BY <2>3 DEF Size
    <3> QED
      BY <1>2, <1>3, <1>5, <3>1
  <2> QED
    BY <2>1, <2>2, <2>3
<1>7. NextPc < len => NextPc \in Starts(Code)
  BY <1>2, <1>4, <1>5, StartsOn
<1>8. ASSUME Op = "JMP"
      PROVE  Operand(1) \in Starts(Code)
  <2>1. ~ (pc + 1 >= len) /\ ~ (Operand(1) >= len)
    BY <1>1, <1>8 DEF Faulty
  <2>2. Operand(1) = Code[pc + 2]
    <3>1. pc + 1 + 1 = pc + 2 /\ Operand(1) = Code[pc + 1 + 1]
      BY <1>2 DEF Operand
    <3> QED
      BY <3>1
  <2>3. Code[pc + 2] \in Byte
    <3>1. pc + 2 \in 1..len
      BY <1>2, <2>1
    <3> QED
      BY <1>2, <3>1, ElementOfSeq
  <2>4. pc + 1 < len /\ Code[pc + 2] < len
    <3>1. ~ (Code[pc + 2] >= len) /\ ~ (pc + 1 >= len)
      BY <2>1, <2>2
    <3>2. PICK t \in Byte : t = Code[pc + 2]
      BY <2>3
    <3>3. t < len /\ pc + 1 < len
      BY <1>2, <3>1, <3>2, ByteIs
    <3> QED
      BY <3>2, <3>3
  <2>5. OpOf(Code[pc + 1]) = "JMP"
    BY <1>8 DEF Op, Here
  <2> QED
    BY <1>4, <2>2, <2>4, <2>5 DEF Aligned
<1> QED
  BY <1>6, <1>7, <1>8 DEF Stands

\* The machines inside k that will put a code back into its contract, and the
\* code that k goes on with when they have.
Later(k) == {j \in k + 1..Len(frames) : frames[j].self = frames[k].self /\ frames[j].saved # <<>>}
First(S) == CHOOSE j \in S : \A i \in S : j <= i
RunsIn(k) ==
    IF Later(k) = {} THEN contracts[frames[k].self].code ELSE frames[First(Later(k))].saved

CodesAligned ==
    /\ \A c \in DOMAIN contracts :
          /\ Aligned(contracts[c].code) /\ Aligned(base[c].code)
          /\ Aligned(txSnap[c].code) /\ Aligned(sealed[c].code)
    /\ \A k \in 1..Len(frames) : Aligned(frames[k].saved)

\* A machine that waits stands at an XCALL, which is one byte.
AlignInv ==
    /\ CodesAligned
    /\ \A k \in 1..Len(frames) :
          frames[k].status = "RUNNING" =>
              Stands(IF k = Len(frames) THEN frames[k].pc ELSE frames[k].pc + 1, RunsIn(k))

LEMMA FirstIs ==
    ASSUME NEW S \in SUBSET Nat, S # {}
    PROVE  /\ First(S) \in S /\ \A i \in S : First(S) <= i
           /\ \A j \in S : (\A i \in S : j <= i) => j = First(S)
<1>1. \E j \in S : \A i \in S : j <= i
  BY Least
<1>2. First(S) \in S /\ \A i \in S : First(S) <= i
  BY <1>1 DEF First
<1>3. ASSUME NEW j \in S, \A i \in S : j <= i
      PROVE  j = First(S)
  <2>1. j \in Nat /\ First(S) \in Nat /\ j <= First(S) /\ First(S) <= j
    BY <1>2, <1>3
  <2> QED
    BY <2>1
<1> QED
  BY <1>2, <1>3

\* The innermost machine runs in the code that is there.
LEMMA RunsInHere ==
    ASSUME VMInv, AlignInv, frames # <<>>
    PROVE  /\ Later(Len(frames)) = {} /\ RunsIn(Len(frames)) = Code /\ Aligned(Code)
           /\ Active => Stands(Frame.pc, Code)
<1> DEFINE n == Len(frames)
<1>1. n \in Nat \ {0} /\ Frame = frames[n] /\ Frame.self \in DOMAIN contracts
  BY FrameFacts
<1>2. Later(n) = {}
  BY <1>1 DEF Later
<1>3. RunsIn(n) = Code
  BY <1>1, <1>2 DEF RunsIn, Code, Self
<1>4. Aligned(Code)
  BY <1>1 DEF AlignInv, CodesAligned, Code, Self
<1>5. Active => Stands(Frame.pc, Code)
  BY <1>1, <1>3 DEF AlignInv, Active
<1> QED
  BY <1>2, <1>3, <1>4, <1>5

LEMMA BecomesAligned ==
    ASSUME VMInv, AlignInv, frames # <<>>, NEW f, Become(f),
           f.self = Frame.self, f.saved = Frame.saved, UNCHANGED blockVars,
           DOMAIN contracts' = DOMAIN contracts,
           \A c \in DOMAIN contracts : contracts'[c].code = contracts[c].code,
           f.status = "RUNNING" => Stands(f.pc, Code)
    PROVE  AlignInv'
<1> DEFINE S == Frames \cup {f}
           n == Len(frames)
<1>1. frames \in Seq(Frames) /\ n \in Nat \ {0} /\ Frame = frames[n]
  BY FrameFacts DEF VMInv, FramesOK
<1>2. /\ Callers \in Seq(Frames) /\ Len(Callers) = n - 1
      /\ \A i \in 1..n - 1 : Callers[i] = frames[i]
  BY <1>1, FrontFacts DEF Callers
<1>3. Callers \in Seq(S) /\ f \in S
  BY <1>2, SeqMonotonic
<1> HIDE DEF S
<1>4. /\ Len(frames') = n /\ frames'[n] = f
      /\ \A i \in 1..n - 1 : frames'[i] = frames[i]
  BY <1>1, <1>2, <1>3, AppendProperties DEF Become
<1>5. \A k \in 1..n :
          frames'[k].self = frames[k].self /\ frames'[k].saved = frames[k].saved
  <2> TAKE k \in 1..n
  <2>1. k = n \/ k \in 1..n - 1
    BY <1>1
  <2> QED
    BY <1>1, <1>4, <2>1
<1>6. ASSUME NEW k \in 1..n
      PROVE  RunsIn(k)' = RunsIn(k)
  <2>1. \A j \in k + 1..n : j \in 1..n
    BY <1>1
  <2>2. Later(k)' = Later(k) /\ Later(k) \in SUBSET (1..n)
    BY <1>4, <1>5, <2>1 DEF Later
  <2>3. CASE Later(k) = {}
    <3>1. frames[k].self \in DOMAIN contracts
      BY LenProperties DEF VMInv, StatesOK, FramesOK, Bounded
    <3> QED
      BY <1>5, <2>2, <2>3, <3>1 DEF RunsIn
  <2>4. CASE Later(k) # {}
    <3>1. First(Later(k)) \in Later(k)
      <4>1. Later(k) \in SUBSET Nat
        BY <1>1, <2>2
      <4> QED
        BY <2>4, <4>1, FirstIs
    <3>2. First(Later(k))' = First(Later(k))
      BY <2>2 DEF First
    <3> QED
      BY <1>5, <2>2, <2>4, <3>1, <3>2 DEF RunsIn
  <2> QED
    BY <2>3, <2>4
<1>7. CodesAligned'
  BY <1>4, <1>5 DEF AlignInv, CodesAligned, blockVars
<1>8. ASSUME NEW k \in 1..n, frames'[k].status = "RUNNING"
      PROVE  Stands(IF k = n THEN frames'[k].pc ELSE frames'[k].pc + 1, RunsIn(k))
  <2>1. CASE k = n
    BY <1>4, <1>8, <2>1, RunsInHere
  <2>2. CASE k \in 1..n - 1
    BY <1>1, <1>4, <1>8, <2>2 DEF AlignInv
  <2> QED
    BY <1>1, <2>1, <2>2
<1> QED
  BY <1>4, <1>6, <1>7, <1>8 DEF AlignInv, Stands

LEMMA ContinuesAligned ==
    ASSUME VMInv, AlignInv, Goes, NEW stack, NEW pc, Continue(stack, pc), UNCHANGED blockVars,
           DOMAIN contracts' = DOMAIN contracts,
           \A c \in DOMAIN contracts : contracts'[c].code = contracts[c].code,
           pc = NextPc \/ (Op = "JMP" /\ pc = Operand(1))
    PROVE  AlignInv'
<1> DEFINE f == [Charged(Frame, Cost(Op, Mod)) EXCEPT !.stack = stack, !.pc = pc]
<1>1. frames # <<>> /\ Frame \in Frames /\ Active
  BY Sound, FrameFacts DEF Goes
<1>2. f.self = Frame.self /\ f.saved = Frame.saved /\ f.pc = pc
  BY <1>1 DEF Charged, Frames
<1>3. Become(f)
  BY DEF Continue
<1>4. Stands(pc, Code)
  BY <1>1, RunsInHere, GoesOn
<1> HIDE DEF f
<1> QED
  BY <1>1, <1>2, <1>3, <1>4, BecomesAligned

LEMMA PlainAligned ==
    ASSUME VMInv, AlignInv, Instruction, ~ Call
    PROVE  AlignInv'
<1>1. UNCHANGED blockVars
  BY DEF Instruction, Push, Swap, Drop, Calculate, Replace, Jump, SStore, MStore, CallNothing,
         Gpio, Halt, Fault
<1>2. /\ DOMAIN contracts' = DOMAIN contracts
      /\ \A c \in DOMAIN contracts : contracts'[c].code = contracts[c].code
  BY CodesUntouched
<1>3. ASSUME NEW stack, NEW pc, Goes, Continue(stack, pc),
             pc = NextPc \/ (Op = "JMP" /\ pc = Operand(1))
      PROVE  AlignInv'
  BY <1>1, <1>2, <1>3, ContinuesAligned
<1>4. ASSUME NEW f, frames # <<>>, Become(f), f.self = Frame.self, f.saved = Frame.saved,
             f.status = "RUNNING" => Stands(f.pc, Code)
      PROVE  AlignInv'
  BY <1>1, <1>2, <1>4, BecomesAligned
<1>5. frames # <<>> => Frame \in Frames
  BY FrameFacts
<1>6. CASE Push
  BY <1>3, <1>6 DEF Push
<1>7. CASE Swap
  BY <1>3, <1>7 DEF Swap
<1>8. CASE Drop
  BY <1>3, <1>8 DEF Drop
<1>9. CASE Calculate
  BY <1>3, <1>9 DEF Calculate
<1>10. CASE Replace
  BY <1>3, <1>10 DEF Replace
<1>11. CASE Jump
  BY <1>3, <1>11 DEF Jump
<1>12. CASE SStore
  BY <1>3, <1>12 DEF SStore
<1>13. CASE MStore
  <2> DEFINE f == [Charged(Frame, Cost(Op, Mod)) EXCEPT
                      !.stack = Without(2), !.pc = NextPc, !.memory[Nth(2)] = Nth(1)]
  <2>1. Become(f) /\ frames # <<>> /\ Goes /\ Active
    BY <1>13 DEF MStore, Goes, Active
  <2>2. f.self = Frame.self /\ f.saved = Frame.saved /\ f.pc = NextPc
    BY <1>5, <2>1 DEF Charged, Frames
  <2>3. Stands(NextPc, Code)
    BY <2>1, RunsInHere, GoesOn
  <2> HIDE DEF f
  <2> QED
    BY <1>4, <2>1, <2>2, <2>3
<1>14. CASE CallNothing
  BY <1>3, <1>14 DEF CallNothing
<1>15. CASE Gpio
  BY <1>3, <1>15 DEF Gpio
<1>16. CASE Halt
  <2> DEFINE f == [Charged(Frame, Cost(Op, Mod)) EXCEPT
                      !.status = IF Mod = 0 THEN "HALTED" ELSE "FAILED"]
  <2>1. Become(f) /\ frames # <<>>
    BY <1>16 DEF Halt, Goes, Active
  <2>2. f.self = Frame.self /\ f.saved = Frame.saved /\ f.status # "RUNNING"
    BY <1>5, <2>1 DEF Charged, Frames
  <2> HIDE DEF f
  <2> QED
    BY <1>4, <2>1, <2>2
<1>17. CASE Fault
  <2> DEFINE f == [Charged(Frame, IF Affordable THEN Cost(Op, Mod) ELSE 0) EXCEPT
                      !.status = "FAILED"]
  <2>1. Become(f) /\ frames # <<>>
    BY <1>17 DEF Fault, Active
  <2>2. f.self = Frame.self /\ f.saved = Frame.saved /\ f.status # "RUNNING"
    BY <1>5, <2>1 DEF Charged, Frames
  <2> HIDE DEF f
  <2> QED
    BY <1>4, <2>1, <2>2
<1> QED
  BY <1>6, <1>7, <1>8, <1>9, <1>10, <1>11, <1>12, <1>13, <1>14, <1>15, <1>16, <1>17
  DEF Instruction

LEMMA NothingToAlign == Aligned(<<>>)
<1>1. <<>> \in Seq(Byte) /\ Len(<<>>) = 0
  OBVIOUS
<1>2. \A q \in Starts(<<>>) : q \in 0..0 - 1
  BY <1>1, StartsOn
<1> QED
  BY <1>2 DEF Aligned

LEMMA CallAligned ==
    ASSUME VMInv, AlignInv, Call
    PROVE  AlignInv'
<1> DEFINE n == Len(frames)
           own == Frame.self
<1>1. /\ frames # <<>> /\ n \in Nat \ {0} /\ Frame = frames[n]
      /\ Len(frames') = n + 1 /\ frames'[n] = Waiting /\ frames'[n + 1] = Callee
      /\ \A i \in 1..n - 1 : frames'[i] = frames[i]
  BY CallIs
<1>2. /\ Waiting.self = own /\ Waiting.saved = Frame.saved
      /\ Waiting.pc = Frame.pc /\ Callee.pc = 0
      /\ IF Delegate THEN Callee.self = own /\ Callee.saved = Code ELSE Callee.saved = <<>>
      /\ Code # <<>> /\ own \in DOMAIN contracts /\ DOMAIN contracts' = DOMAIN contracts
  BY CallIs
<1>3. /\ contracts' = IF Delegate THEN [contracts EXCEPT ![own].code = contracts[Target].code]
                      ELSE contracts
      /\ Goes /\ Active /\ Op = "XCALL" /\ Targets # {} /\ UNCHANGED <<base, txSnap, sealed>>
  BY DEF Call, Lent, Goes, blockVars
<1>4. /\ Aligned(Code) /\ Stands(Frame.pc, Code) /\ RunsIn(n) = Code
  BY <1>1, <1>3, RunsInHere
<1>5. Stands(Frame.pc + 1, Code)
  <2>1. Size(Op, Mod) = 1
    BY <1>3 DEF Size
  <2> QED
    BY <1>3, <1>4, <2>1, GoesOn DEF NextPc
<1>6. \A k \in 1..n : frames'[k].self = frames[k].self /\ frames'[k].saved = frames[k].saved
  <2> TAKE k \in 1..n
  <2>1. k = n \/ k \in 1..n - 1
    BY <1>1
  <2> QED
    BY <1>1, <1>2, <2>1
<1>7. ASSUME NEW c \in DOMAIN contracts, ~ (Delegate /\ c = own)
      PROVE  contracts'[c].code = contracts[c].code
  <2>1. CASE Delegate
    BY <1>3, <1>7, <2>1
  <2>2. CASE ~ Delegate
    BY <1>3, <2>2
  <2> QED
    BY <2>1, <2>2
<1>8. CodesAligned'
  <2>1. Target \in DOMAIN contracts
    BY <1>3, TargetIs DEF Target
  <2>2. Delegate => contracts'[own].code = contracts[Target].code
    <3>1. contracts[own] \in Contracts
      BY <1>1, FrameFacts DEF Self
    <3> QED
      BY <1>2, <1>3, <3>1 DEF Contracts
  <2>3. ASSUME NEW c \in DOMAIN contracts
        PROVE  Aligned(contracts'[c].code)
    BY <1>7, <2>1, <2>2 DEF AlignInv, CodesAligned
  <2>4. ASSUME NEW k \in 1..n + 1
        PROVE  Aligned(frames'[k].saved)
    <3>1. k = n + 1 \/ k \in 1..n
      BY <1>1
    <3>2. Aligned(Callee.saved)
      BY <1>2, <1>4, NothingToAlign
    <3> QED
      BY <1>1, <1>6, <3>1, <3>2 DEF AlignInv, CodesAligned
  <2> QED
    BY <1>1, <1>2, <1>3, <2>3, <2>4 DEF AlignInv, CodesAligned
<1>9. ASSUME NEW k \in 1..n
      PROVE  RunsIn(k)' = RunsIn(k)
  <2> DEFINE same == Delegate /\ frames[k].self = own
  <2>1. Later(k)' = Later(k) \cup (IF same THEN {n + 1} ELSE {})
    <3>1. k + 1..n + 1 = (k + 1..n) \cup {n + 1} /\ \A j \in k + 1..n : j \in 1..n
      <4>1. n \in Nat /\ k \in Nat /\ 1 <= k /\ k <= n
        BY <1>1
      <4> HIDE DEF n
      <4> QED
        BY <4>1
    <3>2. frames'[n + 1].self = frames[k].self /\ frames'[n + 1].saved # <<>> <=> same
      BY <1>1, <1>2
    <3>3. Later(k)' = {j \in k + 1..n + 1 :
                          frames'[j].self = frames[k].self /\ frames'[j].saved # <<>>}
      BY <1>1, <1>6 DEF Later
    <3>4. Later(k) = {j \in k + 1..n :
                         frames[j].self = frames[k].self /\ frames[j].saved # <<>>}
      BY DEF Later
    <3> HIDE DEF same
    <3> QED
      BY <1>6, <3>1, <3>2, <3>3, <3>4
  <2>2. Later(k) \in SUBSET (1..n) /\ Later(k) \in SUBSET Nat
    BY <1>1 DEF Later
  <2>3. frames[k].self \in DOMAIN contracts
    BY LenProperties DEF VMInv, StatesOK, FramesOK, Bounded
  <2>4. CASE Later(k) # {}
    <3>1. First(Later(k)) \in Later(k) /\ \A i \in Later(k) : First(Later(k)) <= i
      BY <2>2, <2>4, FirstIs
    <3>2. First(Later(k)) \in 1..n /\ First(Later(k)) <= n + 1
      BY <1>1, <2>2, <3>1
    <3>3. Later(k)' \in SUBSET Nat /\ Later(k)' # {} /\ First(Later(k)) \in Later(k)'
      BY <1>1, <2>1, <2>2, <3>1
    <3>4. \A i \in Later(k)' : First(Later(k)) <= i
      BY <2>1, <3>1, <3>2
    <3>5. First(Later(k))' = First(Later(k))
      <4>1. First(Later(k))' = CHOOSE j \in Later(k)' : \A i \in Later(k)' : j <= i
        BY DEF First
      <4>2. PICK T : T = Later(k)'
        OBVIOUS
      <4>3. First(Later(k)) = First(T)
        BY <3>3, <3>4, <4>2, FirstIs
      <4> QED
        BY <4>1, <4>2, <4>3 DEF First
    <3> QED
      BY <1>6, <2>4, <3>2, <3>3, <3>5 DEF RunsIn
  <2>5. CASE Later(k) = {} /\ same
    <3>1. Later(k)' = {n + 1}
      BY <2>1, <2>5
    <3>2. First(Later(k))' = n + 1
      BY <1>1, <3>1 DEF First
    <3>3. RunsIn(k)' = Code
      BY <1>1, <1>2, <2>5, <3>1, <3>2 DEF RunsIn
    <3> QED
      BY <2>5, <3>3 DEF RunsIn, Code, Self
  <2>6. CASE Later(k) = {} /\ ~ same
    <3>1. Later(k)' = {}
      BY <2>1, <2>6
    <3> QED
      BY <1>6, <1>7, <2>3, <2>6, <3>1 DEF RunsIn
  <2> QED
    BY <2>4, <2>5, <2>6
<1>10. ASSUME NEW k \in {n + 1}
       PROVE  Stands(0, RunsIn(k)')
  <2>1. k = n + 1 /\ Later(k)' = {}
    BY <1>1 DEF Later
  <2>2. RunsIn(k)' = contracts'[frames'[k].self].code
    BY <2>1 DEF RunsIn
  <2>3. VMInv'
    BY CallTyped
  <2>4. contracts' \in Seq(Contracts) /\ frames'[k].self \in 1..Len(contracts')
    BY <1>1, <2>1, <2>3 DEF VMInv, StatesOK, FramesOK, Bounded
  <2>5. contracts'[frames'[k].self] \in Contracts
    BY <2>4, ElementOfSeq
  <2>6. RunsIn(k)' \in Seq(Byte)
    BY <2>2, <2>5 DEF Contracts
  <2> QED
    BY <2>6, StandsFirst
<1>11. ASSUME NEW k \in 1..n + 1, frames'[k].status = "RUNNING"
       PROVE  Stands(IF k = n + 1 THEN frames'[k].pc ELSE frames'[k].pc + 1, RunsIn(k)')
  <2>1. CASE k = n + 1
    BY <1>1, <1>2, <1>10, <2>1
  <2>2. CASE k = n
    BY <1>1, <1>2, <1>4, <1>5, <1>9, <2>2
  <2>3. CASE k \in 1..n - 1
    <3>1. k \in 1..n /\ k # n /\ k # n + 1
      BY <1>1, <2>3
    <3> QED
      BY <1>1, <1>9, <1>11, <2>3, <3>1 DEF AlignInv
  <2> QED
    BY <1>1, <2>1, <2>2, <2>3
<1> QED
  BY <1>1, <1>8, <1>11 DEF AlignInv, Stands

LEMMA ReturnAligned ==
    ASSUME VMInv, AlignInv, Return
    PROVE  AlignInv'
<1> DEFINE m == Len(frames) - 1
<1>1. /\ frames # <<>> /\ m \in Nat \ {0} /\ Len(frames) = m + 1
      /\ Len(frames') = m /\ frames'[m] = Resumed
      /\ \A i \in 1..m - 1 : frames'[i] = frames[i]
      /\ Resumed.self = frames[m].self /\ Resumed.saved = frames[m].saved
      /\ Resumed.status = "RUNNING" => Resumed.pc = frames[m].pc + 1
  BY ReturnIs
<1>2. contracts' = Left(Frame) /\ UNCHANGED <<base, txSnap, sealed>>
  BY ReturnIs
<1>3. Frame = frames[m + 1] /\ DOMAIN contracts' = DOMAIN contracts
  BY <1>1, <1>2 DEF Frame, Left
<1> HIDE DEF m
<1>4. \A k \in 1..m : frames'[k].self = frames[k].self /\ frames'[k].saved = frames[k].saved
  <2> TAKE k \in 1..m
  <2>1. k = m \/ k \in 1..m - 1
    BY <1>1
  <2> QED
    BY <1>1, <2>1
<1>5. \A c \in DOMAIN contracts :
          contracts'[c].code = IF c = Frame.self /\ Frame.saved # <<>> THEN Frame.saved
                               ELSE contracts[c].code
  BY <1>1, <1>2, LeftCode
<1>6. CodesAligned'
  <2>1. m + 1 \in 1..Len(frames) /\ \A k \in 1..m : k \in 1..Len(frames)
    BY <1>1
  <2>2. Aligned(Frame.saved)
    BY <1>3, <2>1 DEF AlignInv, CodesAligned
  <2> QED
    BY <1>1, <1>2, <1>3, <1>4, <1>5, <2>1, <2>2 DEF AlignInv, CodesAligned
<1>7. ASSUME NEW k \in 1..m
      PROVE  RunsIn(k)' = RunsIn(k)
  <2>1. Later(k)' = Later(k) \ {m + 1}
    <3>1. k + 1..m + 1 = (k + 1..m) \cup {m + 1} /\ \A j \in k + 1..m : j \in 1..m
      BY <1>1
    <3>2. m + 1 \notin k + 1..m
      BY <1>1
    <3>3. Later(k)' = {j \in k + 1..m :
                          frames'[j].self = frames[k].self /\ frames'[j].saved # <<>>}
      BY <1>1, <1>4 DEF Later
    <3>4. Later(k) = {j \in k + 1..m + 1 :
                         frames[j].self = frames[k].self /\ frames[j].saved # <<>>}
      BY <1>1 DEF Later
    <3> QED
      BY <1>4, <3>1, <3>2, <3>3, <3>4
  <2>2. Later(k)' \in SUBSET (1..m) /\ Later(k) \in SUBSET (1..m + 1)
    BY <1>1, <2>1 DEF Later
  <2>3. Later(k) \in SUBSET Nat /\ Later(k)' \in SUBSET Nat
    BY <1>1, <2>2
  <2>4. m + 1 \in Later(k) <=> Frame.self = frames[k].self /\ Frame.saved # <<>>
    <3>1. m + 1 \in k + 1..Len(frames)
      BY <1>1
    <3> QED
      BY <1>3, <3>1 DEF Later
  <2>5. frames[k].self \in DOMAIN contracts
    <3>1. k \in 1..Len(frames)
      BY <1>1
    <3> QED
      BY <3>1, LenProperties DEF VMInv, StatesOK, FramesOK, Bounded
  <2>6. CASE Later(k)' # {}
    <3>1. PICK T : T = Later(k)'
      OBVIOUS
    <3>2. First(T) \in T /\ \A i \in T : First(T) <= i
      BY <2>3, <2>6, <3>1, FirstIs
    <3>3. First(T) \in Later(k) /\ First(T) \in 1..m /\ First(T) <= m + 1
      BY <1>1, <2>1, <2>2, <3>1, <3>2
    <3>4. \A i \in Later(k) : First(T) <= i
      BY <2>1, <3>1, <3>2, <3>3
    <3>5. First(T) = First(Later(k))
      BY <2>3, <3>3, <3>4, FirstIs
    <3>6. First(Later(k))' = First(T)
      BY <3>1 DEF First
    <3> QED
      BY <1>4, <2>6, <3>3, <3>5, <3>6 DEF RunsIn
  <2>7. CASE Later(k)' = {} /\ Later(k) # {}
    <3>1. Later(k) = {m + 1}
      BY <2>1, <2>7
    <3>2. First(Later(k)) = m + 1
      BY <1>1, <3>1 DEF First
    <3>3. RunsIn(k) = Frame.saved
      BY <1>3, <2>7, <3>2 DEF RunsIn
    <3>4. m + 1 \in Later(k)
      BY <3>1
    <3> QED
      BY <1>4, <1>5, <2>4, <2>5, <2>7, <3>3, <3>4 DEF RunsIn
  <2>8. CASE Later(k)' = {} /\ Later(k) = {}
    BY <1>4, <1>5, <2>4, <2>5, <2>8 DEF RunsIn
  <2> QED
    BY <2>6, <2>7, <2>8
<1>8. ASSUME NEW k \in 1..m, frames'[k].status = "RUNNING"
      PROVE  Stands(IF k = m THEN frames'[k].pc ELSE frames'[k].pc + 1, RunsIn(k)')
  <2>1. k \in 1..Len(frames) /\ k \in 1..Len(frames) - 1 /\ k # Len(frames)
    BY <1>1
  <2>2. frames[k].status = "RUNNING"
    BY <2>1 DEF VMInv, FramesOK
  <2>3. Stands(frames[k].pc + 1, RunsIn(k))
    BY <2>1, <2>2 DEF AlignInv
  <2>4. CASE k = m
    BY <1>1, <1>7, <1>8, <2>3, <2>4
  <2>5. CASE k # m
    <3>1. k \in 1..m - 1
      BY <1>1, <2>5
    <3> QED
      BY <1>1, <1>7, <2>3, <2>5, <3>1
  <2> QED
    BY <2>4, <2>5
<1> QED
  BY <1>1, <1>6, <1>8 DEF AlignInv, Stands

LEMMA RestAligned ==
    ASSUME VMInv, AlignInv, CreateBlock \/ FinishCall \/ Seal \/ CheckRoot \/ EndReplay
    PROVE  AlignInv'
<1>1. frames' = <<>> /\ Len(<<>>) = 0
  BY DEF CreateBlock, FinishCall, Seal, CheckRoot, EndReplay, VMInv, BooksOK
<1>2. DOMAIN base = DOMAIN contracts /\ DOMAIN sealed = DOMAIN contracts
      /\ DOMAIN txSnap = DOMAIN contracts
  <2>1. /\ sealed \in Seq(Contracts) /\ base \in Seq(Contracts) /\ contracts \in Seq(Contracts)
        /\ txSnap \in Seq(Contracts) /\ Len(txSnap) = Len(contracts)
        /\ Len(sealed) = Len(contracts) /\ Len(base) = Len(contracts)
    BY DEF VMInv, StatesOK
  <2> QED
    BY <2>1, LenProperties
<1>3. CASE FinishCall
  <2>1. /\ contracts' \in {Left(Frame), txSnap, base} /\ frames # <<>>
        /\ UNCHANGED <<base, txSnap, sealed>>
    BY <1>3 DEF FinishCall, Ended, RolledBack, Reject
  <2>2. DOMAIN contracts' = DOMAIN contracts
    BY <1>2, <2>1 DEF Left
  <2>3. Len(frames) \in 1..Len(frames) /\ Frame = frames[Len(frames)]
    BY <2>1, FrameFacts
  <2>4. Aligned(Frame.saved)
    BY <2>3 DEF AlignInv, CodesAligned
  <2>5. \A c \in DOMAIN contracts : Aligned(Left(Frame)[c].code)
    BY <2>1, <2>4, LeftCode DEF AlignInv, CodesAligned
  <2>6. \A c \in DOMAIN contracts : Aligned(contracts'[c].code)
    BY <2>1, <2>5 DEF AlignInv, CodesAligned
  <2> QED
    BY <1>1, <2>1, <2>2, <2>6 DEF AlignInv, CodesAligned
<1>4. CASE CreateBlock
  <2>1. base' = contracts /\ UNCHANGED <<contracts, txSnap, sealed>>
    BY <1>4 DEF CreateBlock
  <2> QED
    BY <1>1, <2>1 DEF AlignInv, CodesAligned
<1>5. CASE Seal \/ CheckRoot \/ EndReplay
  <2>1. /\ contracts' \in {contracts, base, sealed} /\ sealed' \in {contracts, sealed}
        /\ UNCHANGED <<base, txSnap>>
    BY <1>5 DEF Seal, CheckRoot, EndReplay, Reject
  <2>2. DOMAIN contracts' = DOMAIN contracts
    BY <1>2, <2>1
  <2>3. \A c \in DOMAIN contracts : Aligned(contracts'[c].code) /\ Aligned(sealed'[c].code)
    BY <2>1 DEF AlignInv, CodesAligned
  <2> QED
    BY <1>1, <2>1, <2>2, <2>3 DEF AlignInv, CodesAligned
<1> QED
  BY <1>3, <1>4, <1>5

LEMMA StartAligned ==
    ASSUME VMInv, AlignInv, StartCall
    PROVE  AlignInv'
<1> DEFINE h == Head(queue)
           f == Executing(h.contract, h.args, h.sender, h.value, <<>>)
<1>1. frames = <<>> /\ UNCHANGED <<base, sealed>> /\ Len(<<>>) = 0
  BY DEF StartCall
<1>2. CASE Callable(h.contract)
  <2>1. /\ frames' = <<f>> /\ txSnap' = contracts /\ contracts' = contracts
        /\ h.contract \in DOMAIN contracts
    BY <1>2 DEF StartCall, Callable
  <2>2. f.saved = <<>> /\ f.pc = 0 /\ f.self = h.contract
    BY DEF Executing
  <2> HIDE DEF f, h
  <2>3. Len(<<f>>) = 1 /\ <<f>>[1] = f /\ 1..1 = {1} /\ 1 + 1..1 = {}
    OBVIOUS
  <2>4. Later(1)' = {}
    BY <2>1, <2>3 DEF Later
  <2>5. RunsIn(1)' = contracts[h.contract].code
    BY <1>1, <2>1, <2>2, <2>3, <2>4 DEF RunsIn
  <2>6. contracts[h.contract] \in Contracts
    BY <2>1, LenProperties, ElementOfSeq DEF VMInv, StatesOK
  <2>7. Stands(0, RunsIn(1)')
    BY <2>5, <2>6, StandsFirst DEF Contracts
  <2>8. CodesAligned'
    BY <1>1, <2>1, <2>2, <2>3, NothingToAlign DEF AlignInv, CodesAligned
  <2> QED
    BY <2>1, <2>2, <2>3, <2>7, <2>8 DEF AlignInv, Stands
<1>3. CASE ~ Callable(h.contract)
  <2>1. frames' = <<>> /\ txSnap' = txSnap /\ contracts' \in {contracts, base}
    BY <1>1, <1>3 DEF StartCall, Reject
  <2>2. DOMAIN base = DOMAIN contracts
    <3>1. /\ base \in Seq(Contracts) /\ contracts \in Seq(Contracts)
          /\ Len(base) = Len(contracts)
      BY DEF VMInv, StatesOK
    <3> QED
      BY <3>1, LenProperties
  <2>3. CodesAligned'
    BY <1>1, <2>1, <2>2 DEF AlignInv, CodesAligned
  <2> QED
    BY <1>1, <2>1, <2>3 DEF AlignInv
<1> QED
  BY <1>2, <1>3

\* Codes whose jumps lead to instructions keep the machine at instructions.
LEMMA AlignedHit ==
    ASSUME \A d \in Deployments : \A i \in DOMAIN d : Aligned(d[i].code)
    PROVE  Spec => []PcAligned
<1>1. Init => VMInv /\ AlignInv
  <2> SUFFICES ASSUME Init
               PROVE  VMInv /\ AlignInv
    OBVIOUS
  <2>1. /\ frames = <<>> /\ base = contracts /\ txSnap = contracts /\ sealed = contracts
        /\ contracts \in Deployments /\ Len(<<>>) = 0
    BY DEF Init
  <2> QED
    BY <2>1, InitTyped DEF AlignInv, CodesAligned
<1>2. VMInv /\ AlignInv /\ [Next]_vars => (VMInv /\ AlignInv)'
  <2> SUFFICES ASSUME VMInv, AlignInv, [Next]_vars
               PROVE  AlignInv'
    BY NextTyped
  <2>1. CASE UNCHANGED vars
    <3>1. UNCHANGED <<contracts, frames, base, txSnap, sealed>>
      BY <2>1 DEF vars, blockVars
    <3>2. \A k : RunsIn(k)' = RunsIn(k)
      BY <3>1 DEF RunsIn, Later, First
    <3> QED
      BY <3>1, <3>2 DEF AlignInv, CodesAligned, Stands
  <2> QED
    BY <2>1, PlainAligned, CallAligned, ReturnAligned, RestAligned, StartAligned
    DEF Next, Progress
<1>3. VMInv /\ AlignInv => PcAligned
  <2> SUFFICES ASSUME VMInv, AlignInv, Active
               PROVE  Frame.pc \in Starts(Code) \cup {Len(Code)}
    BY DEF PcAligned
  <2>1. frames # <<>>
    BY DEF Active
  <2> QED
    BY <2>1, RunsInHere DEF Stands
<1> QED
  BY <1>1, <1>2, <1>3, PTL DEF Spec

-----------------------------------------------------------------------------
(* What the assembler makes *)

\* What the lines of a source may be.
Lines == [mn : STRING, num : Nat, lbl : STRING]

\* The bytes are those of one instruction.
IsInstruction(bytes) ==
    /\ bytes \in Seq(Byte) /\ Len(bytes) \in 1..5
    /\ Size(OpOf(bytes[1]), ModOf(bytes[1])) = Len(bytes)

LEMMA PlainIs ==
    ASSUME NEW mn \in DOMAIN Plain
    PROVE  IsInstruction(<<Plain[mn]>>) /\ OpOf(Plain[mn]) # "JMP"
<1>1. Plain[mn] \in Byte /\ Plain[mn] \div 8 \in (0..28) \ {1, 17}
  BY DEF Plain, Encode, Byte
<1>2. PICK b \in Byte : b = Plain[mn]
  BY <1>1
<1>3. PICK q \in (0..28) \ {1, 17} : q = b \div 8
  BY <1>1, <1>2
<1>4. OpOf(b) \notin {"PUSH", "JMP"}
  BY <1>3 DEF OpOf, OpNames
<1>5. Size(OpOf(b), ModOf(b)) = 1
  BY <1>4 DEF Size
<1>6. <<b>> \in Seq(Byte) /\ Len(<<b>>) = 1 /\ <<b>>[1] = b
  OBVIOUS
<1> QED
  BY <1>2, <1>4, <1>5, <1>6 DEF IsInstruction

LEMMA PushIs ==
    ASSUME NEW value \in Nat, NEW width \in {1, 2, 4}
    PROVE  /\ IsInstruction(PushOf(value, width)) /\ Len(PushOf(value, width)) = width + 1
           /\ OpOf(PushOf(value, width)[1]) = "PUSH"
<1> DEFINE first == Encode(1, IF width = 4 THEN 3 ELSE width)
           bytes == BytesOf(value, width)
<1>1. bytes \in [1..width -> Byte]
  <2>1. ASSUME NEW i \in 1..width
        PROVE  (value \div 2 ^ (8 * (width - i))) % 256 \in Byte
    <3>1. 8 * (width - i) \in Nat
      OBVIOUS
    <3>2. PICK p \in Nat \ {0} : p = 2 ^ (8 * (width - i))
      BY <3>1, PowerIsNat
    <3>3. value \div p \in Nat
      BY <3>2
    <3> QED
      BY <3>2, <3>3, ByteIs
  <2> QED
    BY <2>1 DEF BytesOf
<1>2. bytes \in Seq(Byte) /\ Len(bytes) = width
  BY <1>1
<1>3. first \in {9, 10, 11} /\ OpOf(first) = "PUSH" /\ Width(ModOf(first)) = width
  BY DEF Encode, OpOf, OpNames, ModOf, Width
<1> HIDE DEF first, bytes
<1>4. <<first>> \in Seq(Byte) /\ Len(<<first>>) = 1 /\ <<first>>[1] = first
  BY <1>3, ByteIs
<1>5. /\ <<first>> \o bytes \in Seq(Byte) /\ Len(<<first>> \o bytes) = width + 1
      /\ (<<first>> \o bytes)[1] = first
  BY <1>2, <1>4
<1>6. PushOf(value, width) = <<first>> \o bytes
  BY DEF PushOf, first, bytes
<1>7. Size("PUSH", ModOf(first)) = width + 1
  BY <1>3 DEF Size
<1> QED
  BY <1>3, <1>5, <1>6, <1>7 DEF IsInstruction

\* A jump is two bytes, whatever its label.
LEMMA JumpIs ==
    ASSUME NEW mn \in DOMAIN Jumps, NEW target \in Nat
    PROVE  /\ IsInstruction(<<Jumps[mn], target % 256>>)
           /\ OpOf(Jumps[mn]) = "JMP"
<1>1. Jumps[mn] \in {136, 137}
  BY DEF Jumps, Encode
<1>2. PICK b \in {136, 137} : b = Jumps[mn]
  BY <1>1
<1>3. OpOf(b) = "JMP"
  BY <1>2 DEF OpOf, OpNames
<1>4. PICK t \in Byte : t = target % 256
  BY ByteIs
<1>5. <<b, t>> \in Seq(Byte) /\ Len(<<b, t>>) = 2 /\ <<b, t>>[1] = b
  BY ByteIs
<1>6. Size("JMP", ModOf(b)) = 2
  BY DEF Size
<1> QED
  BY <1>2, <1>3, <1>4, <1>5, <1>6 DEF IsInstruction

\* One line of the second pass is one instruction; the first pass has counted on
\* no more bytes, and on the same unless a label lies beyond byte 255.
LEMMA EncodedIs ==
    ASSUME NEW line \in Lines, NEW labels, line.mn # "LABEL", Known(line, labels),
           \A l \in DOMAIN labels : labels[l] \in Nat
    PROVE  LET e == Encoded(line, labels)
           IN  /\ IsInstruction(e) /\ InstrSize(line) \in 1..Len(e)
               /\ (\A l \in DOMAIN labels : labels[l] <= 255) => Len(e) = InstrSize(line)
               /\ OpOf(e[1]) = "JMP" =>
                     /\ line.mn \in DOMAIN Jumps /\ line.lbl \in DOMAIN labels
                     /\ e[2] = labels[line.lbl] % 256
<1> DEFINE e == Encoded(line, labels)
<1>1. DOMAIN Jumps = {"JUMP", "JUMPI"}
  BY DEF Jumps
<1>2. {"LABEL", "CALLNAME", "PUSH", "JUMP", "JUMPI", "ARG"} \cap DOMAIN Plain = {}
  BY DEF Plain
<1>3. CASE line.mn \in DOMAIN Plain
  <2>1. line.mn \notin {"CALLNAME", "PUSH", "JUMP", "JUMPI", "ARG"}
    BY <1>3, <1>2
  <2>2. e = <<Plain[line.mn]>>
    BY <1>3, <1>1, <2>1 DEF Encoded
  <2>3. InstrSize(line) = 1
    BY <1>1, <2>1 DEF InstrSize
  <2>4. Len(e) = 1 /\ e[1] = Plain[line.mn]
    BY <2>2
  <2> QED
    BY <1>3, <2>2, <2>3, <2>4, PlainIs
<1>4. CASE line.mn = "CALLNAME"
  <2>1. e = PushOf(line.num, 4)
    BY <1>4, <1>1, <1>2 DEF Encoded
  <2>2. InstrSize(line) = 5
    BY <1>4, <1>1 DEF InstrSize
  <2>3. line.num \in Nat
    BY DEF Lines
  <2>4. IsInstruction(e) /\ Len(e) = 5 /\ OpOf(e[1]) = "PUSH"
    <3>1. Len(PushOf(line.num, 4)) = 4 + 1
      BY <2>3, PushIs
    <3> QED
      BY <2>1, <2>3, <3>1, PushIs
  <2> HIDE DEF e
  <2> QED
    BY <2>2, <2>4 DEF e
<1>5. CASE line.mn = "PUSH"
  <2> DEFINE number == line.lbl = ""
             value == IF number THEN line.num ELSE labels[line.lbl]
  <2>1. e = PushOf(value, Operands(value))
    BY <1>5, <1>1, <1>2 DEF Encoded
  <2>2. ~ number => line.lbl \in DOMAIN labels
    BY <1>5, <1>1, <1>2 DEF Known
  <2>3. value \in Nat
    BY <2>2 DEF Lines
  <2>4. InstrSize(line) = IF number THEN 1 + Operands(line.num) ELSE 2
    BY <1>5, <1>1 DEF InstrSize
  <2>5. number => value = line.num
    OBVIOUS
  <2>6. ~ number => value = labels[line.lbl]
    OBVIOUS
  <2> HIDE DEF number, value
  <2>7. PICK w \in {1, 2, 4} : w = Operands(value) /\ (value <= 255 => w = 1)
    BY DEF Operands
  <2>8. IsInstruction(e) /\ Len(e) = w + 1 /\ OpOf(e[1]) = "PUSH"
    BY <2>1, <2>3, <2>7, PushIs
  <2> HIDE DEF e
  <2>9. InstrSize(line) = IF number THEN 1 + w ELSE 2
    BY <2>4, <2>5, <2>7
  <2>10. InstrSize(line) \in 1..Len(e)
    BY <2>7, <2>8, <2>9
  <2>11. ASSUME \A l \in DOMAIN labels : labels[l] <= 255
         PROVE  Len(e) = InstrSize(line)
    <3>1. CASE number
      BY <2>7, <2>8, <2>9, <3>1
    <3>2. CASE ~ number
      <4>1. w = 1
        BY <2>2, <2>6, <2>7, <2>11, <3>2
      <4> QED
        BY <2>8, <2>9, <3>2, <4>1
    <3> QED
      BY <3>1, <3>2
  <2> QED
    BY <2>8, <2>10, <2>11 DEF e
<1>6. CASE line.mn \in DOMAIN Jumps
  <2>1. line.mn \in {"JUMP", "JUMPI"}
    BY <1>6, <1>1
  <2>2. line.lbl \in DOMAIN labels
    BY <1>1, <1>2, <2>1 DEF Known
  <2>3. e = <<Jumps[line.mn], labels[line.lbl] % 256>>
    BY <1>6, <1>1, <1>2, <2>1 DEF Encoded
  <2>4. InstrSize(line) = 2
    BY <1>6, <1>1, <2>1 DEF InstrSize
  <2>5. IsInstruction(e)
    BY <1>6, <2>2, <2>3, JumpIs
  <2>6. Len(e) = 2 /\ e[2] = labels[line.lbl] % 256
    BY <2>3
  <2> QED
    BY <1>6, <2>2, <2>4, <2>5, <2>6
<1>7. CASE line.mn = "ARG"
  <2>1. e = <<Encode(21, line.num)>>
    BY <1>7, <1>1, <1>2 DEF Encoded
  <2>2. line.num \in 0..6
    BY <1>7, <1>1, <1>2 DEF Known, Lines
  <2>3. InstrSize(line) = 1
    BY <1>7, <1>1 DEF InstrSize
  <2>4. PICK b \in 168..174 : b = Encode(21, line.num)
    BY <2>2 DEF Encode
  <2>5. OpOf(b) = "ARG"
    <3>1. b \div 8 = 21
      BY <2>4
    <3> QED
      BY <3>1 DEF OpOf, OpNames
  <2>6. Size("ARG", ModOf(b)) = 1
    BY DEF Size
  <2>7. <<b>> \in Seq(Byte) /\ Len(<<b>>) = 1 /\ <<b>>[1] = b
    BY <2>4, ByteIs
  <2> QED
    BY <2>1, <2>3, <2>4, <2>5, <2>6, <2>7 DEF IsInstruction
<1> QED
  BY <1>3, <1>4, <1>5, <1>6, <1>7 DEF Known

LEMMA InstrSizeIsNat ==
    ASSUME NEW line
    PROVE  InstrSize(line) \in Nat
<1>1. \A value : 1 + Operands(value) \in Nat
  BY DEF Operands
<1> QED
  BY <1>1 DEF InstrSize

SizeOf(line) == IF line.mn = "LABEL" THEN 0 ELSE InstrSize(line)

\* The first pass adds up the sizes of the lines.
LEMMA OffsetsAre ==
    ASSUME NEW source \in Seq(Lines)
    PROVE  /\ Offsets(source)[0] = 0
           /\ \A n \in 1..Len(source) :
                 Offsets(source)[n] = Offsets(source)[n - 1] + SizeOf(source[n])
           /\ \A n \in 0..Len(source) : Offsets(source)[n] \in Nat
<1> DEFINE n == Len(source)
           size(i) == SizeOf(source[i])
           step == [e \in Nat \X (1..n) |-> e[1] + size(e[2])]
           Is(f) == f = [i \in 0..n |-> IF i = 0 THEN 0 ELSE f[i - 1] + size(i)]
           r == CHOOSE f : Is(f)
<1>1. n \in Nat
  BY LenProperties
<1>2. \A i \in 1..n : size(i) \in Nat
  BY InstrSizeIsNat DEF SizeOf
<1> HIDE DEF size, n
<1>3. step \in [Nat \X (1..n) -> Nat]
  BY <1>2
<1>4. PICK g \in [0..n -> Nat] : Iterates(g, 0, step, n)
  <2> HIDE DEF step
  <2> QED
    BY <1>1, <1>3, Recursion
<1>5. Is(g)
  <2>1. g = [i \in 0..n |-> g[i]] /\ g[0] = 0
    BY <1>4 DEF Iterates
  <2>2. ASSUME NEW i \in 1..n
        PROVE  g[i] = g[i - 1] + size(i)
    <3>1. g[i - 1] \in Nat
      BY <1>1, <1>4
    <3>2. g[i] = step[<<g[i - 1], i>>]
      BY <1>4 DEF Iterates
    <3> QED
      BY <3>1, <3>2
  <2>3. \A i \in 0..n : g[i] = IF i = 0 THEN 0 ELSE g[i - 1] + size(i)
    <3> TAKE i \in 0..n
    <3>1. i = 0 \/ (i # 0 /\ i \in 1..n)
      BY <1>1
    <3> QED
      BY <2>1, <2>2, <3>1
  <2> QED
    BY <2>1, <2>3
<1>6. Is(r)
  BY <1>5
<1>7. Offsets(source) = r
  BY DEF Offsets, n, size, SizeOf
<1> HIDE DEF r
<1>8. r[0] = 0 /\ \A i \in 1..n : r[i] = r[i - 1] + size(i)
  BY <1>1, <1>6
<1>9. \A i \in 0..n : r[i] \in Nat
  <2>1. r[0] \in Nat /\ \A i \in 1..n : r[i - 1] \in Nat => r[i] \in Nat
    BY <1>2, <1>8
  <2> QED
    BY <1>1, <2>1, LoopStays
<1> QED
  BY <1>7, <1>8, <1>9 DEF n, size

LEMMA MaxIs ==
    ASSUME NEW n \in Nat, NEW S \in SUBSET (1..n), S # {}
    PROVE  Max(S) \in S
<1> DEFINE T == {n - x : x \in S}
<1>1. PICK m \in T : \A k \in T : m <= k
  <2>1. T \in SUBSET Nat
    OBVIOUS
  <2>2. T # {}
    <3>1. PICK x \in S : TRUE
      OBVIOUS
    <3>2. n - x \in T
      BY <3>1
    <3> HIDE DEF T
    <3> QED
      BY <3>2
  <2> QED
    BY <2>1, <2>2, Least
<1>2. PICK x \in S : m = n - x
  BY <1>1
<1>3. \A y \in S : x >= y
  <2> TAKE y \in S
  <2>1. n - x <= n - y
    BY <1>1, <1>2
  <2> QED
    BY <2>1
<1> QED
  BY <1>2, <1>3 DEF Max

\* A label is where the second pass will be when it comes to the label's line.
LEMMA LabelsAre ==
    ASSUME NEW source \in Seq(Lines), NEW l \in DOMAIN Labels(source)
    PROVE  /\ Labels(source)[l] \in Nat
           /\ \E k \in 1..Len(source) : Labels(source)[l] = Offsets(source)[k]
<1> DEFINE lines == {n \in DOMAIN source : source[n].mn = "LABEL"}
           S == {n \in lines : source[n].lbl = l}
<1>1. Len(source) \in Nat /\ DOMAIN source = 1..Len(source)
  BY LenProperties
<1>2. S \in SUBSET (1..Len(source)) /\ S # {}
  BY <1>1 DEF Labels
<1>3. Max(S) \in 1..Len(source)
  <2> HIDE DEF S
  <2> QED
    BY <1>1, <1>2, MaxIs
<1>4. Labels(source)[l] = Offsets(source)[Max(S)]
  BY DEF Labels
<1>5. \A k \in 1..Len(source) : k \in 0..Len(source)
  BY <1>1
<1> QED
  BY <1>3, <1>4, <1>5, OffsetsAre

\* What the second pass does when it finds no error.
Passes(source) ==
    \A n \in 1..Len(source) :
        source[n].mn # "LABEL" =>
            Known(source[n], Labels(source)) /\ Len(Passed(source)[n - 1]) < MaxCode - 5

LEMMA PassedIs ==
    ASSUME NEW source \in Seq(Lines),
           \A n \in 1..Len(source) : source[n].mn # "LABEL" => Known(source[n], Labels(source))
    PROVE  /\ Passed(source)[0] = <<>>
           /\ \A n \in 1..Len(source) :
                 Passed(source)[n] = Passed(source)[n - 1] \o Encoded(source[n], Labels(source))
           /\ \A n \in 1..Len(source) : Encoded(source[n], Labels(source)) \in Seq(Byte)
           /\ \A n \in 1..Len(source) :
                 source[n].mn = "LABEL" => Encoded(source[n], Labels(source)) = <<>>
           /\ \A n \in 0..Len(source) : Passed(source)[n] \in Seq(Byte)
<1> DEFINE n == Len(source)
           D == Seq(Byte)
           labels == Labels(source)
           e(i) == Encoded(source[i], labels)
           step == [x \in D \X (1..n) |-> x[1] \o e(x[2])]
           Is(f) == f = [i \in 0..n |-> IF i = 0 THEN <<>> ELSE f[i - 1] \o e(i)]
           r == CHOOSE f : Is(f)
<1>1. n \in Nat /\ \A i \in 1..n : source[i] \in Lines
  BY LenProperties, ElementOfSeq
<1>2. \A i \in 1..n : source[i].mn = "LABEL" => e(i) = <<>>
  <2>1. /\ DOMAIN Jumps = {"JUMP", "JUMPI"} /\ "LABEL" \notin DOMAIN Plain
    BY DEF Jumps, Plain
  <2> QED
    BY <2>1 DEF Encoded
<1>3. \A i \in 1..n : e(i) \in D
  <2> TAKE i \in 1..n
  <2>1. CASE source[i].mn = "LABEL"
    <3>1. <<>> \in D
      OBVIOUS
    <3> HIDE DEF e, D
    <3> QED
      BY <1>2, <2>1, <3>1
  <2>2. CASE source[i].mn # "LABEL"
    <3>1. \A l \in DOMAIN labels : labels[l] \in Nat
      BY LabelsAre
    <3>2. IsInstruction(e(i))
      BY <1>1, <2>2, <3>1, EncodedIs
    <3> QED
      BY <3>2 DEF IsInstruction
  <2> QED
    BY <2>1, <2>2
<1>4. Passed(source) = r
  BY DEF Passed
<1> HIDE DEF e, n, D
<1>5. <<>> \in D /\ \A s, t \in D : s \o t \in D
  BY ConcatProperties DEF D
<1>6. step \in [D \X (1..n) -> D]
  BY <1>3, <1>5
<1>7. PICK g \in [0..n -> D] : Iterates(g, <<>>, step, n)
  <2> HIDE DEF step
  <2> QED
    BY <1>1, <1>5, <1>6, Recursion
<1>8. Is(g)
  <2>1. g = [i \in 0..n |-> g[i]] /\ g[0] = <<>>
    BY <1>7 DEF Iterates
  <2>2. ASSUME NEW i \in 1..n
        PROVE  g[i] = g[i - 1] \o e(i)
    <3>1. g[i - 1] \in D
      BY <1>1, <1>7
    <3>2. g[i] = step[<<g[i - 1], i>>]
      BY <1>7 DEF Iterates
    <3> QED
      BY <3>1, <3>2
  <2>3. \A i \in 0..n : g[i] = IF i = 0 THEN <<>> ELSE g[i - 1] \o e(i)
    <3> TAKE i \in 0..n
    <3>1. i = 0 \/ (i # 0 /\ i \in 1..n)
      BY <1>1
    <3> QED
      BY <2>1, <2>2, <3>1
  <2> QED
    BY <2>1, <2>3
<1>9. Is(r)
  BY <1>8
<1> HIDE DEF r
<1>10. r[0] = <<>> /\ \A i \in 1..n : r[i] = r[i - 1] \o e(i)
  <2>1. \A i \in 0..n : r[i] = IF i = 0 THEN <<>> ELSE r[i - 1] \o e(i)
    BY <1>9
  <2>2. 0 \in 0..n /\ \A i \in 1..n : i \in 0..n /\ i # 0
    BY <1>1
  <2> QED
    BY <2>1, <2>2
<1>11. \A i \in 0..n : r[i] \in D
  <2>1. r[0] \in D /\ \A i \in 1..n : r[i - 1] \in D => r[i] \in D
    BY <1>3, <1>5, <1>10
  <2> QED
    BY <1>1, <2>1, LoopStays
<1> QED
  BY <1>2, <1>3, <1>4, <1>10, <1>11 DEF n, e, D

\* No code is longer than a jump can reach, and so both passes agree on where each
\* line is.
LEMMA PassesAgree ==
    ASSUME NEW source \in Seq(Lines), Passes(source)
    PROVE  \A n \in 0..Len(source) :
               /\ Passed(source)[n] \in Seq(Byte) /\ Len(Passed(source)[n]) \in Byte
               /\ Offsets(source)[n] = Len(Passed(source)[n])
<1> DEFINE n == Len(source)
           labels == Labels(source)
           len(i) == Len(Passed(source)[i])
           off(i) == Offsets(source)[i]
           e(i) == Encoded(source[i], labels)
<1>1. n \in Nat /\ \A i \in 1..n : source[i] \in Lines
  BY LenProperties, ElementOfSeq
<1>2. /\ Passed(source)[0] = <<>> /\ \A i \in 0..n : Passed(source)[i] \in Seq(Byte)
      /\ \A i \in 1..n : /\ Passed(source)[i] = Passed(source)[i - 1] \o e(i)
                         /\ e(i) \in Seq(Byte)
                         /\ source[i].mn = "LABEL" => e(i) = <<>>
  BY PassedIs DEF Passes
<1>3. len(0) = 0 /\ \A i \in 0..n : len(i) \in Nat
  BY <1>1, <1>2, LenProperties
<1>4. ASSUME NEW i \in 1..n
      PROVE  len(i) = len(i - 1) + Len(e(i)) /\ len(i - 1) \in Nat /\ Len(e(i)) \in Nat
  <2>1. i - 1 \in 0..n
    BY <1>1
  <2>2. PICK s \in Seq(Byte) : s = Passed(source)[i - 1]
    BY <1>2, <2>1
  <2>3. PICK t \in Seq(Byte) : t = e(i)
    BY <1>2
  <2>4. Len(s \o t) = Len(s) + Len(t) /\ Len(s) \in Nat /\ Len(t) \in Nat
    BY ConcatProperties, LenProperties
  <2>5. Passed(source)[i] = s \o t
    BY <1>2, <2>2, <2>3
  <2> HIDE DEF e
  <2> QED
    BY <2>2, <2>3, <2>4, <2>5
<1>5. off(0) = 0 /\ (\A i \in 1..n : off(i) = off(i - 1) + SizeOf(source[i]))
      /\ \A i \in 0..n : off(i) \in Nat
  BY OffsetsAre
<1>6. \A l \in DOMAIN labels : \E k \in 1..n : labels[l] = off(k)
  BY LabelsAre
<1>7. \A l \in DOMAIN labels : labels[l] \in Nat
  BY LabelsAre
<1>8. ASSUME NEW i \in 1..n, source[i].mn = "LABEL"
      PROVE  SizeOf(source[i]) = 0 /\ Len(e(i)) = 0
  <2>1. Len(<<>>) = 0
    OBVIOUS
  <2> QED
    BY <1>2, <1>8, <2>1 DEF SizeOf
<1>9. ASSUME NEW i \in 1..n, source[i].mn # "LABEL"
      PROVE  /\ Len(e(i)) \in 1..5 /\ SizeOf(source[i]) \in 1..Len(e(i))
             /\ (\A l \in DOMAIN labels : labels[l] <= 255) => Len(e(i)) = SizeOf(source[i])
             /\ len(i - 1) < MaxCode - 5
  <2>1. Known(source[i], labels) /\ len(i - 1) < MaxCode - 5
    BY <1>9 DEF Passes
  <2> QED
    BY <1>1, <1>7, <1>9, <2>1, EncodedIs DEF SizeOf, IsInstruction
<1> HIDE DEF n, labels, len, off, e
<1>10. \A i \in 0..n : len(i) \in Byte
  <2> DEFINE f == [i \in 0..n |-> len(i)]
             D == Byte
  <2>1. f[0] \in D
    BY <1>1, <1>3, ByteIs
  <2>2. ASSUME NEW i \in 1..n, f[i - 1] \in D
        PROVE  f[i] \in D
    <3>1. i \in 0..n /\ i - 1 \in 0..n
      BY <1>1
    <3>2. CASE source[i].mn = "LABEL"
      <4>1. PICK a \in Byte : a = len(i - 1)
        BY <2>2, <3>1
      <4>2. len(i) = a + 0
        BY <1>4, <1>8, <3>2, <4>1
      <4>3. a + 0 \in Byte
        BY ByteIs
      <4> QED
        BY <3>1, <4>2, <4>3
    <3>3. CASE source[i].mn # "LABEL"
      <4>1. PICK a \in Nat : a = len(i - 1)
        BY <1>4
      <4>2. PICK b \in 1..5 : b = Len(e(i))
        BY <1>9, <3>3
      <4>3. len(i) = a + b /\ a < MaxCode - 5
        BY <1>4, <1>9, <3>3, <4>1, <4>2
      <4>4. a + b \in Byte
        BY <4>3, AssemblerAssumption, ByteIs
      <4> QED
        BY <3>1, <4>3, <4>4
    <3> QED
      BY <3>2, <3>3
  <2>3. \A i \in 0..n : f[i] \in D
    <3> HIDE DEF f, D
    <3> QED
      BY <1>1, <2>1, <2>2, LoopStays
  <2> QED
    BY <2>3
<1>11. \A i \in 0..n : off(i) <= len(i)
  <2> DEFINE f == [i \in 0..n |-> IF off(i) <= len(i) THEN 1 ELSE 0]
             D == {1}
  <2>1. f[0] \in D
    BY <1>1, <1>3, <1>5
  <2>2. ASSUME NEW i \in 1..n, f[i - 1] \in D
        PROVE  f[i] \in D
    <3>1. i - 1 \in 0..n /\ i \in 0..n
      BY <1>1
    <3>2. off(i - 1) <= len(i - 1) /\ off(i - 1) \in Nat
      BY <1>5, <2>2, <3>1
    <3>3. off(i) = off(i - 1) + SizeOf(source[i]) /\ len(i) = len(i - 1) + Len(e(i))
      BY <1>4, <1>5
    <3>4. SizeOf(source[i]) <= Len(e(i)) /\ SizeOf(source[i]) \in Nat
      BY <1>8, <1>9
    <3>5. off(i) <= len(i)
      BY <1>4, <3>2, <3>3, <3>4
    <3> QED
      BY <3>1, <3>5
  <2>3. \A i \in 0..n : f[i] \in D
    <3> HIDE DEF f, D
    <3> QED
      BY <1>1, <2>1, <2>2, LoopStays
  <2> QED
    BY <2>3
<1>12. \A l \in DOMAIN labels : labels[l] <= 255
  <2> TAKE l \in DOMAIN labels
  <2>1. PICK k \in 1..n : labels[l] = off(k)
    BY <1>6
  <2>2. k \in 0..n
    BY <1>1
  <2>3. PICK a \in Nat : a = off(k)
    BY <1>5, <2>2
  <2>4. PICK b \in Byte : b = len(k)
    BY <1>10, <2>2
  <2>5. a <= b
    BY <1>11, <2>2, <2>3, <2>4
  <2>6. a <= 255
    BY <2>5, ByteIs
  <2> QED
    BY <2>1, <2>3, <2>6
<1>13. \A i \in 0..n : off(i) = len(i)
  <2> DEFINE f == [i \in 0..n |-> IF off(i) = len(i) THEN 1 ELSE 0]
             D == {1}
  <2>1. f[0] \in D
    BY <1>1, <1>3, <1>5
  <2>2. ASSUME NEW i \in 1..n, f[i - 1] \in D
        PROVE  f[i] \in D
    <3>1. i - 1 \in 0..n /\ i \in 0..n
      BY <1>1
    <3>2. off(i - 1) = len(i - 1)
      BY <2>2, <3>1
    <3>3. SizeOf(source[i]) = Len(e(i))
      BY <1>8, <1>9, <1>12
    <3>4. off(i) = len(i)
      BY <1>4, <1>5, <3>2, <3>3
    <3> QED
      BY <3>1, <3>4
  <2>3. \A i \in 0..n : f[i] \in D
    <3> HIDE DEF f, D
    <3> QED
      BY <1>1, <2>1, <2>2, LoopStays
  <2> QED
    BY <2>3
<1> QED
  BY <1>2, <1>10, <1>13 DEF n, len, off

\* The code of the first lines is the beginning of the code of more of them.
LEMMA PassesOn ==
    ASSUME NEW source \in Seq(Lines), Passes(source),
           NEW n \in 0..Len(source), NEW k \in 0..n
    PROVE  /\ Len(Passed(source)[k]) <= Len(Passed(source)[n])
           /\ \A i \in 1..Len(Passed(source)[k]) : Passed(source)[n][i] = Passed(source)[k][i]
<1> DEFINE N == Len(source)
           c(i) == Passed(source)[i]
           Begins(i, j) == Len(c(i)) <= Len(c(j)) /\ \A q \in 1..Len(c(i)) : c(j)[q] = c(i)[q]
           f == [j \in 0..N |-> IF \A i \in 0..j : Begins(i, j) THEN 1 ELSE 0]
           D == {1}
<1>1. N \in Nat
  BY LenProperties
<1>2. /\ \A i \in 0..N : c(i) \in Seq(Byte) /\ Len(c(i)) \in Nat
      /\ \A i \in 1..N : \E t \in Seq(Byte) : c(i) = c(i - 1) \o t
  <2>1. \A i \in 0..N : c(i) \in Seq(Byte) /\ Len(c(i)) \in Byte
    BY PassesAgree
  <2>2. \A i \in 1..N : /\ c(i) = c(i - 1) \o Encoded(source[i], Labels(source))
                        /\ Encoded(source[i], Labels(source)) \in Seq(Byte)
    BY PassedIs DEF Passes
  <2>3. \A i \in 0..N : Len(c(i)) \in Nat
    <3> HIDE DEF c
    <3> TAKE i \in 0..N
    <3>1. PICK a \in Byte : a = Len(c(i))
      BY <2>1
    <3> QED
      BY <3>1
  <2> HIDE DEF c
  <2> QED
    BY <2>1, <2>2, <2>3
<1> HIDE DEF N, c
<1>3. f[0] \in D
  BY <1>1, <1>2
<1>4. ASSUME NEW j \in 1..N, f[j - 1] \in D
      PROVE  f[j] \in D
  <2>1. j - 1 \in 0..N /\ j \in 0..N
    BY <1>1
  <2>2. \A i \in 0..j - 1 : Begins(i, j - 1)
    BY <1>4, <2>1
  <2>3. PICK s, t \in Seq(Byte) : s = c(j - 1) /\ c(j) = s \o t
    BY <1>2, <2>1
  <2>4. /\ Len(s \o t) = Len(s) + Len(t) /\ Len(s) \in Nat /\ Len(t) \in Nat
        /\ \A q \in 1..Len(s) : (s \o t)[q] = s[q]
    BY ConcatProperties, LenProperties
  <2>5. ASSUME NEW i \in 0..j
        PROVE  Begins(i, j)
    <3>1. CASE i = j
      BY <1>2, <2>1, <3>1
    <3>2. CASE i # j
      <4>1. i \in 0..j - 1 /\ i \in 0..N
        BY <1>1, <3>2
      <4>2. Len(c(i)) <= Len(s) /\ Len(c(i)) \in Nat
        BY <1>2, <2>2, <2>3, <4>1
      <4>3. \A q \in 1..Len(c(i)) : q \in 1..Len(s) /\ s[q] = c(i)[q]
        BY <2>2, <2>3, <2>4, <4>1, <4>2
      <4> QED
        <5>1. \A q \in 1..Len(c(i)) : c(j)[q] = c(i)[q]
          BY <2>3, <2>4, <4>3
        <5>2. Len(c(i)) <= Len(c(j))
          BY <2>3, <2>4, <4>2
        <5> QED
          BY <5>1, <5>2
    <3> QED
      BY <3>1, <3>2
  <2> HIDE DEF Begins
  <2> QED
    BY <2>1, <2>5
<1>5. \A j \in 0..N : f[j] \in D
  <2> HIDE DEF f, D
  <2> QED
    BY <1>1, <1>3, <1>4, LoopStays
<1>6. n \in 0..N
  BY DEF N
<1>7. \A i \in 0..n : Begins(i, n)
  <2> HIDE DEF Begins
  <2> QED
    BY <1>5, <1>6
<1> QED
  BY <1>7 DEF c

\* At p of a code stand the bytes e of line m, an instruction that ends where
\* the line does.
StandsAt(source, m, code, p, e) ==
    /\ Len(e) \in 1..5 /\ SizeAt(code, p) = Len(e)
    /\ Len(Passed(source)[m]) = p + Len(e) /\ p + Len(e) <= Len(code)
    /\ \A i \in 1..Len(e) : code[p + i] = e[i]
    /\ OpOf(e[1]) = "JMP" => /\ source[m].lbl \in DOMAIN Labels(source)
                            /\ e[2] = Labels(source)[source[m].lbl] % 256

\* Where the code of a line begins, the machine finds that line's instruction.
LEMMA LineIs ==
    ASSUME NEW source \in Seq(Lines), Passes(source), NEW m \in 1..Len(source),
           source[m].mn # "LABEL", NEW code, code = Passed(source)[Len(source)],
           NEW p \in Nat, p = Len(Passed(source)[m - 1]),
           NEW e, e = Encoded(source[m], Labels(source))
    PROVE  StandsAt(source, m, code, p, e)
<1> DEFINE n == Len(source)
           c(i) == Passed(source)[i]
           labels == Labels(source)
<1>1. n \in Nat /\ source[m] \in Lines /\ m \in 1..n /\ m - 1 \in 0..n /\ m \in 0..n /\ n \in 0..n
  BY LenProperties, ElementOfSeq
<1>2. c(m - 1) \in Seq(Byte)
  BY <1>1, PassesAgree
<1>3. \A i \in 0..n : Len(c(i)) <= Len(c(n)) /\ \A q \in 1..Len(c(i)) : c(n)[q] = c(i)[q]
  BY <1>1, PassesOn
<1>4. c(m) = c(m - 1) \o e
  BY <1>1, PassedIs DEF Passes
<1>5. \A l \in DOMAIN labels : labels[l] \in Nat
  BY LabelsAre
<1>6. Known(source[m], labels)
  BY <1>1 DEF Passes
<1>7. /\ IsInstruction(e)
      /\ OpOf(e[1]) = "JMP" =>
            source[m].lbl \in DOMAIN labels /\ e[2] = labels[source[m].lbl] % 256
  BY <1>1, <1>5, <1>6, EncodedIs
<1>8. code = c(n) /\ p = Len(c(m - 1))
  OBVIOUS
<1> HIDE DEF n, c
<1>9. PICK s \in Seq(Byte) : s = c(m - 1) /\ Len(s) = p
  BY <1>2, <1>8
<1>10. PICK t \in Seq(Byte) : t = e /\ Len(t) \in 1..5 /\ Size(OpOf(t[1]), ModOf(t[1])) = Len(t)
  BY <1>7 DEF IsInstruction
<1>11. c(m) = s \o t
  BY <1>4, <1>9, <1>10
<1>12. /\ Len(s \o t) = p + Len(t)
       /\ \A i \in 1..p + Len(t) : (s \o t)[i] = IF i <= p THEN s[i] ELSE t[i - p]
  <2>1. /\ Len(s \o t) = Len(s) + Len(t)
        /\ \A i \in 1..Len(s) + Len(t) : (s \o t)[i] = IF i <= Len(s) THEN s[i] ELSE t[i - Len(s)]
    BY ConcatProperties
  <2> QED
    BY <1>9, <2>1
<1>13. ASSUME NEW i \in 1..Len(t)
       PROVE  code[p + i] = t[i]
  <2>0. Len(t) \in Nat
    BY <1>10
  <2>1. p + i \in 1..p + Len(t) /\ ~ (p + i <= p) /\ (p + i) - p = i
    BY <2>0
  <2>2. (s \o t)[p + i] = t[i]
    BY <1>12, <2>1
  <2>3. c(n)[p + i] = c(m)[p + i]
    BY <1>1, <1>3, <1>11, <1>12, <2>1
  <2> QED
    BY <1>8, <1>11, <2>2, <2>3
<1>14. p + Len(t) <= Len(code)
  BY <1>1, <1>3, <1>8, <1>11, <1>12
<1>15. SizeAt(code, p) = Len(t)
  <2>1. 1 \in 1..Len(t)
    BY <1>10
  <2> QED
    BY <1>10, <1>13, <2>1 DEF SizeAt
<1> QED
  BY <1>7, <1>10, <1>11, <1>12, <1>13, <1>14, <1>15 DEF c, n, StandsAt

LEMMA LabelIsNothing ==
    ASSUME NEW source \in Seq(Lines), Passes(source), NEW m \in 1..Len(source),
           source[m].mn = "LABEL"
    PROVE  Passed(source)[m] = Passed(source)[m - 1]
<1>1. Len(source) \in Nat /\ m - 1 \in 0..Len(source)
  BY LenProperties
<1>2. PICK s \in Seq(Byte) : s = Passed(source)[m - 1]
  BY <1>1, PassesAgree
<1>3. s \o <<>> = s
  BY ConcatEmptySeq
<1> QED
  BY <1>2, <1>3, PassedIs DEF Passes

\* Where the code of a line ends, that of another one begins.
LEMMA LineAt ==
    ASSUME NEW source \in Seq(Lines), Passes(source), NEW k \in 0..Len(source),
           Len(Passed(source)[k]) < Len(Passed(source)[Len(source)])
    PROVE  \E m \in 1..Len(source) :
               /\ source[m].mn # "LABEL"
               /\ Len(Passed(source)[m - 1]) = Len(Passed(source)[k])
<1> DEFINE n == Len(source)
           len(i) == Len(Passed(source)[i])
           T == {m \in 0..n : len(m) > len(k)}
<1>1. n \in Nat /\ k \in 0..n
  BY LenProperties
<1>2. \A i \in 0..n : len(i) \in Nat
  BY PassesAgree, ByteIs
<1>3. \A j \in 0..n : \A i \in 0..j : len(i) <= len(j)
  BY PassesOn
<1>4. \A m \in 1..n : source[m].mn = "LABEL" => len(m) = len(m - 1)
  BY LabelIsNothing
<1>5. len(n) > len(k)
  <2>0. len(k) < len(n)
    OBVIOUS
  <2> HIDE DEF n, len, T
  <2>1. PICK a \in Nat : a = len(k)
    BY <1>1, <1>2
  <2>2. PICK b \in Nat : b = len(n)
    BY <1>1, <1>2
  <2>3. a < b
    BY <2>0, <2>1, <2>2
  <2>4. b > a
    BY <2>3
  <2> QED
    BY <2>1, <2>2, <2>4
<1> HIDE DEF n, len
<1>6. PICK m \in T : \A i \in T : m <= i
  <2>1. T \in SUBSET Nat /\ n \in T
    BY <1>1, <1>5
  <2> HIDE DEF T
  <2> QED
    BY <2>1, Least
<1>7. PICK a, b \in Nat : m \in 0..n /\ a = len(m) /\ b = len(k) /\ a > b
  BY <1>1, <1>2, <1>6
<1>8. m > k
  <2> SUFFICES ASSUME m <= k
               PROVE  FALSE
    BY <1>1, <1>7
  <2>1. m \in 0..k
    BY <1>1, <1>7
  <2>2. a <= b
    BY <1>1, <1>3, <1>7, <2>1
  <2> QED
    BY <1>7, <2>2
<1>9. m \in 1..n /\ m - 1 \in 0..n /\ k \in 0..m - 1
  BY <1>1, <1>7, <1>8
<1>10. len(m - 1) = len(k)
  <2>1. m - 1 \notin T
    <3>1. ~ (m <= m - 1)
      BY <1>7
    <3> HIDE DEF T
    <3> QED
      BY <1>6, <3>1
  <2>2. PICK d \in Nat : d = len(m - 1)
    BY <1>2, <1>9
  <2>3. ~ (d > b)
    BY <1>7, <1>9, <2>1, <2>2
  <2>4. b <= d
    BY <1>3, <1>7, <1>9, <2>2
  <2>5. b = d
    BY <2>3, <2>4
  <2> QED
    BY <1>7, <2>2, <2>5
<1>11. source[m].mn # "LABEL"
  <2>1. a # b /\ b = len(m - 1)
    BY <1>7, <1>10
  <2> QED
    BY <1>4, <1>7, <1>9, <2>1
<1> QED
  BY <1>9, <1>10, <1>11 DEF n, len

\* A line that makes an instruction ends where the machine goes on.
LEMMA LineEnds ==
    ASSUME NEW source \in Seq(Lines), Passes(source), NEW m \in 1..Len(source),
           source[m].mn # "LABEL", NEW code, code = Passed(source)[Len(source)],
           NEW p \in Nat, p = Len(Passed(source)[m - 1]), NEW z, z = SizeAt(code, p)
    PROVE  Len(Passed(source)[m]) = p + z /\ p + z <= Len(code)
<1>1. PICK e : e = Encoded(source[m], Labels(source))
  OBVIOUS
<1>2. StandsAt(source, m, code, p, e)
  BY <1>1, LineIs
<1>3. SizeAt(code, p) = Len(e) /\ Len(Passed(source)[m]) = p + Len(e) /\ p + Len(e) <= Len(code)
  BY <1>2 DEF StandsAt
<1> QED
  BY <1>3

\* Where the machine may stand is where the code of some line ends.
LEMMA StartsAreLines ==
    ASSUME NEW source \in Seq(Lines), Passes(source),
           NEW code, code = Passed(source)[Len(source)]
    PROVE  \A p : p \in Starts(code) <=>
               p < Len(code) /\ \E k \in 0..Len(source) : p = Len(Passed(source)[k])
<1> DEFINE n == Len(source)
           len(i) == Len(Passed(source)[i])
           B == {len(k) : k \in 0..n}
<1>1. n \in Nat /\ 0 \in 0..n /\ n \in 0..n
  BY LenProperties
<1>2. code \in Seq(Byte) /\ Len(code) \in Nat /\ \A i \in 0..n : len(i) \in Nat
  BY <1>1, PassesAgree, ByteIs
<1>3. \A i \in 0..n : len(i) <= Len(code)
  BY <1>1, PassesOn
<1>4. len(0) = 0
  <2>1. Passed(source)[0] = <<>> /\ Len(<<>>) = 0
    BY PassedIs DEF Passes
  <2> QED
    BY <2>1
<1>5. ASSUME NEW m \in 1..n, source[m].mn # "LABEL"
      PROVE  len(m) = len(m - 1) + SizeAt(code, len(m - 1)) /\ len(m - 1) < Len(code)
  <2>1. PICK p \in Nat : p = len(m - 1)
    <3> HIDE DEF len, B
    <3> QED
      BY <1>1, <1>2
  <2>2. PICK z \in 1..5 : z = SizeAt(code, p)
    BY SizeBounds
  <2>3. len(m) = p + z /\ p + z <= Len(code)
    <3>1. p \in Nat /\ p = Len(Passed(source)[m - 1])
      BY <2>1
    <3>2. Len(Passed(source)[m]) = p + z /\ p + z <= Len(code)
      BY <1>5, <2>2, <3>1, LineEnds
    <3> QED
      BY <3>2
  <2> HIDE DEF n, len, B
  <2>4. len(m - 1) + SizeAt(code, len(m - 1)) = p + z
    BY <2>1, <2>2
  <2>5. len(m - 1) < Len(code)
    BY <1>2, <2>1, <2>3
  <2> QED
    BY <2>3, <2>4, <2>5
<1>6. \A m \in 1..n : source[m].mn = "LABEL" => len(m) = len(m - 1)
  BY LabelIsNothing
<1>7. ASSUME NEW k \in 0..n, len(k) < Len(code)
      PROVE  len(k) + SizeAt(code, len(k)) \in B
  <2>1. PICK m \in 1..n : source[m].mn # "LABEL" /\ len(m - 1) = len(k)
    BY <1>7, LineAt
  <2>2. len(m) = len(k) + SizeAt(code, len(k)) /\ m \in 0..n
    BY <1>1, <1>5, <2>1
  <2> QED
    BY <2>2
<1> HIDE DEF n, len
<1>8. B \in SUBSET (0..Len(code) + 4) /\ 0 \in B /\ Closed(code, B)
  <2>1. ASSUME NEW k \in 0..n
        PROVE  len(k) \in 0..Len(code) + 4
    <3>1. PICK a \in Nat : a = len(k)
      BY <1>2
    <3>2. PICK b \in Nat : b = Len(code)
      BY <1>2
    <3>3. a <= b
      BY <1>3, <3>1, <3>2
    <3>4. a \in 0..b + 4
      BY <3>3
    <3> QED
      BY <3>1, <3>2, <3>4
  <2>2. 0 \in B
    BY <1>1, <1>4
  <2>3. Closed(code, B)
    BY <1>7 DEF Closed
  <2> QED
    BY <2>1, <2>2, <2>3
<1>9. ASSUME NEW S \in SUBSET (0..Len(code) + 4), 0 \in S, Closed(code, S)
      PROVE  \A k \in 0..n : len(k) \in S
  <2> DEFINE f == [i \in 0..n |-> len(i)]
  <2>1. f[0] \in S
    BY <1>1, <1>4, <1>9
  <2>2. ASSUME NEW i \in 1..n, f[i - 1] \in S
        PROVE  f[i] \in S
    <3>1. i \in 0..n /\ i - 1 \in 0..n
      BY <1>1
    <3>2. CASE source[i].mn = "LABEL"
      BY <1>6, <2>2, <3>1, <3>2
    <3>3. CASE source[i].mn # "LABEL"
      <4>1. len(i - 1) \in S
        BY <2>2, <3>1
      <4>2. len(i) \in S
        BY <1>5, <1>9, <3>3, <4>1 DEF Closed
      <4> QED
        BY <3>1, <4>2
    <3> QED
      BY <3>2, <3>3
  <2>3. \A i \in 0..n : f[i] \in S
    <3> HIDE DEF f
    <3> QED
      BY <1>1, <2>1, <2>2, LoopStays
  <2> QED
    BY <2>3
<1>10. ASSUME NEW p \in Starts(code)
       PROVE  p < Len(code) /\ p \in B
  <2>1. p \in 0..Len(code) - 1
    BY <1>2, StartsAre
  <2>2. p \in B
    <3> HIDE DEF B
    <3> QED
      BY <1>2, <1>8, StartsAre
  <2> HIDE DEF B
  <2>3. p < Len(code)
    BY <1>2, <2>1
  <2> QED
    BY <2>2, <2>3
<1>11. ASSUME NEW k \in 0..n, len(k) < Len(code)
       PROVE  len(k) \in Starts(code)
  <2>1. PICK p \in Nat : p = len(k)
    BY <1>2
  <2>2. p \in 0..Len(code) - 1
    <3>1. PICK b \in Nat : b = Len(code)
      BY <1>2
    <3>2. p < b
      BY <1>11, <2>1, <3>1
    <3>3. p \in 0..b - 1
      BY <3>2
    <3> QED
      BY <3>1, <3>3
  <2>3. \A S \in SUBSET (0..Len(code) + 4) : 0 \in S /\ Closed(code, S) => p \in S
    BY <1>9, <2>1
  <2>4. p \in Starts(code)
    BY <1>2, <2>2, <2>3, StartsAre
  <2> QED
    BY <2>1, <2>4
<1> QED
  BY <1>10, <1>11 DEF n, len

\* What the assembler accepts jumps to instructions alone (MVMAssembler::assemble):
\* the first pass has placed the labels where the second one puts the code, and
\* their addresses fit into the byte of a jump.
THEOREM AssembledAligned ==
    ASSUME NEW source \in Seq(Lines)
    PROVE  Assemble(source).code \in Seq(Byte) /\ Aligned(Assemble(source).code)
<1> DEFINE n == Len(source)
           code == Passed(source)[n]
           len(i) == Len(Passed(source)[i])
           labels == Labels(source)
<1>1. n \in Nat /\ DOMAIN source = 1..n
  BY LenProperties
<1>2. Assemble(source).code = IF Passes(source) THEN code ELSE <<>>
  BY <1>1 DEF Assemble, Passes
<1>3. CASE ~ Passes(source)
  <2>1. <<>> \in Seq(Byte)
    OBVIOUS
  <2> QED
    BY <1>2, <1>3, <2>1, NothingToAlign
<1>4. CASE Passes(source)
  <2>1. code \in Seq(Byte)
    <3>1. n \in 0..n
      BY <1>1
    <3> QED
      BY <1>4, <3>1, PassesAgree
  <2>2. \A i \in 0..n : len(i) \in Byte /\ Offsets(source)[i] = len(i)
    BY <1>4, PassesAgree
  <2>3. \A p : p \in Starts(code) <=> p < Len(code) /\ \E k \in 0..n : p = len(k)
    BY <1>4, StartsAreLines
  <2>4. ASSUME NEW pc \in Starts(code), OpOf(code[pc + 1]) = "JMP", code[pc + 2] < Len(code)
        PROVE  code[pc + 2] \in Starts(code)
    <3>1. PICK k \in 0..n : pc = len(k) /\ len(k) < Len(code)
      BY <2>3
    <3>2. PICK m \in 1..n : source[m].mn # "LABEL" /\ len(m - 1) = pc
      BY <1>4, <3>1, LineAt
    <3>3. PICK p \in Nat : p = pc
      BY <2>2, <3>1
    <3>a. PICK e : e = Encoded(source[m], labels)
      OBVIOUS
    <3>b. StandsAt(source, m, code, p, e)
      BY <1>4, <3>2, <3>3, <3>a, LineIs
    <3>4. /\ Len(e) \in 1..5 /\ SizeAt(code, p) = Len(e)
          /\ \A i \in 1..Len(e) : code[p + i] = e[i]
          /\ OpOf(e[1]) = "JMP" =>
                source[m].lbl \in DOMAIN labels /\ e[2] = labels[source[m].lbl] % 256
      BY <3>b DEF StandsAt
    <3>5. Len(e) = 2
      BY <2>4, <3>3, <3>4 DEF SizeAt, Size
    <3>6. code[p + 1] = e[1] /\ code[p + 2] = e[2]
      <4>1. 1 \in 1..2 /\ 2 \in 1..2
        OBVIOUS
      <4> QED
        BY <3>4, <3>5, <4>1
    <3>7. source[m].lbl \in DOMAIN labels /\ e[2] = labels[source[m].lbl] % 256
      BY <2>4, <3>3, <3>4, <3>6
    <3>8. PICK j \in 1..n : labels[source[m].lbl] = Offsets(source)[j]
      BY <3>7, LabelsAre
    <3>9. PICK q \in Byte : q = len(j) /\ labels[source[m].lbl] = q
      <4>1. j \in 0..n
        BY <1>1
      <4> QED
        BY <2>2, <3>8, <4>1
    <3>10. q % 256 = q
      BY ByteIs
    <3>11. code[pc + 2] = len(j)
      BY <3>3, <3>6, <3>7, <3>9, <3>10
    <3>12. j \in 0..n
      BY <1>1
    <3> QED
      BY <2>3, <2>4, <3>11, <3>12
  <2> QED
    BY <1>2, <1>4, <2>1, <2>4 DEF Aligned
<1> QED
  BY <1>3, <1>4

\* Whatever jumps, calls and delegate calls are made, the machine stands at the
\* beginning of an instruction of the code that it runs, or at its end (MVM::execute
\* in mvm.h), if every contract was deployed with what the assembler has made of some
\* source, as by webDeploy and the commands of mirkonet.ino.
THEOREM InstructionsHit ==
    ASSUME \A d \in Deployments : \A i \in DOMAIN d :
               \E source \in Seq(Lines) : d[i].code = Assemble(source).code
    PROVE  Spec => []PcAligned
BY AssembledAligned, AlignedHit
=============================================================================
