-------------------------- MODULE KeyStringProofs --------------------------
(* What the loops of bech32 compute, for strings of any length, and that   *)
(* no string is read as a key that it does not stand for.                  *)
EXTENDS EnvelopesProofs, WellFoundedInduction

-----------------------------------------------------------------------------
(* Induction, over numbers and over sequences.                             *)

\* A set of numbers up to n that is not empty has a least one.
LEMMA LeastOf ==
    ASSUME NEW n \in Nat, NEW T, T \subseteq 1..n, T # {}
    PROVE  \E j \in T : \A k \in T : j <= k
<1> DEFINE Starts == {1..j : j \in T}
<1>1. IsWellFoundedOn(StrictSubsetOrdering(1..n), FiniteSubsetsOf(1..n))
  BY FS_StrictSubsetOrderingWellFounded
<1>2. FiniteSubsetsOf(1..n) = SUBSET (1..n)
  <2>1. IsFiniteSet(1..n)
    BY FS_Interval
  <2> QED  BY <2>1, FS_FiniteSubsetsOfFinite
<1>3. Starts \subseteq SUBSET (1..n) /\ Starts # {}
  <2>1. \A j \in T : 1..j \subseteq 1..n
    OBVIOUS
  <2> QED  BY <2>1, Zenon
<1> HIDE DEF Starts
<1>4. PICK x \in Starts : \A y \in Starts : <<y, x>> \notin StrictSubsetOrdering(1..n)
  BY <1>1, <1>2, <1>3, WFMin, ZenonT(60)
<1>5. \A y \in Starts : y \subseteq x => y = x
  BY <1>3, <1>4 DEF StrictSubsetOrdering
<1>6. PICK j \in T : x = 1..j
  BY <1>4 DEF Starts
<1>7. ASSUME NEW k \in T, k < j PROVE FALSE
  <2>1. 1..k \in Starts
    BY DEF Starts
  <2>2. j \in 1..j /\ j \notin 1..k /\ 1..k \subseteq 1..j
    BY <1>7
  <2> QED  BY <1>5, <1>6, <2>1, <2>2
<1> QED  BY <1>6, <1>7

\* A set of numbers that has 0 and the successor of each of its members has all.
LEMMA Induction ==
    ASSUME NEW T, 0 \in T, \A n \in Nat : n \in T => n + 1 \in T
    PROVE  \A n \in Nat : n \in T
<1> SUFFICES ASSUME NEW n \in Nat, n \notin T PROVE FALSE
  OBVIOUS
<1> DEFINE U == {k \in 1..n : k \notin T}
<1>1. U # {} /\ U \subseteq 1..n
  OBVIOUS
<1>2. PICK j \in U : \A k \in U : j <= k
  BY <1>1, LeastOf
<1>3. j - 1 \in Nat /\ j - 1 \notin T
  BY <1>2
<1>4. j - 1 = 0 \/ j - 1 \in U
  BY <1>3
<1> QED
  BY <1>2, <1>3, <1>4

\* The same for sequences that grow at their end.
LEMMA SeqInduction ==
    ASSUME NEW V, NEW T, <<>> \in T, \A s \in Seq(V), v \in V : s \in T => Append(s, v) \in T
    PROVE  \A s \in Seq(V) : s \in T
<1> DEFINE U == {n \in Nat : \A s \in Seq(V) : Len(s) = n => s \in T}
<1>1. 0 \in U
  <2>1. \A s \in Seq(V) : Len(s) = 0 => s = <<>>
    OBVIOUS
  <2> QED  BY <2>1
<1>2. ASSUME NEW n \in Nat, n \in U PROVE n + 1 \in U
  <2> SUFFICES ASSUME NEW s \in Seq(V), Len(s) = n + 1 PROVE s \in T
    OBVIOUS
  <2> DEFINE front == SubSeq(s, 1, n)
  <2>1. front \in Seq(V) /\ Len(front) = n /\ s[n + 1] \in V
    OBVIOUS
  <2>2. s = Append(front, s[n + 1])
    OBVIOUS
  <2>3. front \in T
    BY <1>2, <2>1
  <2> HIDE DEF front
  <2> QED  BY <2>1, <2>2, <2>3
<1> HIDE DEF U
<1>3. \A n \in Nat : n \in U
  BY <1>1, <1>2, Induction
<1> QED
  BY <1>3 DEF U

-----------------------------------------------------------------------------
(* Folding a sequence.                                                     *)

\* The steps op lead from A into A, whatever value of V they read.
Closed(op, A, V) == \A a \in A, v \in V : op[a][v] \in A

\* f gives what op makes of the first i members of s, from the left.
Folds(f, op, start, s) ==
    f[0] = start /\ \A i \in 1..Len(s) : f[i] = op[f[i - 1]][s[i]]

\* There is a function that Folded defines, and one only.
LEMMA FoldExists ==
    ASSUME NEW A, NEW V, NEW op, Closed(op, A, V), NEW start \in A, NEW s \in Seq(V)
    PROVE  \E f \in [0..Len(s) -> A] : Folds(f, op, start, s) /\ B32!Folded(op, start, s) = f[Len(s)]
<1> DEFINE n == Len(s)
           Is(f, m) == f[0] = start /\ \A i \in 1..m : f[i] = op[f[i - 1]][s[i]]
           T == {m \in Nat : m <= n => \E f \in [0..m -> A] : Is(f, m)}
<1>1. n \in Nat /\ \A i \in 1..n : s[i] \in V
  OBVIOUS
<1>2. 0 \in T
  <2>1. Is([i \in 0..0 |-> start], 0) /\ [i \in 0..0 |-> start] \in [0..0 -> A]
    OBVIOUS
  <2> HIDE DEF Is
  <2> QED  BY <2>1
<1>3. ASSUME NEW m \in Nat, m \in T PROVE m + 1 \in T
  <2> SUFFICES ASSUME m + 1 <= n PROVE \E f \in [0..(m + 1) -> A] : Is(f, m + 1)
    <3> HIDE DEF Is, n
    <3> QED  OBVIOUS
  <2>0. m <= n
    BY <1>1
  <2>1. PICK f \in [0..m -> A] : Is(f, m)
    <3> HIDE DEF Is, n
    <3> QED  BY <1>3, <2>0
  <2> DEFINE g == [i \in 0..(m + 1) |-> IF i <= m THEN f[i] ELSE op[f[m]][s[m + 1]]]
  <2>2. op[f[m]][s[m + 1]] \in A
    BY <1>1 DEF Closed
  <2>3. g \in [0..(m + 1) -> A]
    BY <2>2
  <2>4. \A i \in 0..m : g[i] = f[i]
    OBVIOUS
  <2>5. g[m + 1] = op[f[m]][s[m + 1]]
    OBVIOUS
  <2> HIDE DEF g
  <2>6. g[0] = start
    BY <2>1, <2>4
  <2>7. ASSUME NEW i \in 1..(m + 1) PROVE g[i] = op[g[i - 1]][s[i]]
    <3>1. CASE i \in 1..m
      BY <2>1, <2>4, <3>1
    <3>2. CASE i = m + 1
      BY <2>4, <2>5, <3>2
    <3> QED  BY <3>1, <3>2
  <2> QED  BY <2>3, <2>6, <2>7
<1>4. n \in T
  <2> HIDE DEF T
  <2> QED  BY <1>1, <1>2, <1>3, Induction
<1>5. PICK f \in [0..n -> A] : Is(f, n)
  BY <1>1, <1>4
<1> DEFINE Eq(g) == g = [i \in 0..n |-> IF i = 0 THEN start ELSE op[g[i - 1]][s[i]]]
           fold == CHOOSE g : Eq(g)
<1>6. Eq(f)
  BY <1>5
<1>7. Eq(fold)
  <2> HIDE DEF Eq
  <2> QED  BY <1>6, Zenon
<1>8. B32!Folded(op, start, s) = fold[n]
  BY Zenon DEF B32!Folded
<1> HIDE DEF fold
<1>9. fold[0] = start /\ \A i \in 1..n : fold[i] = op[fold[i - 1]][s[i]]
  <2> DEFINE F == [i \in 0..n |-> IF i = 0 THEN start ELSE op[fold[i - 1]][s[i]]]
  <2>1. fold = F
    BY <1>7, Zenon
  <2>2. F[0] = start /\ \A i \in 1..n : F[i] = op[fold[i - 1]][s[i]]
    BY <1>1
  <2> HIDE DEF F
  <2> QED  BY <2>1, <2>2
<1> DEFINE W == {m \in Nat : m <= n => fold[m] = f[m]}
<1>10. 0 \in W
  BY <1>5, <1>9
<1>11. ASSUME NEW m \in Nat, m \in W PROVE m + 1 \in W
  BY <1>1, <1>5, <1>9, <1>11
<1>12. fold[n] = f[n]
  <2>1. n \in W
    <3> HIDE DEF W
    <3> QED  BY <1>1, <1>10, <1>11, Induction
  <2> QED  BY <2>1
<1>13. Folds(f, op, start, s)
  BY <1>5 DEF Folds
<1> QED
  BY <1>1, <1>5, <1>8, <1>12, <1>13

\* Folding nothing gives the start.
LEMMA FoldedEmpty ==
    ASSUME NEW A, NEW op, NEW start \in A
    PROVE  B32!Folded(op, start, <<>>) = start
<1>1. Closed(op, A, {})
  BY DEF Closed
<1>2. <<>> \in Seq({}) /\ Len(<<>>) = 0
  OBVIOUS
<1>3. ASSUME NEW s \in Seq({}), Len(s) = 0 PROVE B32!Folded(op, start, s) = start
  <2>1. PICK f \in [0..Len(s) -> A] : Folds(f, op, start, s) /\ B32!Folded(op, start, s) = f[Len(s)]
    BY <1>1, FoldExists
  <2> QED  BY <1>3, <2>1 DEF Folds
<1> QED
  BY <1>2, <1>3

\* The fold of a sequence that grew by one is one step more.
LEMMA FoldedAppend ==
    ASSUME NEW A, NEW V, NEW op, Closed(op, A, V), NEW start \in A, NEW s \in Seq(V), NEW x \in V
    PROVE  /\ B32!Folded(op, start, s) \in A
           /\ B32!Folded(op, start, Append(s, x)) = op[B32!Folded(op, start, s)][x]
<1> DEFINE n == Len(s)
           t == Append(s, x)
<1>1. n \in Nat /\ t \in Seq(V) /\ Len(t) = n + 1 /\ t[n + 1] = x /\ \A i \in 1..n : t[i] = s[i]
  OBVIOUS
<1>2. PICK f \in [0..Len(s) -> A] : Folds(f, op, start, s) /\ B32!Folded(op, start, s) = f[Len(s)]
  BY FoldExists
<1> HIDE DEF t
<1>3. PICK g \in [0..Len(t) -> A] : Folds(g, op, start, t) /\ B32!Folded(op, start, t) = g[Len(t)]
  BY <1>1, FoldExists
<1> DEFINE W == {m \in Nat : m <= n => g[m] = f[m]}
<1>4. 0 \in W
  BY <1>2, <1>3 DEF Folds
<1>5. ASSUME NEW m \in Nat, m \in W PROVE m + 1 \in W
  <2> SUFFICES ASSUME m + 1 <= n PROVE g[m + 1] = f[m + 1]
    OBVIOUS
  <2>1. g[m] = f[m] /\ m + 1 \in 1..n /\ (m + 1) - 1 = m
    BY <1>1, <1>5
  <2>2. g[m + 1] = op[g[m]][t[m + 1]]
    BY <1>1, <1>3, <2>1 DEF Folds
  <2>3. f[m + 1] = op[f[m]][s[m + 1]]
    BY <1>1, <1>2, <2>1 DEF Folds
  <2> QED  BY <1>1, <2>1, <2>2, <2>3
<1>6. g[n] = f[n]
  <2>1. n \in W
    <3> HIDE DEF W
    <3> QED  BY <1>1, <1>4, <1>5, Induction
  <2> QED  BY <2>1
<1>7. g[n + 1] = op[g[n]][x]
  BY <1>1, <1>3 DEF Folds
<1> QED
  BY <1>1, <1>2, <1>3, <1>6, <1>7 DEF t

-----------------------------------------------------------------------------
(* Sequences of digits as numbers, the highest digit first.                *)

\* The number whose digits to base b are the entries of s: 256 for bytes, 32 for symbols.
Num(b, s) == B32!Folded([a \in Nat |-> [v \in Nat |-> a * b + v]], 0, s)

\* The number of a sequence grows by one digit at a time, its lowest.
LEMMA NumAppend ==
    ASSUME NEW b \in Nat
    PROVE  /\ Num(b, <<>>) = 0
           /\ \A s \in Seq(Nat) : Num(b, s) \in Nat
           /\ \A s \in Seq(Nat), x \in Nat : Num(b, Append(s, x)) = Num(b, s) * b + x
<1> DEFINE op == [a \in Nat |-> [v \in Nat |-> a * b + v]]
<1>1. Closed(op, Nat, Nat)
  <2>1. \A a, v \in Nat : a * b + v \in Nat
    OBVIOUS
  <2> QED  BY <2>1 DEF Closed
<1>2. \A a, v \in Nat : op[a][v] = a * b + v
  OBVIOUS
<1>3. \A s : Num(b, s) = B32!Folded(op, 0, s)
  BY DEF Num
<1> HIDE DEF op
<1>4. Num(b, <<>>) = 0
  BY <1>3, FoldedEmpty
<1>5. ASSUME NEW s \in Seq(Nat), NEW x \in Nat
      PROVE  Num(b, s) \in Nat /\ Num(b, Append(s, x)) = Num(b, s) * b + x
  <2>1. /\ B32!Folded(op, 0, s) \in Nat
        /\ B32!Folded(op, 0, Append(s, x)) = op[B32!Folded(op, 0, s)][x]
    BY <1>1, FoldedAppend
  <2> QED  BY <1>2, <1>3, <2>1
<1> QED
  BY <1>4, <1>5

\* A non-empty sequence has a last member.
LEMMA LastOf ==
    ASSUME NEW V, NEW s \in Seq(V), Len(s) > 0
    PROVE  \E t \in Seq(V), x \in V : s = Append(t, x) /\ Len(t) = Len(s) - 1
<1>1. PICK n \in Nat : Len(s) = n + 1
  <2>1. Len(s) - 1 \in Nat /\ Len(s) = (Len(s) - 1) + 1
    OBVIOUS
  <2> QED  BY <2>1
<1> DEFINE t == SubSeq(s, 1, n)
<1>2. t \in Seq(V) /\ Len(t) = n /\ s[n + 1] \in V
  BY <1>1
<1>3. s = Append(t, s[n + 1])
  BY <1>1
<1> HIDE DEF t
<1> QED
  BY <1>1, <1>2, <1>3, SMTT(60)

\* Of equally many digits, one sequence only makes a number.
LEMMA SameNum ==
    ASSUME NEW b \in {32, 256}
    PROVE  \A s, t \in Seq(0..(b - 1)) : Len(s) = Len(t) /\ Num(b, s) = Num(b, t) => s = t
<1> DEFINE V == 0..(b - 1)
           T == {s \in Seq(V) : \A t \in Seq(V) : Len(s) = Len(t) /\ Num(b, s) = Num(b, t) => s = t}
<1>1. b \in Nat /\ V \subseteq Nat /\ Seq(V) \subseteq Seq(Nat)
  OBVIOUS
<1>2. <<>> \in T
  <2>1. \A t \in Seq(V) : Len(t) = 0 => t = <<>>
    OBVIOUS
  <2> QED  BY <2>1
<1>3. ASSUME NEW s \in Seq(V), NEW x \in V, s \in T PROVE Append(s, x) \in T
  <2>1. Append(s, x) \in Seq(V) /\ Len(Append(s, x)) = Len(s) + 1 /\ Len(s) \in Nat
    OBVIOUS
  <2> SUFFICES ASSUME NEW t \in Seq(V), Len(t) = Len(s) + 1, Num(b, Append(s, x)) = Num(b, t)
               PROVE  Append(s, x) = t
    BY <2>1
  <2>2. PICK u \in Seq(V), y \in V : t = Append(u, y) /\ Len(u) = Len(t) - 1
    <3> HIDE DEF V
    <3> QED  BY <2>1, LastOf
  <2>3. Num(b, s) * b + x = Num(b, u) * b + y /\ Num(b, s) \in Nat /\ Num(b, u) \in Nat
    <3>1. s \in Seq(Nat) /\ u \in Seq(Nat) /\ x \in Nat /\ y \in Nat
      BY <1>1
    <3> QED  BY <1>1, <2>2, <3>1, NumAppend
  <2>4. Num(b, s) = Num(b, u) /\ x = y
    <3>1. ASSUME NEW m \in Nat, NEW n \in Nat, m * b + x = n * b + y
          PROVE  m = n
      <4>1. CASE b = 32
        <5>1. x < 32 /\ y < 32 /\ x >= 0 /\ y >= 0 /\ x \in Int /\ y \in Int
          BY <4>1
        <5> QED  BY <3>1, <4>1, <5>1
      <4>2. CASE b = 256
        <5>1. x < 256 /\ y < 256 /\ x >= 0 /\ y >= 0 /\ x \in Int /\ y \in Int
          BY <4>2
        <5> QED  BY <3>1, <4>2, <5>1
      <4> QED  BY <4>1, <4>2
    <3>2. Num(b, s) = Num(b, u)
      BY <2>3, <3>1
    <3> QED
      <4>1. x \in Int /\ y \in Int
        OBVIOUS
      <4> QED  BY <1>1, <2>3, <3>2, <4>1
  <2> QED
    BY <1>3, <2>1, <2>2, <2>4
<1>4. \A s \in Seq(V) : s \in T
  <2> HIDE DEF T, V
  <2> QED  BY <1>2, <1>3, SeqInduction
<1> QED
  BY <1>4

-----------------------------------------------------------------------------
(* Groups of bits.                                                         *)

\* A power of two.
Pow(i) == 2^i

\* The powers of two that convert_bits shifts by.
LEMMA Powers ==
    /\ Pow(0) = 1 /\ Pow(1) = 2 /\ Pow(2) = 4 /\ Pow(3) = 8 /\ Pow(4) = 16 /\ Pow(5) = 32
    /\ Pow(6) = 64 /\ Pow(7) = 128 /\ Pow(8) = 256 /\ Pow(9) = 512 /\ Pow(10) = 1024
    /\ Pow(11) = 2048 /\ Pow(12) = 4096 /\ Pow(13) = 8192 /\ Pow(14) = 16384 /\ Pow(15) = 32768
BY DEF Pow

\* A power of two is a positive number.
LEMMA PowerIsPositive ==
    ASSUME NEW i \in 0..15
    PROVE  Pow(i) \in Nat \ {0}
<1>1. i \in {0, 1, 2, 3, 4, 5, 6, 7, 8, 9, 10, 11, 12, 13, 14, 15}
  OBVIOUS
<1> QED  BY <1>1, Powers

\* x, which the accumulator holds, and y, which it would without a limit, agree in their
\* 15 lowest bits.
SameLowBits(x, y) == x \in Nat /\ \E k \in Int : x = y - 32768 * k

\* What is shifted in the accumulator keeps its lowest 15 bits.
LEMMA ShiftedIs ==
    ASSUME NEW acc \in Nat, NEW by \in 0..8
    PROVE  SameLowBits(B32!Shifted(acc, by), acc * Pow(by))
<1>1. AccRange \in Nat \ {0} /\ AccRange % 32768 = 0
  <2>1. 2^15 = 32768
    OBVIOUS
  <2> QED  BY <2>1, EnvelopesAssumption
<1>2. PICK m \in Nat : AccRange = 32768 * m
  <2>1. AccRange = 32768 * (AccRange \div 32768) /\ AccRange \div 32768 \in Nat
    BY <1>1
  <2> QED BY <2>1
<1> DEFINE x == acc * Pow(by)
           q == x \div AccRange
<1>3. B32!Shifted(acc, by) = x % AccRange
  BY DEF B32!Shifted, Pow
<1>4. x \in Nat
  BY PowerIsPositive
<1> HIDE DEF x
<1>5. q \in Int /\ x % AccRange = x - AccRange * q /\ x % AccRange \in Nat
  BY <1>1, <1>4
<1> HIDE DEF q
<1>6. AccRange * q = 32768 * (m * q) /\ m * q \in Int
  BY <1>2, <1>5
<1>7. B32!Shifted(acc, by) \in Nat /\ B32!Shifted(acc, by) = x - 32768 * (m * q)
  BY <1>3, <1>5, <1>6
<1> QED
  BY <1>6, <1>7 DEF x, SameLowBits

\* The lowest bits of the accumulator, when a group was shifted into it.
LEMMA ShiftMod ==
    ASSUME NEW acc \in Nat, NEW k \in Int, NEW by \in {5, 8}, NEW v \in 0..(Pow(by) - 1), NEW b \in 0..7
    PROVE  /\ Pow(b + by) = Pow(b) * Pow(by)
           /\ (acc * Pow(by) - 32768 * k + v) % Pow(b + by) = ((acc % Pow(b)) * Pow(by)) + v
<1>1. b \in {0, 1, 2, 3, 4, 5, 6, 7}
  OBVIOUS
<1>2. CASE by = 5
  <2>1. Pow(by) = 32 /\ v \in 0..31
    BY <1>2, Powers
  <2>2. CASE b = 0
    <3>1. Pow(b) = 1 /\ Pow(b + by) = 32
      BY <1>2, <2>2, Powers
    <3>2. (acc * 32 - 32768 * k + v) % 32 = ((acc % 1) * 32) + v
      BY <2>1
    <3> QED  BY <2>1, <3>1, <3>2
  <2>3. CASE b = 1
    <3>1. Pow(b) = 2 /\ Pow(b + by) = 64
      BY <1>2, <2>3, Powers
    <3>2. (acc * 32 - 32768 * k + v) % 64 = ((acc % 2) * 32) + v
      BY <2>1
    <3> QED  BY <2>1, <3>1, <3>2
  <2>4. CASE b = 2
    <3>1. Pow(b) = 4 /\ Pow(b + by) = 128
      BY <1>2, <2>4, Powers
    <3>2. (acc * 32 - 32768 * k + v) % 128 = ((acc % 4) * 32) + v
      BY <2>1
    <3> QED  BY <2>1, <3>1, <3>2
  <2>5. CASE b = 3
    <3>1. Pow(b) = 8 /\ Pow(b + by) = 256
      BY <1>2, <2>5, Powers
    <3>2. (acc * 32 - 32768 * k + v) % 256 = ((acc % 8) * 32) + v
      BY <2>1
    <3> QED  BY <2>1, <3>1, <3>2
  <2>6. CASE b = 4
    <3>1. Pow(b) = 16 /\ Pow(b + by) = 512
      BY <1>2, <2>6, Powers
    <3>2. (acc * 32 - 32768 * k + v) % 512 = ((acc % 16) * 32) + v
      BY <2>1
    <3> QED  BY <2>1, <3>1, <3>2
  <2>7. CASE b = 5
    <3>1. Pow(b) = 32 /\ Pow(b + by) = 1024
      BY <1>2, <2>7, Powers
    <3>2. (acc * 32 - 32768 * k + v) % 1024 = ((acc % 32) * 32) + v
      BY <2>1
    <3> QED  BY <2>1, <3>1, <3>2
  <2>8. CASE b = 6
    <3>1. Pow(b) = 64 /\ Pow(b + by) = 2048
      BY <1>2, <2>8, Powers
    <3>2. (acc * 32 - 32768 * k + v) % 2048 = ((acc % 64) * 32) + v
      BY <2>1
    <3> QED  BY <2>1, <3>1, <3>2
  <2>9. CASE b = 7
    <3>1. Pow(b) = 128 /\ Pow(b + by) = 4096
      BY <1>2, <2>9, Powers
    <3>2. (acc * 32 - 32768 * k + v) % 4096 = ((acc % 128) * 32) + v
      BY <2>1
    <3> QED  BY <2>1, <3>1, <3>2
  <2> QED  BY <1>1, <2>2, <2>3, <2>4, <2>5, <2>6, <2>7, <2>8, <2>9
<1>3. CASE by = 8
  <2>1. Pow(by) = 256 /\ v \in 0..255
    BY <1>3, Powers
  <2>2. CASE b = 0
    <3>1. Pow(b) = 1 /\ Pow(b + by) = 256
      BY <1>3, <2>2, Powers
    <3>2. (acc * 256 - 32768 * k + v) % 256 = ((acc % 1) * 256) + v
      BY <2>1
    <3> QED  BY <2>1, <3>1, <3>2
  <2>3. CASE b = 1
    <3>1. Pow(b) = 2 /\ Pow(b + by) = 512
      BY <1>3, <2>3, Powers
    <3>2. (acc * 256 - 32768 * k + v) % 512 = ((acc % 2) * 256) + v
      BY <2>1
    <3> QED  BY <2>1, <3>1, <3>2
  <2>4. CASE b = 2
    <3>1. Pow(b) = 4 /\ Pow(b + by) = 1024
      BY <1>3, <2>4, Powers
    <3>2. (acc * 256 - 32768 * k + v) % 1024 = ((acc % 4) * 256) + v
      BY <2>1
    <3> QED  BY <2>1, <3>1, <3>2
  <2>5. CASE b = 3
    <3>1. Pow(b) = 8 /\ Pow(b + by) = 2048
      BY <1>3, <2>5, Powers
    <3>2. (acc * 256 - 32768 * k + v) % 2048 = ((acc % 8) * 256) + v
      BY <2>1
    <3> QED  BY <2>1, <3>1, <3>2
  <2>6. CASE b = 4
    <3>1. Pow(b) = 16 /\ Pow(b + by) = 4096
      BY <1>3, <2>6, Powers
    <3>2. (acc * 256 - 32768 * k + v) % 4096 = ((acc % 16) * 256) + v
      BY <2>1
    <3> QED  BY <2>1, <3>1, <3>2
  <2>7. CASE b = 5
    <3>1. Pow(b) = 32 /\ Pow(b + by) = 8192
      BY <1>3, <2>7, Powers
    <3>2. (acc * 256 - 32768 * k + v) % 8192 = ((acc % 32) * 256) + v
      BY <2>1
    <3> QED  BY <2>1, <3>1, <3>2
  <2>8. CASE b = 6
    <3>1. Pow(b) = 64 /\ Pow(b + by) = 16384
      BY <1>3, <2>8, Powers
    <3>2. (acc * 256 - 32768 * k + v) % 16384 = ((acc % 64) * 256) + v
      BY <2>1
    <3> QED  BY <2>1, <3>1, <3>2
  <2>9. CASE b = 7
    <3>1. Pow(b) = 128 /\ Pow(b + by) = 32768
      BY <1>3, <2>9, Powers
    <3>2. (acc * 256 - 32768 * k + v) % 32768 = ((acc % 128) * 256) + v
      BY <2>1
    <3> QED  BY <2>1, <3>1, <3>2
  <2> QED  BY <1>1, <2>2, <2>3, <2>4, <2>5, <2>6, <2>7, <2>8, <2>9
<1> QED
  BY <1>2, <1>3

\* Shifting a value into the accumulator appends it to the bits that are left.
LEMMA ShiftedMod ==
    ASSUME NEW acc \in Nat, NEW by \in {5, 8}, NEW v \in 0..(Pow(by) - 1), NEW b \in 0..7
    PROVE  /\ B32!Shifted(acc, by) + v \in Nat /\ Pow(b + by) = Pow(b) * Pow(by)
           /\ (B32!Shifted(acc, by) + v) % Pow(b + by) = ((acc % Pow(b)) * Pow(by)) + v
<1>1. SameLowBits(B32!Shifted(acc, by), acc * Pow(by))
  <2>1. by \in 0..8
    OBVIOUS
  <2> QED  BY <2>1, ShiftedIs
<1> DEFINE x == B32!Shifted(acc, by)
<1> HIDE DEF x
<1>2. PICK k \in Int : x = acc * Pow(by) - 32768 * k /\ x \in Nat
  BY <1>1 DEF x, SameLowBits
<1>3. v \in Nat
  <2>1. by \in 0..15
    OBVIOUS
  <2> QED  BY <2>1, PowerIsPositive
<1>4. Pow(b + by) = Pow(b) * Pow(by) /\ (acc * Pow(by) - 32768 * k + v) % Pow(b + by) = ((acc % Pow(b)) * Pow(by)) + v
  BY ShiftMod
<1> QED  BY <1>2, <1>3, <1>4 DEF x

\* The lowest bits of a number, split into a group and what is below it.
LEMMA DropMod ==
    ASSUME NEW acc \in Nat, NEW to \in {5, 8}, NEW c \in 0..7
    PROVE  /\ Pow(c + to) = Pow(c) * Pow(to)
           /\ (acc \div Pow(c)) % Pow(to) \in 0..(Pow(to) - 1)
           /\ acc % Pow(c + to) = (((acc \div Pow(c)) % Pow(to)) * Pow(c)) + (acc % Pow(c))
<1>1. c \in {0, 1, 2, 3, 4, 5, 6, 7}
  OBVIOUS
<1>2. CASE to = 5
  <2>1. Pow(to) = 32
    BY <1>2, Powers
  <2>2. CASE c = 0
    <3>1. Pow(c) = 1 /\ Pow(c + to) = 32
      BY <1>2, <2>2, Powers
    <3>2. (acc \div 1) % 32 \in 0..31 /\ acc % 32 = (((acc \div 1) % 32) * 1) + (acc % 1)
      OBVIOUS
    <3> QED  BY <2>1, <3>1, <3>2
  <2>3. CASE c = 1
    <3>1. Pow(c) = 2 /\ Pow(c + to) = 64
      BY <1>2, <2>3, Powers
    <3>2. (acc \div 2) % 32 \in 0..31 /\ acc % 64 = (((acc \div 2) % 32) * 2) + (acc % 2)
      OBVIOUS
    <3> QED  BY <2>1, <3>1, <3>2
  <2>4. CASE c = 2
    <3>1. Pow(c) = 4 /\ Pow(c + to) = 128
      BY <1>2, <2>4, Powers
    <3>2. (acc \div 4) % 32 \in 0..31 /\ acc % 128 = (((acc \div 4) % 32) * 4) + (acc % 4)
      OBVIOUS
    <3> QED  BY <2>1, <3>1, <3>2
  <2>5. CASE c = 3
    <3>1. Pow(c) = 8 /\ Pow(c + to) = 256
      BY <1>2, <2>5, Powers
    <3>2. (acc \div 8) % 32 \in 0..31 /\ acc % 256 = (((acc \div 8) % 32) * 8) + (acc % 8)
      OBVIOUS
    <3> QED  BY <2>1, <3>1, <3>2
  <2>6. CASE c = 4
    <3>1. Pow(c) = 16 /\ Pow(c + to) = 512
      BY <1>2, <2>6, Powers
    <3>2. (acc \div 16) % 32 \in 0..31 /\ acc % 512 = (((acc \div 16) % 32) * 16) + (acc % 16)
      OBVIOUS
    <3> QED  BY <2>1, <3>1, <3>2
  <2>7. CASE c = 5
    <3>1. Pow(c) = 32 /\ Pow(c + to) = 1024
      BY <1>2, <2>7, Powers
    <3>2. (acc \div 32) % 32 \in 0..31 /\ acc % 1024 = (((acc \div 32) % 32) * 32) + (acc % 32)
      OBVIOUS
    <3> QED  BY <2>1, <3>1, <3>2
  <2>8. CASE c = 6
    <3>1. Pow(c) = 64 /\ Pow(c + to) = 2048
      BY <1>2, <2>8, Powers
    <3>2. (acc \div 64) % 32 \in 0..31 /\ acc % 2048 = (((acc \div 64) % 32) * 64) + (acc % 64)
      OBVIOUS
    <3> QED  BY <2>1, <3>1, <3>2
  <2>9. CASE c = 7
    <3>1. Pow(c) = 128 /\ Pow(c + to) = 4096
      BY <1>2, <2>9, Powers
    <3>2. (acc \div 128) % 32 \in 0..31 /\ acc % 4096 = (((acc \div 128) % 32) * 128) + (acc % 128)
      OBVIOUS
    <3> QED  BY <2>1, <3>1, <3>2
  <2> QED  BY <1>1, <2>2, <2>3, <2>4, <2>5, <2>6, <2>7, <2>8, <2>9
<1>3. CASE to = 8
  <2>1. Pow(to) = 256
    BY <1>3, Powers
  <2>2. CASE c = 0
    <3>1. Pow(c) = 1 /\ Pow(c + to) = 256
      BY <1>3, <2>2, Powers
    <3>2. (acc \div 1) % 256 \in 0..255 /\ acc % 256 = (((acc \div 1) % 256) * 1) + (acc % 1)
      OBVIOUS
    <3> QED  BY <2>1, <3>1, <3>2
  <2>3. CASE c = 1
    <3>1. Pow(c) = 2 /\ Pow(c + to) = 512
      BY <1>3, <2>3, Powers
    <3>2. (acc \div 2) % 256 \in 0..255 /\ acc % 512 = (((acc \div 2) % 256) * 2) + (acc % 2)
      OBVIOUS
    <3> QED  BY <2>1, <3>1, <3>2
  <2>4. CASE c = 2
    <3>1. Pow(c) = 4 /\ Pow(c + to) = 1024
      BY <1>3, <2>4, Powers
    <3>2. (acc \div 4) % 256 \in 0..255 /\ acc % 1024 = (((acc \div 4) % 256) * 4) + (acc % 4)
      OBVIOUS
    <3> QED  BY <2>1, <3>1, <3>2
  <2>5. CASE c = 3
    <3>1. Pow(c) = 8 /\ Pow(c + to) = 2048
      BY <1>3, <2>5, Powers
    <3>2. (acc \div 8) % 256 \in 0..255 /\ acc % 2048 = (((acc \div 8) % 256) * 8) + (acc % 8)
      OBVIOUS
    <3> QED  BY <2>1, <3>1, <3>2
  <2>6. CASE c = 4
    <3>1. Pow(c) = 16 /\ Pow(c + to) = 4096
      BY <1>3, <2>6, Powers
    <3>2. (acc \div 16) % 256 \in 0..255 /\ acc % 4096 = (((acc \div 16) % 256) * 16) + (acc % 16)
      OBVIOUS
    <3> QED  BY <2>1, <3>1, <3>2
  <2>7. CASE c = 5
    <3>1. Pow(c) = 32 /\ Pow(c + to) = 8192
      BY <1>3, <2>7, Powers
    <3>2. (acc \div 32) % 256 \in 0..255 /\ acc % 8192 = (((acc \div 32) % 256) * 32) + (acc % 32)
      OBVIOUS
    <3> QED  BY <2>1, <3>1, <3>2
  <2>8. CASE c = 6
    <3>1. Pow(c) = 64 /\ Pow(c + to) = 16384
      BY <1>3, <2>8, Powers
    <3>2. (acc \div 64) % 256 \in 0..255 /\ acc % 16384 = (((acc \div 64) % 256) * 64) + (acc % 64)
      OBVIOUS
    <3> QED  BY <2>1, <3>1, <3>2
  <2>9. CASE c = 7
    <3>1. Pow(c) = 128 /\ Pow(c + to) = 32768
      BY <1>3, <2>9, Powers
    <3>2. (acc \div 128) % 256 \in 0..255 /\ acc % 32768 = (((acc \div 128) % 256) * 128) + (acc % 128)
      OBVIOUS
    <3> QED  BY <2>1, <3>1, <3>2
  <2> QED  BY <1>1, <2>2, <2>3, <2>4, <2>5, <2>6, <2>7, <2>8, <2>9
<1> QED
  BY <1>2, <1>3

\* The groups o of to bits and the lowest bits of acc are the n bits of the number N.
Carries(acc, bits, o, n, N, to) ==
    /\ acc \in Nat /\ bits \in Nat /\ o \in Seq(0..(Pow(to) - 1))
    /\ n = to * Len(o) + bits
    /\ N = Num(Pow(to), o) * Pow(bits) + (acc % Pow(bits))

\* A group that is put out is a further digit, to the base 2^to, of the number of the
\* output.
LEMMA Digits ==
    ASSUME NEW to \in {5, 8}, NEW o \in Seq(0..(Pow(to) - 1))
    PROVE  /\ Num(Pow(to), o) \in Nat
           /\ \A g \in 0..(Pow(to) - 1) :
                /\ Append(o, g) \in Seq(0..(Pow(to) - 1)) /\ Len(Append(o, g)) = Len(o) + 1
                /\ Num(Pow(to), Append(o, g)) = Num(Pow(to), o) * Pow(to) + g
<1> DEFINE b == Pow(to)
<1>1. b \in Nat \ {0}
  <2>1. to \in 0..15
    OBVIOUS
  <2> QED  BY <2>1, PowerIsPositive
<1> HIDE DEF b
<1>2. ASSUME NEW s \in Seq(0..(b - 1)) PROVE s \in Seq(Nat)
  BY <1>1
<1>3. ASSUME NEW s \in Seq(0..(b - 1)), NEW g \in 0..(b - 1)
      PROVE  Append(s, g) \in Seq(0..(b - 1)) /\ Len(Append(s, g)) = Len(s) + 1 /\ g \in Nat
  BY <1>1
<1>4. \A s \in Seq(0..(b - 1)) :
        /\ Num(b, s) \in Nat
        /\ \A g \in 0..(b - 1) :
                /\ Append(s, g) \in Seq(0..(b - 1)) /\ Len(Append(s, g)) = Len(s) + 1
                /\ Num(b, Append(s, g)) = Num(b, s) * b + g
  <2> SUFFICES ASSUME NEW s \in Seq(0..(b - 1))
               PROVE  /\ Num(b, s) \in Nat
                      /\ \A g \in 0..(b - 1) :
                           /\ Append(s, g) \in Seq(0..(b - 1)) /\ Len(Append(s, g)) = Len(s) + 1
                           /\ Num(b, Append(s, g)) = Num(b, s) * b + g
    OBVIOUS
  <2>1. b \in Nat /\ s \in Seq(Nat)
    BY <1>1, <1>2
  <2>2. Num(b, s) \in Nat /\ \A x \in Nat : Num(b, Append(s, x)) = Num(b, s) * b + x
    BY <2>1, NumAppend
  <2> QED  BY <1>3, <2>2
<1> QED  BY <1>4 DEF b

\* A group of by bits is shifted in.
LEMMA ShiftIn ==
    ASSUME NEW acc, NEW bits \in 0..7, NEW o, NEW n \in Nat, NEW N \in Nat, NEW to \in {5, 8},
           NEW by \in {5, 8}, NEW v \in 0..(Pow(by) - 1), Carries(acc, bits, o, n, N, to)
    PROVE  Carries(B32!Shifted(acc, by) + v, bits + by, o, n + by, N * Pow(by) + v, to)
<1>1. acc \in Nat /\ o \in Seq(0..(Pow(to) - 1)) /\ n = to * Len(o) + bits
      /\ N = Num(Pow(to), o) * Pow(bits) + (acc % Pow(bits))
  BY DEF Carries
<1> DEFINE A == B32!Shifted(acc, by) + v
           M == Num(Pow(to), o)
           r == acc % Pow(bits)
<1>3. Pow(bits + by) = Pow(bits) * Pow(by) /\ A \in Nat /\ A % Pow(bits + by) = (r * Pow(by)) + v
  BY <1>1, ShiftedMod, ZenonT(60)
<1>4. M \in Nat /\ Pow(by) \in Nat \ {0} /\ Pow(bits) \in Nat \ {0}
  <2>1. by \in 0..15 /\ bits \in 0..15
    OBVIOUS
  <2>2. M \in Nat
    BY <1>1, Digits
  <2> QED  BY <2>1, <2>2, PowerIsPositive
<1>5. r \in Nat /\ N = M * Pow(bits) + r
  BY <1>1, <1>4, SMTT(30)
<1> HIDE DEF A, M, r
<1>7. N * Pow(by) + v = M * Pow(bits + by) + (A % Pow(bits + by))
  <2>1. N * Pow(by) = (M * Pow(bits)) * Pow(by) + r * Pow(by)
    BY <1>4, <1>5
  <2>2. (M * Pow(bits)) * Pow(by) = M * (Pow(bits) * Pow(by))
    BY <1>4
  <2>3. v \in Nat /\ r * Pow(by) \in Nat /\ M * (Pow(bits) * Pow(by)) \in Nat
    BY <1>4, <1>5
  <2> QED  BY <1>3, <2>1, <2>2, <2>3
<1>8. n + by = to * Len(o) + (bits + by) /\ bits + by \in Nat
  BY <1>1
<1> QED  BY <1>1, <1>3, <1>7, <1>8 DEF Carries, A, M

\* A group of to bits is put out.
LEMMA DropOne ==
    ASSUME NEW acc, NEW o, NEW n, NEW N, NEW to \in {5, 8}, NEW c \in 0..7,
           Carries(acc, c + to, o, n, N, to)
    PROVE  Carries(acc, c, Append(o, (acc \div Pow(c)) % Pow(to)), n, N, to)
<1>1. acc \in Nat /\ o \in Seq(0..(Pow(to) - 1)) /\ n = to * Len(o) + (c + to)
      /\ N = Num(Pow(to), o) * Pow(c + to) + (acc % Pow(c + to))
  BY DEF Carries
<1> DEFINE g == (acc \div Pow(c)) % Pow(to)
           M == Num(Pow(to), o)
           r == acc % Pow(c)
<1>2. Pow(c + to) = Pow(c) * Pow(to) /\ g \in 0..(Pow(to) - 1) /\ acc % Pow(c + to) = (g * Pow(c)) + r
  BY <1>1, DropMod
<1>3. M \in Nat /\ Pow(to) \in Nat \ {0} /\ Pow(c) \in Nat \ {0}
  <2>1. to \in 0..15 /\ c \in 0..15
    OBVIOUS
  <2>2. M \in Nat
    BY <1>1, Digits
  <2> QED  BY <2>1, <2>2, PowerIsPositive
<1>4. r \in Nat /\ g \in Nat
  <2>1. r \in Nat
    BY <1>1, <1>3
  <2>2. g \in Nat
    <3> HIDE DEF g
    <3> QED  BY <1>2, <1>3
  <2> QED  BY <2>1, <2>2
<1> HIDE DEF g, M, r
<1>5. /\ Append(o, g) \in Seq(0..(Pow(to) - 1)) /\ Len(Append(o, g)) = Len(o) + 1
      /\ Num(Pow(to), Append(o, g)) = M * Pow(to) + g
  BY <1>1, <1>2, Digits DEF M
<1>6. N = (M * Pow(to) + g) * Pow(c) + r
  <2>1. (M * Pow(to) + g) * Pow(c) = M * (Pow(c) * Pow(to)) + g * Pow(c)
    BY <1>3, <1>4
  <2>2. M * (Pow(c) * Pow(to)) \in Nat /\ g * Pow(c) \in Nat
    BY <1>3, <1>4
  <2>3. N = M * (Pow(c) * Pow(to)) + (g * Pow(c) + r)
    BY <1>1, <1>2 DEF M
  <2> QED  BY <1>4, <2>1, <2>2, <2>3
<1>7. n = to * Len(Append(o, g)) + c
  <2>1. Len(o) \in Nat
    BY <1>1
  <2> QED  BY <1>1, <1>5, <2>1
<1> QED  BY <1>1, <1>5, <1>6, <1>7 DEF Carries, g, r

\* The same of the state e of a conversion, with less than a group left over.
Regrouped(e, n, N, to) ==
    /\ e = [acc |-> e.acc, bits |-> e.bits, out |-> e.out] /\ e.bits \in 0..(to - 1)
    /\ Carries(e.acc, e.bits, e.out, n, N, to)

\* An accumulator that carries the bits read so far is one with groups put out.
LEMMA MakeRegrouped ==
    ASSUME NEW acc, NEW c, NEW o, NEW n, NEW N, NEW to, NEW e, e = [acc |-> acc, bits |-> c, out |-> o],
           c \in 0..(to - 1), Carries(acc, c, o, n, N, to)
    PROVE  Regrouped(e, n, N, to)
BY DEF Regrouped

\* All groups of to bits are put out.
LEMMA DrainAll ==
    ASSUME NEW acc, NEW b \in Nat, NEW o, NEW n, NEW N, NEW to \in {5, 8},
           b < 15, b < to + 8, Carries(acc, b, o, n, N, to)
    PROVE  Regrouped(B32!Drained(acc, b, o, to), n, N, to)
<1> DEFINE G(m) == [k \in 1..m |-> (acc \div 2^(b - k * to)) % 2^to]
           e == B32!Drained(acc, b, o, to)
<1>0. e = [acc |-> acc, bits |-> b % to, out |-> o \o G(b \div to)]
  BY DEF B32!Drained
<1>a. o \in Seq(0..(Pow(to) - 1)) /\ acc \in Nat
  BY DEF Carries
<1>1. CASE b < to
  <2>1. b % to = b /\ b \div to = 0 /\ b \in 0..(to - 1)
    BY <1>1
  <2>2. o \o G(0) = o
    BY <1>a
  <2> HIDE DEF G, e
  <2>3. e = [acc |-> acc, bits |-> b, out |-> o]
    BY <1>0, <2>1, <2>2
  <2> QED  BY <2>1, <2>3, MakeRegrouped DEF e
<1>2. CASE b >= to /\ b < 2 * to
  <2> DEFINE c == b - to
             g == (acc \div Pow(c)) % Pow(to)
  <2>1. b % to = c /\ b \div to = 1 /\ c \in 0..(to - 1) /\ c \in 0..7 /\ b = c + to
    BY <1>2
  <2>2. G(1) = <<g>>
    BY DEF Pow
  <2>3. \A x : o \o <<x>> = Append(o, x)
    BY <1>a
  <2> HIDE DEF G, e, g, c
  <2>4. e = [acc |-> acc, bits |-> c, out |-> Append(o, g)]
    BY <1>0, <2>1, <2>2, <2>3
  <2>5. Carries(acc, c, Append(o, g), n, N, to)
    BY <2>1, DropOne DEF g
  <2> QED  BY <2>1, <2>4, <2>5, MakeRegrouped DEF e
<1>3. CASE b >= 2 * to
  <2> DEFINE c == b - 10
             d == b - 5
             g == (acc \div Pow(d)) % Pow(to)
             h == (acc \div Pow(c)) % Pow(to)
  <2>1. to = 5 /\ b % to = c /\ b \div to = 2 /\ c \in 0..(to - 1) /\ c \in 0..7 /\ d \in 0..7
        /\ b = d + to /\ d = c + to
    BY <1>3
  <2>2. G(2) = <<g, h>>
    BY <2>1 DEF Pow
  <2>3. \A x, y : o \o <<x, y>> = Append(Append(o, x), y)
    BY <1>a
  <2> HIDE DEF G, e, g, h, c, d
  <2>4. e = [acc |-> acc, bits |-> c, out |-> Append(Append(o, g), h)]
    BY <1>0, <2>1, <2>2, <2>3
  <2>5. Carries(acc, d, Append(o, g), n, N, to)
    BY <2>1, DropOne DEF g
  <2>6. Carries(acc, c, Append(Append(o, g), h), n, N, to)
    BY <2>1, <2>5, DropOne DEF h
  <2> QED  BY <2>1, <2>4, <2>6, MakeRegrouped DEF e
<1> QED  BY <1>1, <1>2, <1>3

\* A state of a conversion is one that Take can start from.
LEMMA RegroupedType ==
    ASSUME NEW to \in {5, 8}, NEW e, NEW n, NEW N, Regrouped(e, n, N, to)
    PROVE  e \in [acc : Nat, bits : Nat, out : Seq(Nat)]
<1>1. e = [acc |-> e.acc, bits |-> e.bits, out |-> e.out] /\ e.acc \in Nat /\ e.bits \in Nat
      /\ e.out \in Seq(0..(Pow(to) - 1))
  BY DEF Regrouped, Carries
<1>2. Seq(0..(Pow(to) - 1)) \subseteq Seq(Nat)
  <2>1. Pow(to) \in Nat
    <3>1. to \in 0..15
      OBVIOUS
    <3> QED  BY <3>1, PowerIsPositive
  <2>2. ASSUME NEW m \in Nat PROVE Seq(0..(m - 1)) \subseteq Seq(Nat)
    OBVIOUS
  <2> QED  BY <2>1, <2>2
<1>3. \A a, b, o : a \in Nat /\ b \in Nat /\ o \in Seq(Nat)
                    => [acc |-> a, bits |-> b, out |-> o] \in [acc : Nat, bits : Nat, out : Seq(Nat)]
  OBVIOUS
<1>4. e.out \in Seq(Nat)
  BY <1>1, <1>2
<1>5. [acc |-> e.acc, bits |-> e.bits, out |-> e.out] \in [acc : Nat, bits : Nat, out : Seq(Nat)]
  BY <1>1, <1>3, <1>4, Zenon
<1> QED  BY <1>1, <1>5, Zenon

\* One group more is taken in.
LEMMA TakeOne ==
    ASSUME NEW from \in {5, 8}, NEW to \in {5, 8}, from # to, NEW e, NEW n \in Nat, NEW N \in Nat,
           NEW v \in 0..(Pow(from) - 1), Regrouped(e, n, N, to)
    PROVE  Regrouped(B32!Take(from, to)[e][v], n + from, N * Pow(from) + v, to)
<1>1. e \in [acc : Nat, bits : Nat, out : Seq(Nat)]
  BY RegroupedType
<1>2. v \in Nat
  <2>1. from \in 0..15
    OBVIOUS
  <2>2. Pow(from) \in Nat
    BY <2>1, PowerIsPositive
  <2> QED  BY <2>2
<1>3. B32!Take(from, to)[e][v] = B32!Drained(B32!Shifted(e.acc, from) + v, e.bits + from, e.out, to)
  <2> DEFINE D(a, x) == B32!Drained(B32!Shifted(a.acc, from) + x, a.bits + from, a.out, to)
             S == [acc : Nat, bits : Nat, out : Seq(Nat)]
  <2>1. B32!Take(from, to) = [a \in S |-> [x \in Nat |-> D(a, x)]]
    BY DEF B32!Take
  <2> HIDE DEF D, S
  <2>2. e \in S
    BY <1>1 DEF S
  <2>3. B32!Take(from, to)[e][v] = D(e, v)
    BY <1>2, <2>1, <2>2
  <2> QED  BY <2>3 DEF D
<1>4. e.bits \in 0..(to - 1) /\ Carries(e.acc, e.bits, e.out, n, N, to)
  BY DEF Regrouped
<1>5. e.bits \in 0..7 /\ e.bits + from \in Nat /\ e.bits + from < 15 /\ e.bits + from < to + 8
  BY <1>4
<1>6. Carries(B32!Shifted(e.acc, from) + v, e.bits + from, e.out, n + from, N * Pow(from) + v, to)
  BY <1>4, <1>5, ShiftIn
<1>7. Regrouped(B32!Drained(B32!Shifted(e.acc, from) + v, e.bits + from, e.out, to), n + from, N * Pow(from) + v, to)
  BY <1>5, <1>6, DrainAll
<1> QED  BY <1>3, <1>7, Zenon

\* convert_bits holds, after all groups, the number they are.
LEMMA GroupedIs ==
    ASSUME NEW from \in {5, 8}, NEW to \in {5, 8}, from # to, NEW data \in Seq(0..(Pow(from) - 1))
    PROVE  Regrouped(B32!Grouped(data, from, to), from * Len(data), Num(Pow(from), data), to)
<1> DEFINE V == 0..(Pow(from) - 1)
           op == B32!Take(from, to)
           A == {e \in [acc : Nat, bits : Nat, out : Seq(Nat)] : \E n, N \in Nat : Regrouped(e, n, N, to)}
           start == B32!Accumulator
           Good(s) == Regrouped(B32!Folded(op, start, s), from * Len(s), Num(Pow(from), s), to)
           T == {s \in Seq(V) : Good(s)}
<1>1. Pow(from) \in Nat \ {0} /\ V \subseteq Nat /\ Seq(V) \subseteq Seq(Nat)
  <2>1. from \in 0..15
    OBVIOUS
  <2>2. Pow(from) \in Nat \ {0}
    BY <2>1, PowerIsPositive
  <2>3. V \subseteq Nat
    BY <2>2
  <2>4. \A m \in Nat : Seq(0..(m - 1)) \subseteq Seq(Nat)
    OBVIOUS
  <2> QED  BY <2>2, <2>3, <2>4
<1>2. Regrouped(start, 0, 0, to)
  <2>1. start = [acc |-> 0, bits |-> 0, out |-> <<>>]
    BY DEF B32!Accumulator
  <2>2. <<>> \in Seq(0..(Pow(to) - 1)) /\ Len(<<>>) = 0
    OBVIOUS
  <2>3. Num(Pow(to), <<>>) = 0
    <3>1. to \in 0..15
      OBVIOUS
    <3>2. Pow(to) \in Nat
      BY <3>1, PowerIsPositive
    <3> QED  BY <3>2, NumAppend
  <2>4. 0 = 0 * Pow(0) + (0 % Pow(0))
    <3>1. Pow(0) = 1
      BY Powers
    <3>2. 0 = 0 * 1 + (0 % 1)
      OBVIOUS
    <3> QED  BY <3>1, <3>2, Zenon
  <2>5. Carries(0, 0, <<>>, 0, 0, to)
    BY <2>2, <2>3, <2>4 DEF Carries
  <2>6. 0 \in 0..(to - 1)
    OBVIOUS
  <2> HIDE DEF start
  <2> QED  BY <2>1, <2>5, <2>6, MakeRegrouped
<1> HIDE DEF op, start
<1>3. start \in A
  BY <1>2, RegroupedType
<1>4. Closed(op, A, V)
  <2> SUFFICES ASSUME NEW e \in A, NEW v \in V PROVE op[e][v] \in A
    BY DEF Closed
  <2>1. PICK n, N \in Nat : Regrouped(e, n, N, to)
    OBVIOUS
  <2>2. Regrouped(op[e][v], n + from, N * Pow(from) + v, to)
    BY <2>1, TakeOne DEF op
  <2>3. n + from \in Nat /\ N * Pow(from) + v \in Nat
    <3>1. v \in Nat
      BY <1>1
    <3>2. \A x, y \in Nat : x * y \in Nat
      OBVIOUS
    <3>3. N * Pow(from) \in Nat
      BY <1>1, <3>2
    <3> QED  BY <3>1, <3>3
  <2> QED  BY <2>2, <2>3, RegroupedType
<1> HIDE DEF A
<1>5. <<>> \in T
  <2>1. B32!Folded(op, start, <<>>) = start
    BY <1>3, FoldedEmpty
  <2>2. Num(Pow(from), <<>>) = 0
    BY <1>1, NumAppend
  <2>3. from * Len(<<>>) = 0
    OBVIOUS
  <2>4. <<>> \in Seq(V)
    OBVIOUS
  <2> HIDE DEF V
  <2>5. Good(<<>>)
    BY <1>2, <2>1, <2>2, <2>3, Zenon
  <2> HIDE DEF Good
  <2> QED  BY <2>4, <2>5
<1>6. ASSUME NEW s \in Seq(V), NEW v \in V, s \in T PROVE Append(s, v) \in T
  <2>1. Append(s, v) \in Seq(V) /\ Len(Append(s, v)) = Len(s) + 1 /\ Len(s) \in Nat
    OBVIOUS
  <2>2. B32!Folded(op, start, Append(s, v)) = op[B32!Folded(op, start, s)][v]
    <3> HIDE DEF V
    <3> QED  BY <1>3, <1>4, FoldedAppend
  <2>3. Num(Pow(from), s) \in Nat /\ Num(Pow(from), Append(s, v)) = Num(Pow(from), s) * Pow(from) + v
    <3>1. s \in Seq(Nat) /\ v \in Nat
      BY <1>1
    <3> QED  BY <1>1, <3>1, NumAppend
  <2>4. from * Len(s) \in Nat /\ from * Len(Append(s, v)) = from * Len(s) + from
    BY <2>1
  <2>5. Good(s)
    BY <1>6
  <2>6. Regrouped(op[B32!Folded(op, start, s)][v], from * Len(s) + from, Num(Pow(from), s) * Pow(from) + v, to)
    BY <2>3, <2>4, <2>5, TakeOne DEF op
  <2>7. Good(Append(s, v))
    BY <2>2, <2>3, <2>4, <2>6, Zenon
  <2> HIDE DEF Good, V
  <2> QED  BY <2>1, <2>7
<1>7. data \in T
  <2> HIDE DEF T
  <2>1. data \in Seq(V)
    OBVIOUS
  <2> HIDE DEF V
  <2> QED  BY <1>5, <1>6, <2>1, SeqInduction
<1>8. B32!Grouped(data, from, to) = B32!Folded(op, start, data)
  BY DEF B32!Grouped, op, start
<1> QED  BY <1>7, <1>8

\* The bits left over, as the high bits of a group.
LEMMA RestMod ==
    ASSUME NEW acc \in Nat, NEW k \in Int, NEW to \in {5, 8}, NEW b \in 0..(to - 1)
    PROVE  /\ Pow(to) = Pow(b) * Pow(to - b)
           /\ (acc * Pow(to - b) - 32768 * k) % Pow(to) = (acc % Pow(b)) * Pow(to - b)
<1>1. CASE to = 5
  <2>1. Pow(to) = 32 /\ b \in {0, 1, 2, 3, 4}
    BY <1>1, Powers
  <2>2. CASE b = 0
    <3>1. Pow(b) = 1 /\ Pow(to - b) = 32
      BY <1>1, <2>2, Powers
    <3>2. (acc * 32 - 32768 * k) % 32 = (acc % 1) * 32
      OBVIOUS
    <3> QED  BY <2>1, <3>1, <3>2
  <2>3. CASE b = 1
    <3>1. Pow(b) = 2 /\ Pow(to - b) = 16
      BY <1>1, <2>3, Powers
    <3>2. (acc * 16 - 32768 * k) % 32 = (acc % 2) * 16
      OBVIOUS
    <3> QED  BY <2>1, <3>1, <3>2
  <2>4. CASE b = 2
    <3>1. Pow(b) = 4 /\ Pow(to - b) = 8
      BY <1>1, <2>4, Powers
    <3>2. (acc * 8 - 32768 * k) % 32 = (acc % 4) * 8
      OBVIOUS
    <3> QED  BY <2>1, <3>1, <3>2
  <2>5. CASE b = 3
    <3>1. Pow(b) = 8 /\ Pow(to - b) = 4
      BY <1>1, <2>5, Powers
    <3>2. (acc * 4 - 32768 * k) % 32 = (acc % 8) * 4
      OBVIOUS
    <3> QED  BY <2>1, <3>1, <3>2
  <2>6. CASE b = 4
    <3>1. Pow(b) = 16 /\ Pow(to - b) = 2
      BY <1>1, <2>6, Powers
    <3>2. (acc * 2 - 32768 * k) % 32 = (acc % 16) * 2
      OBVIOUS
    <3> QED  BY <2>1, <3>1, <3>2
  <2> QED  BY <2>1, <2>2, <2>3, <2>4, <2>5, <2>6
<1>2. CASE to = 8
  <2>1. Pow(to) = 256 /\ b \in {0, 1, 2, 3, 4, 5, 6, 7}
    BY <1>2, Powers
  <2>2. CASE b = 0
    <3>1. Pow(b) = 1 /\ Pow(to - b) = 256
      BY <1>2, <2>2, Powers
    <3>2. (acc * 256 - 32768 * k) % 256 = (acc % 1) * 256
      OBVIOUS
    <3> QED  BY <2>1, <3>1, <3>2
  <2>3. CASE b = 1
    <3>1. Pow(b) = 2 /\ Pow(to - b) = 128
      BY <1>2, <2>3, Powers
    <3>2. (acc * 128 - 32768 * k) % 256 = (acc % 2) * 128
      OBVIOUS
    <3> QED  BY <2>1, <3>1, <3>2
  <2>4. CASE b = 2
    <3>1. Pow(b) = 4 /\ Pow(to - b) = 64
      BY <1>2, <2>4, Powers
    <3>2. (acc * 64 - 32768 * k) % 256 = (acc % 4) * 64
      OBVIOUS
    <3> QED  BY <2>1, <3>1, <3>2
  <2>5. CASE b = 3
    <3>1. Pow(b) = 8 /\ Pow(to - b) = 32
      BY <1>2, <2>5, Powers
    <3>2. (acc * 32 - 32768 * k) % 256 = (acc % 8) * 32
      OBVIOUS
    <3> QED  BY <2>1, <3>1, <3>2
  <2>6. CASE b = 4
    <3>1. Pow(b) = 16 /\ Pow(to - b) = 16
      BY <1>2, <2>6, Powers
    <3>2. (acc * 16 - 32768 * k) % 256 = (acc % 16) * 16
      OBVIOUS
    <3> QED  BY <2>1, <3>1, <3>2
  <2>7. CASE b = 5
    <3>1. Pow(b) = 32 /\ Pow(to - b) = 8
      BY <1>2, <2>7, Powers
    <3>2. (acc * 8 - 32768 * k) % 256 = (acc % 32) * 8
      OBVIOUS
    <3> QED  BY <2>1, <3>1, <3>2
  <2>8. CASE b = 6
    <3>1. Pow(b) = 64 /\ Pow(to - b) = 4
      BY <1>2, <2>8, Powers
    <3>2. (acc * 4 - 32768 * k) % 256 = (acc % 64) * 4
      OBVIOUS
    <3> QED  BY <2>1, <3>1, <3>2
  <2>9. CASE b = 7
    <3>1. Pow(b) = 128 /\ Pow(to - b) = 2
      BY <1>2, <2>9, Powers
    <3>2. (acc * 2 - 32768 * k) % 256 = (acc % 128) * 2
      OBVIOUS
    <3> QED  BY <2>1, <3>1, <3>2
  <2> QED  BY <2>1, <2>2, <2>3, <2>4, <2>5, <2>6, <2>7, <2>8, <2>9
<1> QED
  BY <1>1, <1>2

\* The last group that encoding pads: the bits that are left, and zeros below them.
LEMMA RestIs ==
    ASSUME NEW to \in {5, 8}, NEW e, NEW n, NEW N, Regrouped(e, n, N, to)
    PROVE  /\ e.bits \in 0..(to - 1) /\ Pow(to) = Pow(e.bits) * Pow(to - e.bits)
           /\ B32!Rest(e, to) = (e.acc % Pow(e.bits)) * Pow(to - e.bits)
<1>1. e.bits \in 0..(to - 1) /\ e.acc \in Nat
  BY DEF Regrouped, Carries
<1> DEFINE by == to - e.bits
           x == B32!Shifted(e.acc, by)
<1>2. SameLowBits(x, e.acc * Pow(by))
  <2>1. by \in 0..8
    BY <1>1
  <2> QED  BY <1>1, <2>1, ShiftedIs
<1>3. B32!Rest(e, to) = x % Pow(to)
  BY DEF B32!Rest, Pow
<1> HIDE DEF x
<1>4. PICK k \in Int : x = e.acc * Pow(by) - 32768 * k
  BY <1>2 DEF SameLowBits
<1>5. Pow(to) = Pow(e.bits) * Pow(by) /\ (e.acc * Pow(by) - 32768 * k) % Pow(to) = (e.acc % Pow(e.bits)) * Pow(by)
  BY <1>1, RestMod
<1> QED  BY <1>1, <1>3, <1>4, <1>5

-----------------------------------------------------------------------------
(* convert_bits, there and back.                                           *)

\* The values of a symbol and of a byte, and the number of a sequence of them.
Quintet == 0..31
Octet   == 0..255

\* Symbols, and bytes, as numbers.
NumS(v) == Num(32, v)
NumB(b) == Num(256, b)

\* The symbols v, less zeros zero bits at their end, are the bytes b.
Encodes(v, b, zeros) ==
    /\ v \in Seq(Quintet) /\ b \in Seq(Octet) /\ zeros \in 0..4
    /\ 5 * Len(v) = 8 * Len(b) + zeros
    /\ NumS(v) = NumB(b) * Pow(zeros)

\* The two sizes of group: symbols of 5 bits, bytes of 8.
LEMMA GroupSizes ==
    /\ Pow(5) = 32 /\ 0..(Pow(5) - 1) = Quintet /\ \A v : Num(Pow(5), v) = NumS(v)
    /\ Pow(8) = 256 /\ 0..(Pow(8) - 1) = Octet /\ \A b : Num(Pow(8), b) = NumB(b)
<1>1. Pow(5) = 32 /\ Pow(8) = 256
  BY Powers
<1>2. 0..(Pow(5) - 1) = Quintet /\ 0..(Pow(8) - 1) = Octet
  BY <1>1 DEF Quintet, Octet
<1>3. (\A v : Num(Pow(5), v) = NumS(v)) /\ (\A b : Num(Pow(8), b) = NumB(b))
  BY <1>1 DEF NumS, NumB
<1> QED  BY <1>1, <1>2, <1>3

\* The entries of a sequence are members of its set.
LEMMA InSeq ==
    ASSUME NEW S, NEW s \in Seq(S)
    PROVE  Len(s) \in Nat /\ DOMAIN s = 1..Len(s) /\ \A i \in DOMAIN s : s[i] \in S
OBVIOUS

\* Bytes have a number.
LEMMA BytesHaveNumbers ==
    ASSUME NEW b \in Seq(Octet)
    PROVE  NumB(b) \in Nat /\ Len(b) \in Nat
<1>1. 8 \in {5, 8} /\ b \in Seq(0..(Pow(8) - 1))
  BY GroupSizes, Zenon
<1>2. Num(Pow(8), b) \in Nat
  BY <1>1, Digits, Zenon
<1> QED  BY <1>2, GroupSizes, InSeq, Zenon

\* Symbols have a number, which one more symbol extends.
LEMMA SymbolsHaveNumbers ==
    ASSUME NEW v \in Seq(Quintet)
    PROVE  /\ NumS(v) \in Nat /\ Len(v) \in Nat
           /\ \A g \in Quintet : /\ Append(v, g) \in Seq(Quintet) /\ Len(Append(v, g)) = Len(v) + 1
                                 /\ NumS(Append(v, g)) = NumS(v) * Pow(5) + g
<1>1. 5 \in {5, 8} /\ v \in Seq(0..(Pow(5) - 1))
  BY GroupSizes, Zenon
<1>2. Num(Pow(5), v) \in Nat
  BY <1>1, Digits, Zenon
<1>3. \A g \in 0..(Pow(5) - 1) :
        /\ Append(v, g) \in Seq(0..(Pow(5) - 1)) /\ Len(Append(v, g)) = Len(v) + 1
        /\ Num(Pow(5), Append(v, g)) = Num(Pow(5), v) * Pow(5) + g
  BY <1>1, Digits, Zenon
<1>4. Len(v) \in Nat
  BY InSeq, Zenon
<1>5. \A x : Num(Pow(5), x) = NumS(x)
  BY GroupSizes, Zenon
<1>6. 0..(Pow(5) - 1) = Quintet
  BY GroupSizes, Zenon
<1> QED  BY <1>2, <1>3, <1>4, <1>5, <1>6, Zenon

\* Sequences of one length with one number are the same.
LEMMA NumbersDiffer ==
    /\ \A s, t \in Seq(Quintet) : Len(s) = Len(t) /\ NumS(s) = NumS(t) => s = t
    /\ \A s, t \in Seq(Octet) : Len(s) = Len(t) /\ NumB(s) = NumB(t) => s = t
<1>1. Quintet = 0..(32 - 1) /\ Octet = 0..(256 - 1)
  BY DEF Quintet, Octet
<1>2. \A s, t \in Seq(0..(32 - 1)) : Len(s) = Len(t) /\ Num(32, s) = Num(32, t) => s = t
  BY SameNum
<1>3. \A s, t \in Seq(0..(256 - 1)) : Len(s) = Len(t) /\ Num(256, s) = Num(256, t) => s = t
  BY SameNum
<1> QED  BY <1>1, <1>2, <1>3 DEF NumS, NumB

\* The groups of both sizes fix each other's number, and what is left.
LEMMA OneSize ==
    ASSUME NEW m \in Nat, NEW n \in Nat, NEW k \in Nat, NEW y \in 0..7, NEW z \in 0..4
    PROVE  /\ y < 5 /\ 5 * m = 8 * k + y /\ 5 * n = 8 * k + z => y = z /\ m = n
           /\ 5 * m = 8 * k + y /\ 5 * m = 8 * n + z => y = z /\ y < 5 /\ k = n
OBVIOUS

\* Nothing but zero is less than a divisor and a multiple of it.
LEMMA OnlyRemainder ==
    ASSUME NEW x \in Nat, NEW y \in Nat, NEW q \in Nat \ {0}, NEW z \in Nat, z < q, x * q = y * q + z
    PROVE  z = 0 /\ x = y
<1>1. (x - y) * q = z /\ x - y \in Int
  OBVIOUS
<1>2. x - y = 0
  <2>1. CASE x - y >= 1
    <3>1. (x - y) * q >= q
      BY <2>1
    <3> QED  BY <1>1, <3>1
  <2>2. CASE x - y <= 0 - 1
    <3>1. (x - y) * q <= 0 - q
      BY <2>2
    <3> QED  BY <1>1, <3>1
  <2> QED  BY <1>1, <2>1, <2>2
<1> QED  BY <1>1, <1>2

\* Bytes have one encoding, and one encoding only encodes them.
LEMMA OneCode ==
    ASSUME NEW v, NEW b, NEW zeros, Encodes(v, b, zeros)
    PROVE  /\ \A x, q : Encodes(x, b, q) => v = x
           /\ \A c, q : Encodes(v, c, q) => b = c
<1>1. v \in Seq(Quintet) /\ b \in Seq(Octet) /\ zeros \in 0..4 /\ Len(v) \in Nat /\ Len(b) \in Nat
      /\ 5 * Len(v) = 8 * Len(b) + zeros /\ NumS(v) = NumB(b) * Pow(zeros)
  BY DEF Encodes
<1>0. zeros \in 0..7 /\ zeros < 5
  BY <1>1
<1>2. ASSUME NEW x, NEW q, Encodes(x, b, q) PROVE v = x
  <2>1. x \in Seq(Quintet) /\ q \in 0..4 /\ Len(x) \in Nat
        /\ 5 * Len(x) = 8 * Len(b) + q /\ NumS(x) = NumB(b) * Pow(q)
    BY <1>2 DEF Encodes
  <2>2. q = zeros /\ Len(x) = Len(v)
    BY <1>0, <1>1, <2>1, OneSize, SMTT(30)
  <2>3. NumS(x) = NumS(v)
    BY <1>1, <2>1, <2>2, Zenon
  <2> QED  BY <1>1, <2>1, <2>2, <2>3, NumbersDiffer, Zenon
<1>3. ASSUME NEW c, NEW q, Encodes(v, c, q) PROVE b = c
  <2>1. c \in Seq(Octet) /\ q \in 0..4 /\ Len(c) \in Nat
        /\ 5 * Len(v) = 8 * Len(c) + q /\ NumS(v) = NumB(c) * Pow(q)
    BY <1>3 DEF Encodes
  <2>2. q = zeros /\ Len(c) = Len(b)
    BY <1>0, <1>1, <2>1, OneSize
  <2>3. NumB(b) \in Nat /\ NumB(c) \in Nat
    BY <1>1, <2>1, BytesHaveNumbers, Zenon
  <2>4. Pow(zeros) \in Nat \ {0}
    <3>1. \A i \in 0..4 : i \in 0..15
      OBVIOUS
    <3> QED  BY <1>1, <3>1, PowerIsPositive, Zenon
  <2>5. \A x, y \in Nat, q1 \in Nat \ {0} : x * q1 = y * q1 => x = y
    OBVIOUS
  <2>6. NumB(c) = NumB(b)
    BY <1>1, <2>1, <2>2, <2>3, <2>4, <2>5, Zenon
  <2> QED  BY <1>1, <2>1, <2>2, <2>6, NumbersDiffer, Zenon
<1> QED  BY <1>2, <1>3

\* What a conversion ends with: groups o, and bits bits that are the number r.
Left(o, bits, r, from, len, N, to) ==
    /\ o \in Seq(0..(Pow(to) - 1)) /\ bits \in 0..(to - 1) /\ r \in Nat /\ r < Pow(bits)
    /\ from * len = to * Len(o) + bits
    /\ N = Num(Pow(to), o) * Pow(bits) + r

\* When convert_bits has read everything, what it put out and the r that is left make up
\* the number that it read.
LEMMA EndIs ==
    ASSUME NEW from \in {5, 8}, NEW to \in {5, 8}, from # to, NEW data \in Seq(0..(Pow(from) - 1)),
           NEW e, e = B32!Grouped(data, from, to)
    PROVE  \E r : /\ Left(e.out, e.bits, r, from, Len(data), Num(Pow(from), data), to)
                  /\ B32!Rest(e, to) = r * Pow(to - e.bits)
<1> DEFINE bits == e.bits
           acc == e.acc
           r == acc % Pow(bits)
           N == Num(Pow(from), data)
           n == from * Len(data)
<1>1. Regrouped(e, n, N, to)
  BY GroupedIs
<1> HIDE DEF N, n
<1>2. B32!Rest(e, to) = r * Pow(to - e.bits)
  BY <1>1, RestIs
<1>3. bits \in 0..(to - 1) /\ acc \in Nat /\ e.out \in Seq(0..(Pow(to) - 1)) /\ n = to * Len(e.out) + bits
      /\ N = Num(Pow(to), e.out) * Pow(bits) + r
  BY <1>1 DEF Regrouped, Carries
<1> HIDE DEF bits, acc
<1>4. Pow(bits) \in Nat \ {0}
  <2>1. \A i \in 0..(to - 1) : i \in 0..15
    OBVIOUS
  <2> QED  BY <1>3, <2>1, PowerIsPositive, Zenon
<1>5. r \in Nat /\ r < Pow(bits)
  <2>1. \A x \in Nat, q \in Nat \ {0} : x % q \in Nat /\ x % q < q
    OBVIOUS
  <2> QED  BY <1>3, <1>4, <2>1, Zenon
<1> HIDE DEF r
<1>6. Left(e.out, e.bits, r, from, Len(data), Num(Pow(from), data), to)
  BY <1>3, <1>5, Zenon DEF Left, bits, N, n
<1> QED  BY <1>2, <1>6, Zenon

\* The bits that are left and the zeros that pad them make up a symbol.
LEMMA SplitPower ==
    ASSUME NEW b \in 0..4
    PROVE  Pow(b) * Pow(5 - b) = Pow(5) /\ Pow(b) \in Nat /\ Pow(5 - b) \in Nat
<1>1. b \in {0, 1, 2, 3, 4} /\ b \in 0..15 /\ 5 - b \in 0..15
  OBVIOUS
<1>2. CASE b = 0
  <2>1. 5 - b = 5
    BY <1>2
  <2> QED  BY <1>2, <2>1, Powers
<1>3. CASE b = 1
  <2>1. 5 - b = 4
    BY <1>3
  <2> QED  BY <1>3, <2>1, Powers
<1>4. CASE b = 2
  <2>1. 5 - b = 3
    BY <1>4
  <2> QED  BY <1>4, <2>1, Powers
<1>5. CASE b = 3
  <2>1. 5 - b = 2
    BY <1>5
  <2> QED  BY <1>5, <2>1, Powers
<1>6. CASE b = 4
  <2>1. 5 - b = 1
    BY <1>6
  <2> QED  BY <1>6, <2>1, Powers
<1>7. Pow(b) * Pow(5 - b) = Pow(5)
  BY <1>1, <1>2, <1>3, <1>4, <1>5, <1>6
<1> QED  BY <1>1, <1>7, PowerIsPositive

\* What is left of bytes, as a last symbol.
LEMMA LastSymbol ==
    ASSUME NEW b \in Seq(Octet), NEW o, NEW bits, NEW r, Left(o, bits, r, 8, Len(b), NumB(b), 5)
    PROVE  /\ bits \in 0..4
           /\ bits = 0 => Encodes(o, b, 0)
           /\ bits # 0 => Encodes(Append(o, r * Pow(5 - bits)), b, 5 - bits)
<1> DEFINE N == NumB(b)
           M == NumS(o)
           k == Len(b)
           m == Len(o)
<1>1. /\ o \in Seq(Quintet) /\ bits \in 0..4 /\ r \in Nat /\ r < Pow(bits)
      /\ 8 * k = 5 * m + bits /\ N = M * Pow(bits) + r
  <2>1. 0..(5 - 1) = 0..4
    OBVIOUS
  <2> QED  BY <2>1, GroupSizes, Zenon DEF Left
<1>2. M \in Nat /\ m \in Nat /\ N \in Nat /\ k \in Nat
  BY <1>1, BytesHaveNumbers, SymbolsHaveNumbers, Zenon
<1>3. ASSUME bits = 0 PROVE Encodes(o, b, 0)
  <2>1. \A x, y, z \in Nat : z < 1 /\ x = y * 1 + z => y = x * 1
    OBVIOUS
  <2>2. \A x, y \in Nat : 8 * x = 5 * y + 0 => 5 * y = 8 * x + 0
    OBVIOUS
  <2>3. Pow(0) = 1 /\ 0 \in 0..4
    BY Powers
  <2>4. M = N * Pow(0) /\ 5 * m = 8 * k + 0
    <3> HIDE DEF M, N, m, k
    <3>1. r < 1 /\ N = M * 1 + r /\ 8 * k = 5 * m + 0
      BY <1>1, <1>3, <2>3, Zenon
    <3>2. M = N * 1
      BY <1>1, <1>2, <2>1, <3>1, Zenon
    <3>3. 5 * m = 8 * k + 0
      BY <1>2, <2>2, <3>1, Zenon
    <3> QED  BY <2>3, <3>2, <3>3, Zenon
  <2> QED  BY <1>1, <2>3, <2>4, Zenon DEF Encodes
<1>4. ASSUME bits # 0 PROVE Encodes(Append(o, r * Pow(5 - bits)), b, 5 - bits)
  <2> DEFINE f == Pow(bits)
             h == Pow(5 - bits)
             g == r * h
  <2>1. f * h = Pow(5) /\ f \in Nat /\ h \in Nat
    BY <1>1, SplitPower, Zenon
  <2>2. 5 - bits \in 0..4 /\ \A x, y \in Nat : 8 * x = 5 * y + bits => 5 * (y + 1) = 8 * x + (5 - bits)
    BY <1>1, <1>4
  <2> HIDE DEF f, h, g, M, N, m, k
  <2>3. g \in Quintet
    <3>1. \A x, y, z \in Nat : x * y = 32 /\ z < x => z * y \in 0..31
      <4> SUFFICES ASSUME NEW x \in Nat, NEW y \in Nat, NEW z \in Nat, x * y = 32, z < x PROVE z * y \in 0..31
        OBVIOUS
      <4>1. z + 1 <= x /\ y # 0
        OBVIOUS
      <4>2. (z + 1) * y <= x * y
        BY <4>1
      <4>3. (z + 1) * y = z * y + y /\ z * y \in Nat
        OBVIOUS
      <4> QED  BY <4>1, <4>2, <4>3
    <3>2. \A x, y, z \in Nat : x * y = Pow(5) /\ z < x => z * y \in Quintet
      BY <3>1, GroupSizes DEF Quintet
    <3> QED  BY <1>1, <2>1, <3>2, Zenon DEF g, f
  <2>4. /\ Append(o, g) \in Seq(Quintet) /\ Len(Append(o, g)) = m + 1
        /\ NumS(Append(o, g)) = M * Pow(5) + g
    BY <1>1, <2>3, SymbolsHaveNumbers, Zenon DEF m, M
  <2>5. M * Pow(5) + g = N * h
    <3>2. M \in Nat /\ f \in Nat /\ h \in Nat /\ r \in Nat
      BY <1>1, <1>2, <2>1, Zenon
    <3>3. M * (f * h) + r * h = (M * f + r) * h
      BY <3>2
    <3> QED  BY <1>1, <2>1, <3>3, Zenon DEF g, f
  <2>6. 5 * Len(Append(o, g)) = 8 * k + (5 - bits)
    BY <1>1, <1>2, <2>2, <2>4, Zenon
  <2>7. NumS(Append(o, g)) = NumB(b) * Pow(5 - bits)
    BY <2>4, <2>5, Zenon DEF N, h
  <2> QED  BY <2>2, <2>4, <2>6, <2>7, Zenon DEF Encodes, g, h, k
<1> QED  BY <1>1, <1>3, <1>4, Zenon

\* encode: bytes have an encoding, and convert_bits finds it.
LEMMA EncodedBytes ==
    ASSUME NEW b \in Seq(Octet)
    PROVE  \E v, zeros : B32!convert_bits(b, 8, 5, TRUE) = {v} /\ Encodes(v, b, zeros)
<1> DEFINE e == B32!Grouped(b, 8, 5)
<1>1. PICK r : Left(e.out, e.bits, r, 8, Len(b), NumB(b), 5) /\ B32!Rest(e, 5) = r * Pow(5 - e.bits)
  <2>1. b \in Seq(0..(Pow(8) - 1)) /\ NumB(b) = Num(Pow(8), b)
    BY GroupSizes, Zenon
  <2>2. \A x \in Seq(0..(Pow(8) - 1)) : \E r :
            /\ Left(B32!Grouped(x, 8, 5).out, B32!Grouped(x, 8, 5).bits, r, 8, Len(x), Num(Pow(8), x), 5)
            /\ B32!Rest(B32!Grouped(x, 8, 5), 5) = r * Pow(5 - B32!Grouped(x, 8, 5).bits)
    BY EndIs
  <2> QED  BY <2>1, <2>2, Zenon
<1>2. ~\E i \in DOMAIN b : b[i] >= 2^8
  <2>1. \A i \in DOMAIN b : b[i] \in Octet
    BY InSeq, Zenon
  <2>2. \A y \in Octet : ~(y >= 2^8)
    BY DEF Octet
  <2> QED  BY <2>1, <2>2, Zenon
<1> HIDE DEF e
<1>3. /\ e.bits \in 0..4
      /\ e.bits = 0 => Encodes(e.out, b, 0)
      /\ e.bits # 0 => Encodes(Append(e.out, B32!Rest(e, 5)), b, 5 - e.bits)
  BY <1>1, LastSymbol, Zenon
<1>4. CASE e.bits = 0
  <2>1. ~(e.bits > 0)
    BY <1>4
  <2>2. B32!convert_bits(b, 8, 5, TRUE) = {e.out}
    BY <1>2, <2>1, Zenon DEF B32!convert_bits, B32!Ok, e
  <2> QED  BY <1>3, <1>4, <2>2, Zenon
<1>5. CASE e.bits # 0
  <2>1. e.bits > 0
    <3>1. \A x \in 0..4 : x # 0 => x > 0
      OBVIOUS
    <3> QED  BY <1>3, <1>5, <3>1, Zenon
  <2>2. B32!convert_bits(b, 8, 5, TRUE) = {Append(e.out, B32!Rest(e, 5))}
    BY <1>2, <2>1, Zenon DEF B32!convert_bits, B32!Ok, e
  <2> QED  BY <1>3, <1>5, <2>2, Zenon
<1> QED  BY <1>4, <1>5, Zenon

\* What is left of symbols must be fewer than 5 bits, and zero.
LEMMA LastByte ==
    ASSUME NEW v \in Seq(Quintet), NEW o, NEW bits, NEW r, Left(o, bits, r, 5, Len(v), NumS(v), 8)
    PROVE  /\ bits \in 0..7 /\ r \in Nat
           /\ bits < 5 /\ r = 0 => Encodes(v, o, bits)
           /\ (\E b, zeros : Encodes(v, b, zeros)) => bits < 5 /\ r = 0
<1> DEFINE N == NumS(v)
           M == NumB(o)
           k == Len(v)
           m == Len(o)
<1>1. /\ o \in Seq(Octet) /\ bits \in 0..7 /\ r \in Nat /\ r < Pow(bits)
      /\ 5 * k = 8 * m + bits /\ N = M * Pow(bits) + r
  <2>1. 0..(8 - 1) = 0..7
    OBVIOUS
  <2> QED  BY <2>1, GroupSizes, Zenon DEF Left
<1>2. M \in Nat /\ m \in Nat /\ N \in Nat /\ k \in Nat
  BY <1>1, BytesHaveNumbers, SymbolsHaveNumbers, Zenon
<1>3. Pow(bits) \in Nat \ {0}
  <2>1. \A i \in 0..7 : i \in 0..15
    OBVIOUS
  <2> QED  BY <1>1, <2>1, PowerIsPositive, Zenon
<1>4. ASSUME bits < 5, r = 0 PROVE Encodes(v, o, bits)
  <2>1. \A x, y \in Nat : x * y + 0 = x * y
    OBVIOUS
  <2>2. N = M * Pow(bits)
    <3> HIDE DEF N, M
    <3>1. Pow(bits) \in Nat
      BY <1>3, Zenon
    <3> QED  BY <1>1, <1>2, <1>4, <2>1, <3>1, Zenon
  <2>3. bits \in 0..4
    BY <1>1, <1>4
  <2> QED  BY <1>1, <2>2, <2>3, Zenon DEF Encodes
<1>5. ASSUME NEW b, NEW zeros, Encodes(v, b, zeros) PROVE bits < 5 /\ r = 0
  <2>1. /\ zeros \in 0..4 /\ b \in Seq(Octet) /\ 5 * k = 8 * Len(b) + zeros /\ N = NumB(b) * Pow(zeros)
    BY <1>5, Zenon DEF Encodes
  <2>2. Len(b) \in Nat /\ NumB(b) \in Nat
    BY <2>1, BytesHaveNumbers, Zenon
  <2> HIDE DEF N, M, m, k
  <2>4. bits = zeros /\ bits < 5
    <3>1. k \in Nat /\ m \in Nat /\ Len(b) \in Nat /\ bits \in 0..7 /\ zeros \in 0..4
          /\ 5 * k = 8 * m + bits /\ 5 * k = 8 * Len(b) + zeros
      BY <1>1, <1>2, <2>1, <2>2, Zenon
    <3> QED  BY <3>1, OneSize
  <2>5. r = 0
    BY <1>1, <1>2, <1>3, <2>1, <2>2, <2>4, OnlyRemainder, Zenon
  <2> QED  BY <2>4, <2>5
<1> QED  BY <1>1, <1>4, <1>5, Zenon

\* decode: convert_bits gives the bytes that symbols encode, or nothing when they
\* encode none.
LEMMA DecodedValues ==
    ASSUME NEW v \in Seq(Quintet)
    PROVE  \/ \E b, zeros : B32!convert_bits(v, 5, 8, FALSE) = {b} /\ Encodes(v, b, zeros)
           \/ B32!convert_bits(v, 5, 8, FALSE) = {} /\ \A b, zeros : ~Encodes(v, b, zeros)
<1> DEFINE e == B32!Grouped(v, 5, 8)
<1>1. PICK r : Left(e.out, e.bits, r, 5, Len(v), NumS(v), 8) /\ B32!Rest(e, 8) = r * Pow(8 - e.bits)
  <2>1. v \in Seq(0..(Pow(5) - 1)) /\ NumS(v) = Num(Pow(5), v)
    BY GroupSizes, Zenon
  <2>2. \A x \in Seq(0..(Pow(5) - 1)) : \E r :
            /\ Left(B32!Grouped(x, 5, 8).out, B32!Grouped(x, 5, 8).bits, r, 5, Len(x), Num(Pow(5), x), 8)
            /\ B32!Rest(B32!Grouped(x, 5, 8), 8) = r * Pow(8 - B32!Grouped(x, 5, 8).bits)
    BY EndIs
  <2> QED  BY <2>1, <2>2, Zenon
<1>2. ~\E i \in DOMAIN v : v[i] >= 2^5
  <2>1. \A i \in DOMAIN v : v[i] \in Quintet
    BY InSeq, Zenon
  <2>2. \A y \in Quintet : ~(y >= 2^5)
    BY DEF Quintet
  <2> QED  BY <2>1, <2>2, Zenon
<1> HIDE DEF e
<1>3. /\ e.bits \in 0..7 /\ r \in Nat
      /\ e.bits < 5 /\ r = 0 => Encodes(v, e.out, e.bits)
      /\ (\E b, zeros : Encodes(v, b, zeros)) => e.bits < 5 /\ r = 0
  BY <1>1, LastByte
<1>4. B32!Rest(e, 8) = 0 <=> r = 0
  <2>1. \A x \in Nat, q \in Nat \ {0} : x * q = 0 <=> x = 0
    OBVIOUS
  <2>2. Pow(8 - e.bits) \in Nat \ {0}
    <3>1. \A i \in 0..7 : 8 - i \in 0..15
      OBVIOUS
    <3> QED  BY <1>3, <3>1, PowerIsPositive, Zenon
  <2> QED  BY <1>1, <1>3, <2>1, <2>2, Zenon
<1>5. e.bits >= 5 <=> ~(e.bits < 5)
  <2>1. \A x \in 0..7 : x >= 5 <=> ~(x < 5)
    OBVIOUS
  <2> QED  BY <1>3, <2>1, Zenon
<1>6. CASE e.bits < 5 /\ r = 0
  <2>1. B32!convert_bits(v, 5, 8, FALSE) = {e.out}
    <3>1. ~(e.bits >= 5 \/ B32!Rest(e, 8) # 0)
      BY <1>4, <1>5, <1>6, Zenon
    <3> QED  BY <1>2, <3>1, Zenon DEF B32!convert_bits, B32!Ok, e
  <2> QED  BY <1>3, <1>6, <2>1, Zenon
<1>7. CASE ~(e.bits < 5 /\ r = 0)
  <2>1. B32!convert_bits(v, 5, 8, FALSE) = {}
    <3>1. e.bits >= 5 \/ B32!Rest(e, 8) # 0
      BY <1>4, <1>5, <1>7, Zenon
    <3> QED  BY <1>2, <3>1, Zenon DEF B32!convert_bits, B32!Err, e
  <2> QED  BY <1>3, <1>7, <2>1, Zenon
<1> QED  BY <1>6, <1>7, Zenon

-----------------------------------------------------------------------------
(* The exclusive or of symbols, bit by bit.                                *)

\* The exclusive or of two symbols.
X(a, b) == B32!Xor5[a][b]

\* The bits of a number, lowest first.
LEMMA BitIs ==
    ASSUME NEW a \in Nat
    PROVE  /\ B32!Bit(a, 0) = a % 2 /\ B32!Bit(a, 1) = (a \div 2) % 2 /\ B32!Bit(a, 2) = (a \div 4) % 2
           /\ B32!Bit(a, 3) = (a \div 8) % 2 /\ B32!Bit(a, 4) = (a \div 16) % 2
<1>1. a \div 1 = a
  OBVIOUS
<1>2. 2^0 = 1 /\ 2^1 = 2 /\ 2^2 = 4 /\ 2^3 = 8 /\ 2^4 = 16
  OBVIOUS
<1> QED  BY <1>1, <1>2 DEF B32!Bit

\* A bit is 0 or 1.
LEMMA BitType ==
    ASSUME NEW a \in Quintet, NEW i \in 0..4
    PROVE  B32!Bit(a, i) \in {0, 1}
<1>1. i \in {0, 1, 2, 3, 4} /\ a \in Nat
  BY DEF Quintet
<1>2. a % 2 \in {0, 1} /\ (a \div 2) % 2 \in {0, 1} /\ (a \div 4) % 2 \in {0, 1}
      /\ (a \div 8) % 2 \in {0, 1} /\ (a \div 16) % 2 \in {0, 1}
  BY <1>1
<1> QED  BY <1>1, <1>2, BitIs

\* The symbol of five bits.
FromBits(b0, b1, b2, b3, b4) == b0 + (b1 * 2) + (b2 * 4) + (b3 * 8) + (b4 * 16)

\* A number made from five bits is a symbol with those bits.
LEMMA BitsOf ==
    ASSUME NEW b0 \in {0, 1}, NEW b1 \in {0, 1}, NEW b2 \in {0, 1}, NEW b3 \in {0, 1}, NEW b4 \in {0, 1},
           NEW n, n = FromBits(b0, b1, b2, b3, b4)
    PROVE  /\ n \in Quintet /\ B32!Bit(n, 0) = b0 /\ B32!Bit(n, 1) = b1 /\ B32!Bit(n, 2) = b2
           /\ B32!Bit(n, 3) = b3 /\ B32!Bit(n, 4) = b4
<1>1. n \in 0..31 /\ n \in Nat
  BY DEF FromBits
<1>2. n % 2 = b0 /\ (n \div 2) % 2 = b1 /\ (n \div 4) % 2 = b2 /\ (n \div 8) % 2 = b3 /\ (n \div 16) % 2 = b4
  BY DEF FromBits
<1> QED  BY <1>1, <1>2, BitIs DEF Quintet

\* Symbols with the same bits are the same.
LEMMA SameBits ==
    ASSUME NEW a \in Quintet, NEW b \in Quintet, \A i \in 0..4 : B32!Bit(a, i) = B32!Bit(b, i)
    PROVE  a = b
<1>1. a \in 0..31 /\ b \in 0..31 /\ a \in Nat /\ b \in Nat
  BY DEF Quintet
<1>2. /\ a % 2 = b % 2 /\ (a \div 2) % 2 = (b \div 2) % 2 /\ (a \div 4) % 2 = (b \div 4) % 2
      /\ (a \div 8) % 2 = (b \div 8) % 2 /\ (a \div 16) % 2 = (b \div 16) % 2
  <2>1. 0 \in 0..4 /\ 1 \in 0..4 /\ 2 \in 0..4 /\ 3 \in 0..4 /\ 4 \in 0..4
    OBVIOUS
  <2>2. /\ B32!Bit(a, 0) = B32!Bit(b, 0) /\ B32!Bit(a, 1) = B32!Bit(b, 1) /\ B32!Bit(a, 2) = B32!Bit(b, 2)
        /\ B32!Bit(a, 3) = B32!Bit(b, 3) /\ B32!Bit(a, 4) = B32!Bit(b, 4)
    BY <2>1, Zenon
  <2>3. /\ B32!Bit(a, 0) = a % 2 /\ B32!Bit(a, 1) = (a \div 2) % 2 /\ B32!Bit(a, 2) = (a \div 4) % 2
        /\ B32!Bit(a, 3) = (a \div 8) % 2 /\ B32!Bit(a, 4) = (a \div 16) % 2
    BY <1>1, BitIs
  <2>4. /\ B32!Bit(b, 0) = b % 2 /\ B32!Bit(b, 1) = (b \div 2) % 2 /\ B32!Bit(b, 2) = (b \div 4) % 2
        /\ B32!Bit(b, 3) = (b \div 8) % 2 /\ B32!Bit(b, 4) = (b \div 16) % 2
    BY <1>1, BitIs
  <2> QED  BY <2>2, <2>3, <2>4
<1>3. ASSUME NEW n \in 0..31
      PROVE  n = (n % 2) + 2 * ((n \div 2) % 2) + 4 * ((n \div 4) % 2) + 8 * ((n \div 8) % 2) + 16 * ((n \div 16) % 2)
  OBVIOUS
<1> QED  BY <1>1, <1>2, <1>3

\* The exclusive or of two bits.
Plus(u, v) == (u + v) % 2

\* The exclusive or of symbols is that of their bits.
LEMMA XorBits ==
    ASSUME NEW a \in Quintet, NEW b \in Quintet
    PROVE  X(a, b) \in Quintet /\ \A i \in 0..4 : B32!Bit(X(a, b), i) = Plus(B32!Bit(a, i), B32!Bit(b, i))
<1> DEFINE y(i) == Plus(B32!Bit(a, i), B32!Bit(b, i))
<1>1. \A i \in 0..4 : y(i) \in {0, 1}
  <2>1. \A u, v \in {0, 1} : Plus(u, v) \in {0, 1}
    BY SMTT(60) DEF Plus
  <2> QED  BY <2>1, BitType
<1>2. X(a, b) = y(0) * 2^0 + y(1) * 2^1 + y(2) * 2^2 + y(3) * 2^3 + y(4) * 2^4
  <2>1. a \in 0..31 /\ b \in 0..31
    BY DEF Quintet
  <2> QED  BY <2>1 DEF X, B32!Xor5, Plus
<1>3. y(0) \in {0, 1} /\ y(1) \in {0, 1} /\ y(2) \in {0, 1} /\ y(3) \in {0, 1} /\ y(4) \in {0, 1}
  <2>1. 0 \in 0..4 /\ 1 \in 0..4 /\ 2 \in 0..4 /\ 3 \in 0..4 /\ 4 \in 0..4
    OBVIOUS
  <2> QED  BY <1>1, <2>1, Zenon
<1> HIDE DEF y
<1>4. X(a, b) = FromBits(y(0), y(1), y(2), y(3), y(4))
  BY <1>2, <1>3 DEF FromBits
<1>5. \A i \in 0..4 : i \in {0, 1, 2, 3, 4}
  OBVIOUS
<1>6. /\ X(a, b) \in Quintet /\ B32!Bit(X(a, b), 0) = y(0) /\ B32!Bit(X(a, b), 1) = y(1)
      /\ B32!Bit(X(a, b), 2) = y(2) /\ B32!Bit(X(a, b), 3) = y(3) /\ B32!Bit(X(a, b), 4) = y(4)
  BY <1>3, <1>4, BitsOf
<1>7. \A i \in 0..4 : B32!Bit(X(a, b), i) = y(i)
  BY <1>5, <1>6, Zenon
<1> QED  BY <1>6, <1>7 DEF y

\* Symbols with exclusive or are a group in which every symbol is its own inverse.
LEMMA XorLaws ==
    /\ \A a, b \in Quintet : X(a, b) \in Quintet
    /\ \A a, b, c \in Quintet : X(a, X(b, c)) = X(X(a, b), c)
    /\ \A a \in Quintet : X(a, 0) = a /\ X(0, a) = a /\ X(a, a) = 0
    /\ 0 \in Quintet
<1>0. 0 \in Quintet
  BY DEF Quintet
<1>1. \A a, b \in Quintet : X(a, b) \in Quintet
  BY XorBits, Zenon
<1>2. ASSUME NEW a \in Quintet, NEW b \in Quintet, NEW c \in Quintet
      PROVE  X(a, X(b, c)) = X(X(a, b), c)
  <2>1. \A u, v, z \in {0, 1} : Plus(u, Plus(v, z)) = Plus(Plus(u, v), z)
    BY DEF Plus
  <2>2. X(b, c) \in Quintet /\ X(a, b) \in Quintet /\ X(a, X(b, c)) \in Quintet /\ X(X(a, b), c) \in Quintet
    BY <1>1
  <2>3. ASSUME NEW i \in 0..4 PROVE B32!Bit(X(a, X(b, c)), i) = B32!Bit(X(X(a, b), c), i)
    <3>1. /\ B32!Bit(X(b, c), i) = Plus(B32!Bit(b, i), B32!Bit(c, i))
          /\ B32!Bit(X(a, b), i) = Plus(B32!Bit(a, i), B32!Bit(b, i))
          /\ B32!Bit(X(a, X(b, c)), i) = Plus(B32!Bit(a, i), B32!Bit(X(b, c), i))
          /\ B32!Bit(X(X(a, b), c), i) = Plus(B32!Bit(X(a, b), i), B32!Bit(c, i))
      BY <2>2, XorBits
    <3>2. B32!Bit(a, i) \in {0, 1} /\ B32!Bit(b, i) \in {0, 1} /\ B32!Bit(c, i) \in {0, 1}
      BY BitType
    <3> QED  BY <2>1, <3>1, <3>2
  <2> QED  BY <2>2, <2>3, SameBits
<1>3. ASSUME NEW a \in Quintet PROVE X(a, 0) = a /\ X(0, a) = a /\ X(a, a) = 0
  <2>1. \A u \in {0, 1} : Plus(u, 0) = u /\ Plus(0, u) = u /\ Plus(u, u) = 0
    BY DEF Plus
  <2>2. \A i \in 0..4 : B32!Bit(0, i) = 0
    <3>1. \A i \in 0..4 : i \in {0, 1, 2, 3, 4}
      OBVIOUS
    <3>2. 0 \in Nat /\ 0 % 2 = 0 /\ 0 \div 2 = 0 /\ 0 \div 4 = 0 /\ 0 \div 8 = 0 /\ 0 \div 16 = 0
      OBVIOUS
    <3>3. B32!Bit(0, 0) = 0 /\ B32!Bit(0, 1) = 0 /\ B32!Bit(0, 2) = 0 /\ B32!Bit(0, 3) = 0 /\ B32!Bit(0, 4) = 0
      BY <3>2, BitIs
    <3> QED  BY <3>1, <3>3, Zenon
  <2>3. \A i \in 0..4 : B32!Bit(a, i) \in {0, 1}
    BY BitType, Zenon
  <2>4. \A i \in 0..4 : /\ B32!Bit(X(a, 0), i) = B32!Bit(a, i) /\ B32!Bit(X(0, a), i) = B32!Bit(a, i)
                        /\ B32!Bit(X(a, a), i) = B32!Bit(0, i)
    BY <1>0, <2>1, <2>2, <2>3, XorBits
  <2>5. X(a, 0) \in Quintet /\ X(0, a) \in Quintet /\ X(a, a) \in Quintet
    BY <1>0, <1>1
  <2> QED  BY <1>0, <2>4, <2>5, SameBits
<1> QED  BY <1>0, <1>1, <1>2, <1>3

\* A symbol can be cancelled on either side of an exclusive or.
LEMMA XorCancels ==
    ASSUME NEW a \in Quintet, NEW b \in Quintet, NEW c \in Quintet
    PROVE  /\ X(a, b) = X(a, c) => b = c
           /\ X(b, a) = X(c, a) => b = c
<1>1. /\ X(a, X(a, b)) = X(X(a, a), b) /\ X(a, X(a, c)) = X(X(a, a), c)
      /\ X(X(b, a), a) = X(b, X(a, a)) /\ X(X(c, a), a) = X(c, X(a, a))
  BY XorLaws
<1>2. X(a, a) = 0 /\ X(0, b) = b /\ X(0, c) = c /\ X(b, 0) = b /\ X(c, 0) = c
  BY XorLaws
<1> QED  BY <1>1, <1>2

-----------------------------------------------------------------------------
(* The checksum.                                                           *)

\* The states of the checksum.
State == {c \in Seq(Quintet) : Len(c) = 6}

\* A state of the checksum is its six symbols.
LEMMA StateIs ==
    ASSUME NEW c \in State
    PROVE  /\ c \in Seq(Quintet) /\ Len(c) = 6 /\ c = <<c[1], c[2], c[3], c[4], c[5], c[6]>>
           /\ c[1] \in Quintet /\ c[2] \in Quintet /\ c[3] \in Quintet
           /\ c[4] \in Quintet /\ c[5] \in Quintet /\ c[6] \in Quintet
<1>1. c \in Seq(Quintet) /\ Len(c) = 6
  BY DEF State
<1>2. DOMAIN c = 1..6 /\ \A i \in 1..6 : c[i] \in Quintet
  BY <1>1, InSeq
<1>3. c[1] \in Quintet /\ c[2] \in Quintet /\ c[3] \in Quintet /\ c[4] \in Quintet /\ c[5] \in Quintet /\ c[6] \in Quintet
  BY <1>2
<1>4. c = <<c[1], c[2], c[3], c[4], c[5], c[6]>>
  BY <1>1
<1> QED  BY <1>1, <1>3, <1>4

\* Six symbols are a state.
LEMMA MakeState ==
    ASSUME NEW c1 \in Quintet, NEW c2 \in Quintet, NEW c3 \in Quintet,
           NEW c4 \in Quintet, NEW c5 \in Quintet, NEW c6 \in Quintet
    PROVE  <<c1, c2, c3, c4, c5, c6>> \in State
BY DEF State

\* The start of the checksum, 1, and the generators are states.
LEMMA WordType ==
    ASSUME NEW n \in Nat
    PROVE  /\ B32!Word(n) \in State /\ B32!Word(n)[6] = n % 32
<1>1. 32^0 = 1 /\ 32^1 = 32 /\ 32^2 = 1024 /\ 32^3 = 32768 /\ 32^4 = 1048576 /\ 32^5 = 33554432
  OBVIOUS
<1> DEFINE c(k) == (n \div 32^(6 - k)) % 32
<1>2. B32!Word(n) = [k \in 1..6 |-> c(k)]
  BY DEF B32!Word
<1>3. /\ c(6) = (n \div 1) % 32 /\ c(5) = (n \div 32) % 32 /\ c(4) = (n \div 1024) % 32
      /\ c(3) = (n \div 32768) % 32 /\ c(2) = (n \div 1048576) % 32 /\ c(1) = (n \div 33554432) % 32
  BY <1>1
<1>4. /\ (n \div 1) % 32 = n % 32 /\ (n \div 1) % 32 \in Quintet /\ (n \div 32) % 32 \in Quintet
      /\ (n \div 1024) % 32 \in Quintet /\ (n \div 32768) % 32 \in Quintet
      /\ (n \div 1048576) % 32 \in Quintet /\ (n \div 33554432) % 32 \in Quintet
  BY DEF Quintet
<1> HIDE DEF c
<1>5. B32!Word(n) = <<c(1), c(2), c(3), c(4), c(5), c(6)>>
  BY <1>2
<1>6. B32!Word(n) \in State
  BY <1>3, <1>4, <1>5, MakeState, SMTT(60)
<1>7. B32!Word(n)[6] = c(6)
  BY <1>2
<1> QED  BY <1>3, <1>4, <1>6, <1>7

\* The five generators, and the lowest symbol of each: no combination of these five
\* symbols is 0.
LEMMA Generators ==
    /\ B32!GENERATOR[1] \in State /\ B32!GENERATOR[1][6] = 18
    /\ B32!GENERATOR[2] \in State /\ B32!GENERATOR[2][6] = 13
    /\ B32!GENERATOR[3] \in State /\ B32!GENERATOR[3][6] = 26
    /\ B32!GENERATOR[4] \in State /\ B32!GENERATOR[4][6] = 29
    /\ B32!GENERATOR[5] \in State /\ B32!GENERATOR[5][6] = 19
<1>1. /\ B32!GENERATOR[1] = B32!Word(996825010) /\ B32!GENERATOR[2] = B32!Word(642813549)
      /\ B32!GENERATOR[3] = B32!Word(513874426) /\ B32!GENERATOR[4] = B32!Word(1027748829)
      /\ B32!GENERATOR[5] = B32!Word(705979059)
  BY DEF B32!GENERATOR
<1>2. 996825010 % 32 = 18 /\ 642813549 % 32 = 13 /\ 513874426 % 32 = 26 /\ 1027748829 % 32 = 29 /\ 705979059 % 32 = 19
  OBVIOUS
<1>3. 996825010 \in Nat /\ 642813549 \in Nat /\ 513874426 \in Nat /\ 1027748829 \in Nat /\ 705979059 \in Nat
  OBVIOUS
<1> QED  BY <1>1, <1>2, <1>3, WordType

\* What generator i adds to symbol k of the feedback of a top symbol.
Part(top, i, k) == IF B32!Bit(top, i - 1) = 1 THEN B32!GENERATOR[i][k] ELSE 0

\* Symbol k of the feedback of a top symbol.
FeedbackSymbol(top, k) ==
    X(Part(top, 1, k), X(Part(top, 2, k), X(Part(top, 3, k), X(Part(top, 4, k), Part(top, 5, k)))))

\* The feedback of a top symbol is a state, symbol by symbol.
LEMMA FeedbackIs ==
    ASSUME NEW top \in Quintet
    PROVE  /\ B32!Feedback[top] = <<FeedbackSymbol(top, 1), FeedbackSymbol(top, 2), FeedbackSymbol(top, 3),
                                    FeedbackSymbol(top, 4), FeedbackSymbol(top, 5), FeedbackSymbol(top, 6)>>
           /\ B32!Feedback[top] \in State
<1>1. top \in 0..31
  BY DEF Quintet
<1>2. B32!Feedback[top] = <<FeedbackSymbol(top, 1), FeedbackSymbol(top, 2), FeedbackSymbol(top, 3),
                            FeedbackSymbol(top, 4), FeedbackSymbol(top, 5), FeedbackSymbol(top, 6)>>
  BY <1>1 DEF B32!Feedback, FeedbackSymbol, Part, X
<1>3. ASSUME NEW k \in 1..6 PROVE FeedbackSymbol(top, k) \in Quintet
  <2>1. ASSUME NEW c \in State PROVE c[k] \in Quintet
    BY InSeq DEF State
  <2>2. /\ B32!GENERATOR[1][k] \in Quintet /\ B32!GENERATOR[2][k] \in Quintet /\ B32!GENERATOR[3][k] \in Quintet
        /\ B32!GENERATOR[4][k] \in Quintet /\ B32!GENERATOR[5][k] \in Quintet
    BY <2>1, Generators, Zenon
  <2>3. /\ Part(top, 1, k) \in Quintet /\ Part(top, 2, k) \in Quintet /\ Part(top, 3, k) \in Quintet
        /\ Part(top, 4, k) \in Quintet /\ Part(top, 5, k) \in Quintet
    BY <2>2, XorLaws, Zenon DEF Part
  <2> QED  BY <2>3, XorLaws, Zenon DEF FeedbackSymbol
<1>4. 1 \in 1..6 /\ 2 \in 1..6 /\ 3 \in 1..6 /\ 4 \in 1..6 /\ 5 \in 1..6 /\ 6 \in 1..6
  OBVIOUS
<1>5. B32!Feedback[top] \in State
  BY <1>2, <1>3, <1>4, MakeState
<1> QED  BY <1>2, <1>5

\* The last symbol of the feedback tells the top symbol: the five generators end in
\* symbols that are independent of each other.
LEMMA FeedbackTells ==
    ASSUME NEW top \in Quintet, NEW other \in Quintet, B32!Feedback[top][6] = B32!Feedback[other][6]
    PROVE  top = other
<1>1. ASSUME NEW t \in Quintet
      PROVE  LET e(i) == B32!Bit(B32!Feedback[t][6], i)
                 b(i) == B32!Bit(t, i)
             IN  /\ e(0) = (b(1) + b(3) + b(4)) % 2
                 /\ e(1) = (b(0) + b(2) + b(4)) % 2
                 /\ e(2) = (b(1) + b(3)) % 2
                 /\ e(3) = (b(1) + b(2) + b(3)) % 2
                 /\ e(4) = (b(0) + b(2) + b(3) + b(4)) % 2
  <2> DEFINE g(j) == Part(t, j, 6)
             b(i) == B32!Bit(t, i)
  <2>1. /\ g(1) = IF b(0) = 1 THEN 18 ELSE 0
        /\ g(2) = IF b(1) = 1 THEN 13 ELSE 0
        /\ g(3) = IF b(2) = 1 THEN 26 ELSE 0
        /\ g(4) = IF b(3) = 1 THEN 29 ELSE 0
        /\ g(5) = IF b(4) = 1 THEN 19 ELSE 0
    BY Generators DEF Part
  <2>2. b(0) \in {0, 1} /\ b(1) \in {0, 1} /\ b(2) \in {0, 1} /\ b(3) \in {0, 1} /\ b(4) \in {0, 1}
    BY BitType
  <2>3. B32!Feedback[t][6] = X(g(1), X(g(2), X(g(3), X(g(4), g(5)))))
    BY FeedbackIs DEF FeedbackSymbol
  <2> HIDE DEF g, b
  <2>4. g(1) \in Quintet /\ g(2) \in Quintet /\ g(3) \in Quintet /\ g(4) \in Quintet /\ g(5) \in Quintet
    BY <2>1 DEF Quintet
  <2>5. ASSUME NEW i \in 0..4
        PROVE  B32!Bit(B32!Feedback[t][6], i) =
                 Plus(B32!Bit(g(1), i), Plus(B32!Bit(g(2), i), Plus(B32!Bit(g(3), i), Plus(B32!Bit(g(4), i), B32!Bit(g(5), i)))))
    <3>1. /\ X(g(4), g(5)) \in Quintet /\ X(g(3), X(g(4), g(5))) \in Quintet
          /\ X(g(2), X(g(3), X(g(4), g(5)))) \in Quintet
      BY <2>4, XorLaws
    <3>2. B32!Bit(X(g(4), g(5)), i) = Plus(B32!Bit(g(4), i), B32!Bit(g(5), i))
      BY <2>4, XorBits
    <3>3. B32!Bit(X(g(3), X(g(4), g(5))), i) = Plus(B32!Bit(g(3), i), B32!Bit(X(g(4), g(5)), i))
      BY <2>4, <3>1, XorBits
    <3>4. B32!Bit(X(g(2), X(g(3), X(g(4), g(5)))), i) = Plus(B32!Bit(g(2), i), B32!Bit(X(g(3), X(g(4), g(5))), i))
      BY <2>4, <3>1, XorBits
    <3>5. B32!Bit(B32!Feedback[t][6], i) = Plus(B32!Bit(g(1), i), B32!Bit(X(g(2), X(g(3), X(g(4), g(5)))), i))
      BY <2>3, <2>4, <3>1, XorBits
    <3> QED  BY <3>2, <3>3, <3>4, <3>5
  <2>6. B32!Bit(B32!Feedback[t][6], 0) = (b(1) + b(3) + b(4)) % 2
    <3>1. B32!Bit(g(1), 0) = 0 /\ B32!Bit(g(2), 0) = b(1) /\ B32!Bit(g(3), 0) = 0
          /\ B32!Bit(g(4), 0) = b(3) /\ B32!Bit(g(5), 0) = b(4)
      BY <2>1, <2>2, BitIs
    <3>2. B32!Bit(B32!Feedback[t][6], 0) =
            Plus(B32!Bit(g(1), 0), Plus(B32!Bit(g(2), 0), Plus(B32!Bit(g(3), 0), Plus(B32!Bit(g(4), 0), B32!Bit(g(5), 0)))))
      <4>1. 0 \in 0..4
        OBVIOUS
      <4> QED  BY <4>1, <2>5, Zenon
    <3> QED  BY <2>2, <3>1, <3>2 DEF Plus
  <2>7. B32!Bit(B32!Feedback[t][6], 1) = (b(0) + b(2) + b(4)) % 2
    <3>1. B32!Bit(g(1), 1) = b(0) /\ B32!Bit(g(2), 1) = 0 /\ B32!Bit(g(3), 1) = b(2)
          /\ B32!Bit(g(4), 1) = 0 /\ B32!Bit(g(5), 1) = b(4)
      BY <2>1, <2>2, BitIs
    <3>2. B32!Bit(B32!Feedback[t][6], 1) =
            Plus(B32!Bit(g(1), 1), Plus(B32!Bit(g(2), 1), Plus(B32!Bit(g(3), 1), Plus(B32!Bit(g(4), 1), B32!Bit(g(5), 1)))))
      <4>1. 1 \in 0..4
        OBVIOUS
      <4> QED  BY <4>1, <2>5, Zenon
    <3> QED  BY <2>2, <3>1, <3>2 DEF Plus
  <2>8. B32!Bit(B32!Feedback[t][6], 2) = (b(1) + b(3)) % 2
    <3>1. B32!Bit(g(1), 2) = 0 /\ B32!Bit(g(2), 2) = b(1) /\ B32!Bit(g(3), 2) = 0
          /\ B32!Bit(g(4), 2) = b(3) /\ B32!Bit(g(5), 2) = 0
      BY <2>1, <2>2, BitIs
    <3>2. B32!Bit(B32!Feedback[t][6], 2) =
            Plus(B32!Bit(g(1), 2), Plus(B32!Bit(g(2), 2), Plus(B32!Bit(g(3), 2), Plus(B32!Bit(g(4), 2), B32!Bit(g(5), 2)))))
      <4>1. 2 \in 0..4
        OBVIOUS
      <4> QED  BY <4>1, <2>5, Zenon
    <3> QED  BY <2>2, <3>1, <3>2 DEF Plus
  <2>9. B32!Bit(B32!Feedback[t][6], 3) = (b(1) + b(2) + b(3)) % 2
    <3>1. B32!Bit(g(1), 3) = 0 /\ B32!Bit(g(2), 3) = b(1) /\ B32!Bit(g(3), 3) = b(2)
          /\ B32!Bit(g(4), 3) = b(3) /\ B32!Bit(g(5), 3) = 0
      BY <2>1, <2>2, BitIs
    <3>2. B32!Bit(B32!Feedback[t][6], 3) =
            Plus(B32!Bit(g(1), 3), Plus(B32!Bit(g(2), 3), Plus(B32!Bit(g(3), 3), Plus(B32!Bit(g(4), 3), B32!Bit(g(5), 3)))))
      <4>1. 3 \in 0..4
        OBVIOUS
      <4> QED  BY <4>1, <2>5, Zenon
    <3> QED  BY <2>2, <3>1, <3>2 DEF Plus
  <2>10. B32!Bit(B32!Feedback[t][6], 4) = (b(0) + b(2) + b(3) + b(4)) % 2
    <3>1. B32!Bit(g(1), 4) = b(0) /\ B32!Bit(g(2), 4) = 0 /\ B32!Bit(g(3), 4) = b(2)
          /\ B32!Bit(g(4), 4) = b(3) /\ B32!Bit(g(5), 4) = b(4)
      BY <2>1, <2>2, BitIs
    <3>2. B32!Bit(B32!Feedback[t][6], 4) =
            Plus(B32!Bit(g(1), 4), Plus(B32!Bit(g(2), 4), Plus(B32!Bit(g(3), 4), Plus(B32!Bit(g(4), 4), B32!Bit(g(5), 4)))))
      <4>1. 4 \in 0..4
        OBVIOUS
      <4> QED  BY <4>1, <2>5, Zenon
    <3> QED  BY <2>2, <3>1, <3>2 DEF Plus
  <2> QED  BY <2>6, <2>7, <2>8, <2>9, <2>10 DEF b
<1>2. \A x0, x1, x2, x3, x4, y0, y1, y2, y3, y4 \in {0, 1} :
        /\ (x1 + x3 + x4) % 2 = (y1 + y3 + y4) % 2
        /\ (x0 + x2 + x4) % 2 = (y0 + y2 + y4) % 2
        /\ (x1 + x3) % 2 = (y1 + y3) % 2
        /\ (x1 + x2 + x3) % 2 = (y1 + y2 + y3) % 2
        /\ (x0 + x2 + x3 + x4) % 2 = (y0 + y2 + y3 + y4) % 2
        => x0 = y0 /\ x1 = y1 /\ x2 = y2 /\ x3 = y3 /\ x4 = y4
  OBVIOUS
<1>3. \A i \in 0..4 : i \in {0, 1, 2, 3, 4}
  OBVIOUS
<1>4. 0 \in 0..4 /\ 1 \in 0..4 /\ 2 \in 0..4 /\ 3 \in 0..4 /\ 4 \in 0..4
  OBVIOUS
<1>5. \A t \in Quintet : /\ B32!Bit(t, 0) \in {0, 1} /\ B32!Bit(t, 1) \in {0, 1} /\ B32!Bit(t, 2) \in {0, 1}
                         /\ B32!Bit(t, 3) \in {0, 1} /\ B32!Bit(t, 4) \in {0, 1}
  BY <1>4, BitType, Zenon
<1>6. /\ B32!Bit(top, 0) = B32!Bit(other, 0) /\ B32!Bit(top, 1) = B32!Bit(other, 1)
      /\ B32!Bit(top, 2) = B32!Bit(other, 2) /\ B32!Bit(top, 3) = B32!Bit(other, 3)
      /\ B32!Bit(top, 4) = B32!Bit(other, 4)
  BY <1>1, <1>2, <1>5
<1>7. \A i \in 0..4 : B32!Bit(top, i) = B32!Bit(other, i)
  BY <1>3, <1>6, Zenon
<1> QED  BY <1>7, SameBits, Zenon

-----------------------------------------------------------------------------
(* Steps of the checksum.                                                  *)

\* What the step from state c with symbol v leads to, symbol by symbol.
LEMMA StepIs ==
    ASSUME NEW c \in State, NEW v \in Quintet
    PROVE  LET f == B32!Feedback[c[1]]
               d == B32!Step[c][v]
           IN  /\ d \in State /\ f \in State
               /\ d[1] = X(f[1], c[2]) /\ d[2] = X(f[2], c[3]) /\ d[3] = X(f[3], c[4])
               /\ d[4] = X(f[4], c[5]) /\ d[5] = X(f[5], c[6]) /\ d[6] = X(f[6], v)
<1> DEFINE f == B32!Feedback[c[1]]
           d == B32!Step[c][v]
           rest == <<c[2], c[3], c[4], c[5], c[6], v>>
<1>1. c \in Seq(0..31) /\ v \in 0..31
  BY StateIs DEF Quintet
<1>2. d = B32!Xor(f, rest)
  BY <1>1 DEF B32!Step
<1>3. B32!Xor(f, rest) =
        <<X(f[1], rest[1]), X(f[2], rest[2]), X(f[3], rest[3]), X(f[4], rest[4]), X(f[5], rest[5]), X(f[6], rest[6])>>
  BY Zenon DEF B32!Xor, X
<1>4. rest[1] = c[2] /\ rest[2] = c[3] /\ rest[3] = c[4] /\ rest[4] = c[5] /\ rest[5] = c[6] /\ rest[6] = v
  OBVIOUS
<1> HIDE DEF d, rest
<1>5. d = <<X(f[1], c[2]), X(f[2], c[3]), X(f[3], c[4]), X(f[4], c[5]), X(f[5], c[6]), X(f[6], v)>>
  BY <1>2, <1>3, <1>4
<1>6. /\ c[1] \in Quintet /\ c[2] \in Quintet /\ c[3] \in Quintet /\ c[4] \in Quintet /\ c[5] \in Quintet
      /\ c[6] \in Quintet
  BY StateIs
<1>7. f \in State
  BY <1>6, FeedbackIs
<1> HIDE DEF f
<1>8. /\ f[1] \in Quintet /\ f[2] \in Quintet /\ f[3] \in Quintet /\ f[4] \in Quintet /\ f[5] \in Quintet
      /\ f[6] \in Quintet
  BY <1>7, StateIs
<1>9. /\ X(f[1], c[2]) \in Quintet /\ X(f[2], c[3]) \in Quintet /\ X(f[3], c[4]) \in Quintet
      /\ X(f[4], c[5]) \in Quintet /\ X(f[5], c[6]) \in Quintet /\ X(f[6], v) \in Quintet
  BY <1>6, <1>8, XorLaws
<1>10. d \in State
  BY <1>5, <1>9, MakeState
<1>11. /\ d[1] = X(f[1], c[2]) /\ d[2] = X(f[2], c[3]) /\ d[3] = X(f[3], c[4])
       /\ d[4] = X(f[4], c[5]) /\ d[5] = X(f[5], c[6]) /\ d[6] = X(f[6], v)
  BY <1>5
<1> QED  BY <1>7, <1>10, <1>11 DEF f, d

\* A step of the checksum leads from a state to a state, and the checksum starts in one.
LEMMA StepStays == Closed(B32!Step, State, Quintet) /\ B32!Word(1) \in State
<1>1. \A c \in State, v \in Quintet : B32!Step[c][v] \in State
  BY StepIs
<1>2. 1 \in Nat
  OBVIOUS
<1> QED  BY <1>1, <1>2, WordType DEF Closed

\* With the same symbol, one state only leads to a state.
LEMMA StepTellsState ==
    ASSUME NEW c \in State, NEW b \in State, NEW v \in Quintet, B32!Step[c][v] = B32!Step[b][v]
    PROVE  c = b
<1> DEFINE f == B32!Feedback[c[1]]
           g == B32!Feedback[b[1]]
           d == B32!Step[c][v]
<1>1. /\ f \in State /\ d[1] = X(f[1], c[2]) /\ d[2] = X(f[2], c[3]) /\ d[3] = X(f[3], c[4])
      /\ d[4] = X(f[4], c[5]) /\ d[5] = X(f[5], c[6]) /\ d[6] = X(f[6], v)
  BY StepIs
<1>2. /\ g \in State /\ d[1] = X(g[1], b[2]) /\ d[2] = X(g[2], b[3]) /\ d[3] = X(g[3], b[4])
      /\ d[4] = X(g[4], b[5]) /\ d[5] = X(g[5], b[6]) /\ d[6] = X(g[6], v)
  BY StepIs
<1>3. f[6] \in Quintet /\ g[6] \in Quintet /\ c[1] \in Quintet /\ b[1] \in Quintet
  BY <1>1, <1>2, StateIs
<1> HIDE DEF d
<1>4. f[6] = g[6]
  <2>1. X(f[6], v) = X(g[6], v)
    BY <1>1, <1>2
  <2> QED  BY <1>3, <2>1, XorCancels
<1>5. c[1] = b[1]
  BY <1>3, <1>4, FeedbackTells
<1>6. f = g
  BY <1>5
<1> HIDE DEF f, g
<1>7. /\ f[1] \in Quintet /\ f[2] \in Quintet /\ f[3] \in Quintet /\ f[4] \in Quintet /\ f[5] \in Quintet
  BY <1>1, StateIs
<1>8. /\ c[2] \in Quintet /\ c[3] \in Quintet /\ c[4] \in Quintet /\ c[5] \in Quintet /\ c[6] \in Quintet
      /\ b[2] \in Quintet /\ b[3] \in Quintet /\ b[4] \in Quintet /\ b[5] \in Quintet /\ b[6] \in Quintet
  BY StateIs
<1>9. c[2] = b[2] /\ c[3] = b[3] /\ c[4] = b[4] /\ c[5] = b[5] /\ c[6] = b[6]
  <2>1. c[2] = b[2]
    <3>1. X(f[1], c[2]) = X(f[1], b[2])
      BY <1>1, <1>2, <1>6
    <3>2. f[1] \in Quintet /\ c[2] \in Quintet /\ b[2] \in Quintet
      BY <1>7, <1>8
    <3> QED  BY <3>1, <3>2, XorCancels
  <2>2. c[3] = b[3]
    <3>1. X(f[2], c[3]) = X(f[2], b[3])
      BY <1>1, <1>2, <1>6
    <3>2. f[2] \in Quintet /\ c[3] \in Quintet /\ b[3] \in Quintet
      BY <1>7, <1>8
    <3> QED  BY <3>1, <3>2, XorCancels
  <2>3. c[4] = b[4]
    <3>1. X(f[3], c[4]) = X(f[3], b[4])
      BY <1>1, <1>2, <1>6
    <3>2. f[3] \in Quintet /\ c[4] \in Quintet /\ b[4] \in Quintet
      BY <1>7, <1>8
    <3> QED  BY <3>1, <3>2, XorCancels
  <2>4. c[5] = b[5]
    <3>1. X(f[4], c[5]) = X(f[4], b[5])
      BY <1>1, <1>2, <1>6
    <3>2. f[4] \in Quintet /\ c[5] \in Quintet /\ b[5] \in Quintet
      BY <1>7, <1>8
    <3> QED  BY <3>1, <3>2, XorCancels
  <2>5. c[6] = b[6]
    <3>1. X(f[5], c[6]) = X(f[5], b[6])
      BY <1>1, <1>2, <1>6
    <3>2. f[5] \in Quintet /\ c[6] \in Quintet /\ b[6] \in Quintet
      BY <1>7, <1>8
    <3> QED  BY <3>1, <3>2, XorCancels
  <2> QED  BY <2>1, <2>2, <2>3, <2>4, <2>5
<1>10. c = <<c[1], c[2], c[3], c[4], c[5], c[6]>> /\ b = <<b[1], b[2], b[3], b[4], b[5], b[6]>>
  BY StateIs
<1> QED  BY <1>5, <1>9, <1>10

\* From the same state, one symbol only leads to a state.
LEMMA StepTellsSymbol ==
    ASSUME NEW c \in State, NEW u \in Quintet, NEW v \in Quintet, B32!Step[c][u] = B32!Step[c][v]
    PROVE  u = v
<1> DEFINE f == B32!Feedback[c[1]]
<1>1. B32!Step[c][u][6] = X(f[6], u) /\ B32!Step[c][v][6] = X(f[6], v) /\ f[6] \in Quintet
  BY StepIs, StateIs
<1> QED  BY <1>1, XorCancels

\* Two symbols that change places lead elsewhere.
LEMMA StepsTellOrder ==
    ASSUME NEW c \in State, NEW u \in Quintet, NEW v \in Quintet,
           B32!Step[B32!Step[c][u]][v] = B32!Step[B32!Step[c][v]][u]
    PROVE  u = v
<1> DEFINE a == B32!Step[c][u]
           b == B32!Step[c][v]
<1>1. a \in State /\ b \in State
  BY StepIs
<1>2. a[1] = b[1]
  BY StepIs
<1> HIDE DEF a, b
<1> DEFINE f == B32!Feedback[a[1]]
<1>3. B32!Step[a][v][6] = X(f[6], v) /\ B32!Step[b][u][6] = X(f[6], u) /\ f[6] \in Quintet
  BY <1>1, <1>2, StepIs, StateIs
<1>4. B32!Step[a][v] = B32!Step[b][u]
  BY DEF a, b
<1> QED  BY <1>3, <1>4, XorCancels

-----------------------------------------------------------------------------
(* Which changes of a string the checksum tells.                           *)

\* t is s with another entry at i, or with the entries at i and after it exchanged.
Replaced(s, t, i) == \A j \in 1..Len(s) : j # i => t[j] = s[j]
Exchanged(s, t, i) ==
    /\ i + 1 \in 1..Len(s) /\ t[i] = s[i + 1] /\ t[i + 1] = s[i]
    /\ \A j \in 1..Len(s) : j \notin {i, i + 1} => t[j] = s[j]

\* Of two sequences of symbols with the same polymod, s and t: they do not differ in
\* one symbol only, nor by two neighbours that have changed places.
LEMMA PolymodTells ==
    ASSUME NEW s \in Seq(Quintet), NEW t \in Seq(Quintet), Len(s) = Len(t), B32!polymod(s) = B32!polymod(t),
           NEW i \in 1..Len(s)
    PROVE  Replaced(s, t, i) \/ Exchanged(s, t, i) => s[i] = t[i]
<1> DEFINE n == Len(s)
<1>1. PICK f \in [0..Len(s) -> State] :
          Folds(f, B32!Step, B32!Word(1), s) /\ B32!Folded(B32!Step, B32!Word(1), s) = f[Len(s)]
  BY StepStays, FoldExists
<1>2. PICK g \in [0..Len(t) -> State] :
          Folds(g, B32!Step, B32!Word(1), t) /\ B32!Folded(B32!Step, B32!Word(1), t) = g[Len(t)]
  BY StepStays, FoldExists
<1>3. n \in Nat /\ i \in Nat /\ (\A k \in 1..n : s[k] \in Quintet /\ t[k] \in Quintet) /\ Len(t) = n
  BY InSeq
<1>4. f[n] = g[n]
  BY <1>1, <1>2, <1>3 DEF B32!polymod
<1>5. /\ f[0] = g[0]
      /\ \A k \in 1..n : f[k] = B32!Step[f[k - 1]][s[k]] /\ g[k] = B32!Step[g[k - 1]][t[k]]
  BY <1>1, <1>2, <1>3 DEF Folds
<1>6. \A k \in 0..n : f[k] \in State /\ g[k] \in State
  BY <1>1, <1>2, <1>3
<1> HIDE DEF n
<1> DEFINE Before == {m \in Nat : m < i => f[m] = g[m]}
           After(j) == {m \in Nat : m <= n - j => f[n - m] = g[n - m]}
<1>7. ASSUME \A k \in 1..n : k < i => s[k] = t[k]
      PROVE  f[i - 1] = g[i - 1]
  <2>1. 0 \in Before
    BY <1>5
  <2>2. ASSUME NEW m \in Nat, m \in Before PROVE m + 1 \in Before
    <3> SUFFICES ASSUME m + 1 < i PROVE f[m + 1] = g[m + 1]
      OBVIOUS
    <3>1. m + 1 \in 1..n /\ f[m] = g[m] /\ (m + 1) - 1 = m
      BY <1>3, <2>2 DEF n
    <3>2. s[m + 1] = t[m + 1]
      BY <1>7, <3>1
    <3> QED  BY <1>5, <3>1, <3>2
  <2>3. i - 1 \in Nat
    BY <1>3
  <2>4. i - 1 \in Before
    <3> HIDE DEF Before
    <3> QED  BY <2>1, <2>2, <2>3, Induction
  <2> QED  BY <1>3, <2>4
<1>8. ASSUME NEW j \in 1..n, \A k \in 1..n : k > j => s[k] = t[k]
      PROVE  f[j] = g[j]
  <2>1. 0 \in After(j)
    BY <1>3, <1>4
  <2>2. ASSUME NEW m \in Nat, m \in After(j) PROVE m + 1 \in After(j)
    <3> SUFFICES ASSUME m + 1 <= n - j PROVE f[n - (m + 1)] = g[n - (m + 1)]
      OBVIOUS
    <3> DEFINE k == n - m
    <3>1. k \in 1..n /\ k > j /\ f[k] = g[k] /\ n - (m + 1) = k - 1 /\ k - 1 \in 0..n
      BY <1>3, <2>2
    <3> HIDE DEF k
    <3>2. s[k] = t[k] /\ s[k] \in Quintet
      BY <1>3, <1>8, <3>1
    <3>3. B32!Step[f[k - 1]][s[k]] = B32!Step[g[k - 1]][s[k]]
      BY <1>5, <3>1, <3>2
    <3>4. f[k - 1] \in State /\ g[k - 1] \in State
      BY <1>6, <3>1
    <3>5. f[k - 1] = g[k - 1]
      BY <3>2, <3>3, <3>4, StepTellsState
    <3> QED  BY <3>1, <3>5
  <2>3. n - j \in Nat /\ n - (n - j) = j
    BY <1>3
  <2>4. n - j \in After(j)
    <3> HIDE DEF After
    <3> QED  BY <2>1, <2>2, <2>3, Induction
  <2> QED  BY <2>3, <2>4
<1>9. ASSUME \A k \in 1..n : k # i => s[k] = t[k] PROVE s[i] = t[i]
  <2>1. i \in 1..n /\ i - 1 \in 0..n /\ s[i] \in Quintet /\ t[i] \in Quintet
    BY <1>3 DEF n
  <2>2. f[i - 1] = g[i - 1]
    BY <1>3, <1>7, <1>9
  <2>3. f[i] = g[i]
    BY <1>3, <1>8, <1>9, <2>1
  <2>4. B32!Step[f[i - 1]][s[i]] = B32!Step[f[i - 1]][t[i]] /\ f[i - 1] \in State
    BY <1>5, <1>6, <2>1, <2>2, <2>3
  <2> QED  BY <2>1, <2>4, StepTellsSymbol
<1>10. ASSUME i < n, \A k \in 1..n : k \notin {i, i + 1} => s[k] = t[k], t[i] = s[i + 1], t[i + 1] = s[i]
       PROVE  s[i] = t[i]
  <2>1. i \in 1..n /\ i + 1 \in 1..n /\ i - 1 \in 0..n /\ s[i] \in Quintet /\ s[i + 1] \in Quintet /\ (i + 1) - 1 = i
    BY <1>3, <1>10 DEF n
  <2>2. f[i - 1] = g[i - 1]
    BY <1>3, <1>7, <1>10
  <2>3. f[i + 1] = g[i + 1]
    BY <1>3, <1>8, <1>10, <2>1
  <2> DEFINE c == f[i - 1]
  <2>4. c \in State
    BY <1>6, <2>1
  <2>5. f[i] = B32!Step[c][s[i]] /\ g[i] = B32!Step[c][s[i + 1]]
    BY <1>5, <1>10, <2>1, <2>2
  <2>6. f[i + 1] = B32!Step[f[i]][s[i + 1]] /\ g[i + 1] = B32!Step[g[i]][s[i]]
    BY <1>5, <1>10, <2>1
  <2> HIDE DEF c
  <2>7. s[i] = s[i + 1]
    <3>1. B32!Step[B32!Step[c][s[i]]][s[i + 1]] = B32!Step[B32!Step[c][s[i + 1]]][s[i]]
      BY <2>3, <2>5, <2>6
    <3> QED  BY <2>1, <2>4, <3>1, StepsTellOrder
  <2> QED  BY <1>10, <2>7
<1>11. Replaced(s, t, i) => \A k \in 1..n : k # i => s[k] = t[k]
  BY DEF Replaced, n
<1>12. Exchanged(s, t, i) => /\ i < n /\ t[i] = s[i + 1] /\ t[i + 1] = s[i]
                             /\ \A k \in 1..n : k \notin {i, i + 1} => s[k] = t[k]
  BY <1>3 DEF Exchanged, n
<1> QED  BY <1>9, <1>10, <1>11, <1>12

-----------------------------------------------------------------------------
(* A checksum that is made is right.                                       *)

\* The exclusive or of states is that of their symbols.
LEMMA XorStates ==
    ASSUME NEW u \in State, NEW v \in State
    PROVE  LET x == B32!Xor(u, v)
           IN  /\ x \in State
               /\ x[1] = X(u[1], v[1]) /\ x[2] = X(u[2], v[2]) /\ x[3] = X(u[3], v[3])
               /\ x[4] = X(u[4], v[4]) /\ x[5] = X(u[5], v[5]) /\ x[6] = X(u[6], v[6])
<1> DEFINE x == B32!Xor(u, v)
<1>1. x = <<X(u[1], v[1]), X(u[2], v[2]), X(u[3], v[3]), X(u[4], v[4]), X(u[5], v[5]), X(u[6], v[6])>>
  BY Zenon DEF B32!Xor, X
<1> HIDE DEF x
<1>2. /\ u[1] \in Quintet /\ u[2] \in Quintet /\ u[3] \in Quintet
      /\ u[4] \in Quintet /\ u[5] \in Quintet /\ u[6] \in Quintet
      /\ v[1] \in Quintet /\ v[2] \in Quintet /\ v[3] \in Quintet
      /\ v[4] \in Quintet /\ v[5] \in Quintet /\ v[6] \in Quintet
  BY StateIs
<1>3. /\ X(u[1], v[1]) \in Quintet /\ X(u[2], v[2]) \in Quintet /\ X(u[3], v[3]) \in Quintet
      /\ X(u[4], v[4]) \in Quintet /\ X(u[5], v[5]) \in Quintet /\ X(u[6], v[6]) \in Quintet
  BY <1>2, XorLaws
<1>4. x \in State
  BY <1>1, <1>3, MakeState
<1>5. /\ x[1] = X(u[1], v[1]) /\ x[2] = X(u[2], v[2]) /\ x[3] = X(u[3], v[3])
      /\ x[4] = X(u[4], v[4]) /\ x[5] = X(u[5], v[5]) /\ x[6] = X(u[6], v[6])
  BY <1>1
<1> QED  BY <1>4, <1>5 DEF x

\* States with the same symbols are the same.
LEMMA SameState ==
    ASSUME NEW u \in State, NEW v \in State,
           u[1] = v[1], u[2] = v[2], u[3] = v[3], u[4] = v[4], u[5] = v[5], u[6] = v[6]
    PROVE  u = v
<1>1. u = <<u[1], u[2], u[3], u[4], u[5], u[6]>> /\ v = <<v[1], v[2], v[3], v[4], v[5], v[6]>>
  BY StateIs
<1> QED  BY <1>1

\* A state that is added twice is gone.
LEMMA XorTwice ==
    ASSUME NEW u \in State, NEW v \in State
    PROVE  B32!Xor(u, B32!Xor(u, v)) = v
<1> DEFINE x == B32!Xor(u, v)
           y == B32!Xor(u, x)
<1>1. /\ x \in State
      /\ x[1] = X(u[1], v[1]) /\ x[2] = X(u[2], v[2]) /\ x[3] = X(u[3], v[3])
      /\ x[4] = X(u[4], v[4]) /\ x[5] = X(u[5], v[5]) /\ x[6] = X(u[6], v[6])
  BY XorStates
<1> HIDE DEF x
<1>2. /\ y \in State
      /\ y[1] = X(u[1], x[1]) /\ y[2] = X(u[2], x[2]) /\ y[3] = X(u[3], x[3])
      /\ y[4] = X(u[4], x[4]) /\ y[5] = X(u[5], x[5]) /\ y[6] = X(u[6], x[6])
  BY <1>1, XorStates
<1> HIDE DEF y
<1>3. ASSUME NEW a \in Quintet, NEW b \in Quintet PROVE X(a, X(a, b)) = b
  <2>1. X(a, X(a, b)) = X(X(a, a), b) /\ X(a, a) = 0 /\ X(0, b) = b
    BY XorLaws
  <2> QED  BY <2>1
<1>4. /\ u[1] \in Quintet /\ u[2] \in Quintet /\ u[3] \in Quintet
      /\ u[4] \in Quintet /\ u[5] \in Quintet /\ u[6] \in Quintet
      /\ v[1] \in Quintet /\ v[2] \in Quintet /\ v[3] \in Quintet
      /\ v[4] \in Quintet /\ v[5] \in Quintet /\ v[6] \in Quintet
  BY StateIs
<1>5. y[1] = v[1] /\ y[2] = v[2] /\ y[3] = v[3] /\ y[4] = v[4] /\ y[5] = v[5] /\ y[6] = v[6]
  BY <1>1, <1>2, <1>3, <1>4
<1>6. y = v
  BY <1>2, <1>5, SameState
<1> QED  BY <1>6 DEF x, y

\* A difference that has not reached the top is carried along, and no more.
Moved(d, v) == <<d[2], d[3], d[4], d[5], d[6], v>>

\* A difference d whose top symbol is 0 moves up by one symbol in a step and changes
\* nothing else.
LEMMA StepCarries ==
    ASSUME NEW c \in State, NEW d \in State, d[1] = 0, NEW v \in Quintet
    PROVE  B32!Step[B32!Xor(c, d)][v] = B32!Xor(B32!Step[c][0], Moved(d, v))
<1> DEFINE e == Moved(d, v)
           b == B32!Xor(c, d)
           f == B32!Feedback[c[1]]
           p0 == B32!Step[c][0]
           l == B32!Step[b][v]
           r == B32!Xor(p0, e)
<1>1. e \in State /\ 0 \in Quintet /\ d[2] \in Quintet /\ d[3] \in Quintet /\ d[4] \in Quintet
      /\ d[5] \in Quintet /\ d[6] \in Quintet
  BY StateIs, MakeState, XorLaws DEF Moved
<1>2. e[1] = d[2] /\ e[2] = d[3] /\ e[3] = d[4] /\ e[4] = d[5] /\ e[5] = d[6] /\ e[6] = v
  BY DEF Moved
<1> HIDE DEF e
<1>3. /\ b \in State
      /\ b[1] = X(c[1], 0) /\ b[2] = X(c[2], d[2]) /\ b[3] = X(c[3], d[3])
      /\ b[4] = X(c[4], d[4]) /\ b[5] = X(c[5], d[5]) /\ b[6] = X(c[6], d[6])
  BY <1>1, <1>2, XorStates
<1> HIDE DEF b
<1>4. /\ c[1] \in Quintet /\ c[2] \in Quintet /\ c[3] \in Quintet
      /\ c[4] \in Quintet /\ c[5] \in Quintet /\ c[6] \in Quintet
  BY StateIs
<1>5. b[1] = c[1]
  BY <1>3, <1>4, XorLaws
<1>6. /\ p0 \in State /\ f \in State
      /\ p0[1] = X(f[1], c[2]) /\ p0[2] = X(f[2], c[3]) /\ p0[3] = X(f[3], c[4])
      /\ p0[4] = X(f[4], c[5]) /\ p0[5] = X(f[5], c[6]) /\ p0[6] = X(f[6], 0)
  BY <1>1, StepIs
<1>7. /\ l \in State
      /\ l[1] = X(f[1], b[2]) /\ l[2] = X(f[2], b[3]) /\ l[3] = X(f[3], b[4])
      /\ l[4] = X(f[4], b[5]) /\ l[5] = X(f[5], b[6]) /\ l[6] = X(f[6], v)
  BY <1>3, <1>5, StepIs
<1> HIDE DEF f, p0, l
<1>8. /\ r \in State
      /\ r[1] = X(p0[1], d[2]) /\ r[2] = X(p0[2], d[3]) /\ r[3] = X(p0[3], d[4])
      /\ r[4] = X(p0[4], d[5]) /\ r[5] = X(p0[5], d[6]) /\ r[6] = X(p0[6], v)
  BY <1>1, <1>2, <1>6, XorStates
<1> HIDE DEF r
<1>9. /\ f[1] \in Quintet /\ f[2] \in Quintet /\ f[3] \in Quintet
      /\ f[4] \in Quintet /\ f[5] \in Quintet /\ f[6] \in Quintet
  BY <1>6, StateIs
<1>10. \A x, y, z \in Quintet : X(x, X(y, z)) = X(X(x, y), z)
  BY XorLaws
<1>11. l[1] = r[1]
  <2>1. X(f[1], X(c[2], d[2])) = X(X(f[1], c[2]), d[2])
    BY <1>1, <1>4, <1>9, <1>10, SMTT(30)
  <2> QED  BY <1>3, <1>6, <1>7, <1>8, <2>1
<1>12. l[2] = r[2]
  <2>1. X(f[2], X(c[3], d[3])) = X(X(f[2], c[3]), d[3])
    BY <1>1, <1>4, <1>9, <1>10, SMTT(30)
  <2> QED  BY <1>3, <1>6, <1>7, <1>8, <2>1
<1>13. l[3] = r[3]
  <2>1. X(f[3], X(c[4], d[4])) = X(X(f[3], c[4]), d[4])
    BY <1>1, <1>4, <1>9, <1>10, SMTT(30)
  <2> QED  BY <1>3, <1>6, <1>7, <1>8, <2>1
<1>14. l[4] = r[4]
  <2>1. X(f[4], X(c[5], d[5])) = X(X(f[4], c[5]), d[5])
    BY <1>1, <1>4, <1>9, <1>10
  <2> QED  BY <1>3, <1>6, <1>7, <1>8, <2>1
<1>15. l[5] = r[5]
  <2>1. X(f[5], X(c[6], d[6])) = X(X(f[5], c[6]), d[6])
    BY <1>1, <1>4, <1>9, <1>10
  <2> QED  BY <1>3, <1>6, <1>7, <1>8, <2>1
<1>16. l[6] = r[6]
  BY <1>6, <1>7, <1>8, <1>9, XorLaws
<1>17. l = r
  BY <1>7, <1>8, <1>11, <1>12, <1>13, <1>14, <1>15, <1>16, SameState
<1> QED  BY <1>17 DEF l, r, b, p0, e

\* polymod of one more symbol is one more step.
LEMMA PolymodAppend ==
    ASSUME NEW s \in Seq(Quintet), NEW v \in Quintet
    PROVE  /\ B32!polymod(s) \in State
           /\ B32!polymod(Append(s, v)) = B32!Step[B32!polymod(s)][v]
  BY StepStays, FoldedAppend DEF B32!polymod

\* Appending a checksum appends its six symbols one after another.
LEMMA AppendSix ==
    ASSUME NEW s \in Seq(Quintet), NEW t \in State
    PROVE  s \o t = Append(Append(Append(Append(Append(Append(s, t[1]), t[2]), t[3]), t[4]), t[5]), t[6])
<1> DEFINE a == t[1]
           b == t[2]
           c == t[3]
           d == t[4]
           e == t[5]
           f == t[6]
<1>1. ASSUME NEW q \in Seq(Quintet), NEW x \in Quintet
      PROVE  s \o Append(q, x) = Append(s \o q, x) /\ Append(q, x) \in Seq(Quintet)
  OBVIOUS
<1>2. s \o <<>> = s /\ <<>> \in Seq(Quintet)
  OBVIOUS
<1>3. t = <<a, b, c, d, e, f>> /\ a \in Quintet /\ b \in Quintet /\ c \in Quintet /\ d \in Quintet
      /\ e \in Quintet /\ f \in Quintet
  BY StateIs
<1> HIDE DEF a, b, c, d, e, f
<1>4. <<a>> = Append(<<>>, a) /\ <<a, b>> = Append(<<a>>, b) /\ <<a, b, c>> = Append(<<a, b>>, c)
      /\ <<a, b, c, d>> = Append(<<a, b, c>>, d) /\ <<a, b, c, d, e>> = Append(<<a, b, c, d>>, e)
      /\ <<a, b, c, d, e, f>> = Append(<<a, b, c, d, e>>, f)
  OBVIOUS
<1>5. s \o <<a>> = Append(s, a) /\ <<a>> \in Seq(Quintet)
  BY <1>1, <1>2, <1>3, <1>4
<1>6. s \o <<a, b>> = Append(Append(s, a), b) /\ <<a, b>> \in Seq(Quintet)
  BY <1>1, <1>3, <1>4, <1>5
<1>7. s \o <<a, b, c>> = Append(Append(Append(s, a), b), c) /\ <<a, b, c>> \in Seq(Quintet)
  BY <1>1, <1>3, <1>4, <1>6
<1>8. s \o <<a, b, c, d>> = Append(Append(Append(Append(s, a), b), c), d) /\ <<a, b, c, d>> \in Seq(Quintet)
  BY <1>1, <1>3, <1>4, <1>7
<1>9. /\ s \o <<a, b, c, d, e>> = Append(Append(Append(Append(Append(s, a), b), c), d), e)
      /\ <<a, b, c, d, e>> \in Seq(Quintet)
  BY <1>1, <1>3, <1>4, <1>8
<1>10. s \o t = Append(Append(Append(Append(Append(Append(s, a), b), c), d), e), f)
  BY <1>1, <1>3, <1>4, <1>9, Zenon
<1> QED  BY <1>10 DEF a, b, c, d, e, f

\* What six symbols more make of the state c.
SixSteps(c, t) ==
    B32!Step[B32!Step[B32!Step[B32!Step[B32!Step[B32!Step[c][t[1]]][t[2]]][t[3]]][t[4]]][t[5]]][t[6]]

\* polymod of a sequence and a checksum: six further steps.
LEMMA PolymodSix ==
    ASSUME NEW s \in Seq(Quintet), NEW t \in State
    PROVE  B32!polymod(s \o t) = SixSteps(B32!polymod(s), t)
<1> DEFINE s1 == Append(s, t[1])
           s2 == Append(s1, t[2])
           s3 == Append(s2, t[3])
           s4 == Append(s3, t[4])
           s5 == Append(s4, t[5])
           s6 == Append(s5, t[6])
<1>1. \A q \in Seq(Quintet), x \in Quintet : Append(q, x) \in Seq(Quintet)
  OBVIOUS
<1>2. t[1] \in Quintet /\ t[2] \in Quintet /\ t[3] \in Quintet /\ t[4] \in Quintet /\ t[5] \in Quintet /\ t[6] \in Quintet
  BY StateIs
<1>3. s \o t = s6
  BY AppendSix
<1>4. B32!polymod(s1) = B32!Step[B32!polymod(s)][t[1]] /\ s1 \in Seq(Quintet)
  BY <1>1, <1>2, PolymodAppend
<1> HIDE DEF s1
<1>5. B32!polymod(s2) = B32!Step[B32!polymod(s1)][t[2]] /\ s2 \in Seq(Quintet)
  BY <1>1, <1>2, <1>4, PolymodAppend
<1> HIDE DEF s2
<1>6. B32!polymod(s3) = B32!Step[B32!polymod(s2)][t[3]] /\ s3 \in Seq(Quintet)
  BY <1>1, <1>2, <1>5, PolymodAppend
<1> HIDE DEF s3
<1>7. B32!polymod(s4) = B32!Step[B32!polymod(s3)][t[4]] /\ s4 \in Seq(Quintet)
  BY <1>1, <1>2, <1>6, PolymodAppend
<1> HIDE DEF s4
<1>8. B32!polymod(s5) = B32!Step[B32!polymod(s4)][t[5]] /\ s5 \in Seq(Quintet)
  BY <1>1, <1>2, <1>7, PolymodAppend
<1> HIDE DEF s5
<1>9. B32!polymod(s6) = B32!Step[B32!polymod(s5)][t[6]]
  BY <1>2, <1>8, PolymodAppend
<1> HIDE DEF s6
<1> QED  BY <1>3, <1>4, <1>5, <1>6, <1>7, <1>8, <1>9 DEF SixSteps

\* Symbols that are the polymod of the six zeros in their place, but for a 1, pass.
LEMMA ChecksumFits ==
    ASSUME NEW s \in Seq(Quintet), NEW k, k = B32!Xor(B32!polymod(s \o <<0, 0, 0, 0, 0, 0>>), B32!Word(1))
    PROVE  k \in State /\ B32!polymod(s \o k) = B32!Word(1)
<1> DEFINE d0 == <<0, 0, 0, 0, 0, 0>>
           z0 == B32!polymod(s)
           z1 == B32!Step[z0][0]
           z2 == B32!Step[z1][0]
           z3 == B32!Step[z2][0]
           z4 == B32!Step[z3][0]
           z5 == B32!Step[z4][0]
           z6 == B32!Step[z5][0]
<1>1. 0 \in Quintet /\ B32!Word(1) \in State
  BY XorLaws, StepStays
<1>2. d0 \in State /\ d0[1] = 0 /\ d0[2] = 0 /\ d0[3] = 0 /\ d0[4] = 0 /\ d0[5] = 0 /\ d0[6] = 0
  BY <1>1, MakeState
<1> HIDE DEF d0
<1>3. z0 \in State
  BY <1>1, PolymodAppend
<1>4. \A x \in State, v \in Quintet : B32!Step[x][v] \in State
  BY StepIs, Zenon
<1>5. B32!polymod(s \o d0) = z6
  BY <1>2, PolymodSix, ZenonT(60) DEF SixSteps
<1> HIDE DEF z0
<1>6. z1 \in State /\ z2 \in State /\ z3 \in State /\ z4 \in State /\ z5 \in State /\ z6 \in State
  BY <1>1, <1>3, <1>4
<1> HIDE DEF z1, z2, z3, z4, z5, z6
<1>7. k = B32!Xor(z6, B32!Word(1)) /\ k \in State
  <2>1. k = B32!Xor(z6, B32!Word(1))
    BY <1>5 DEF d0
  <2> QED  BY <1>1, <1>6, <2>1, XorStates
<1>8. /\ k[1] \in Quintet /\ k[2] \in Quintet /\ k[3] \in Quintet
      /\ k[4] \in Quintet /\ k[5] \in Quintet /\ k[6] \in Quintet
      /\ k = <<k[1], k[2], k[3], k[4], k[5], k[6]>>
  BY <1>7, StateIs, Zenon
<1> DEFINE y1 == B32!Step[z0][k[1]]
           y2 == B32!Step[y1][k[2]]
           y3 == B32!Step[y2][k[3]]
           y4 == B32!Step[y3][k[4]]
           y5 == B32!Step[y4][k[5]]
           y6 == B32!Step[y5][k[6]]
           d1 == Moved(d0, k[1])
           d2 == Moved(d1, k[2])
           d3 == Moved(d2, k[3])
           d4 == Moved(d3, k[4])
           d5 == Moved(d4, k[5])
           d6 == Moved(d5, k[6])
<1>9. B32!polymod(s \o k) = y6
  BY <1>7, PolymodSix DEF SixSteps, z0
<1>10. z0 = B32!Xor(z0, d0)
  <2> DEFINE x == B32!Xor(z0, d0)
  <2>1. /\ x \in State
        /\ x[1] = X(z0[1], 0) /\ x[2] = X(z0[2], 0) /\ x[3] = X(z0[3], 0)
        /\ x[4] = X(z0[4], 0) /\ x[5] = X(z0[5], 0) /\ x[6] = X(z0[6], 0)
    BY <1>2, <1>3, XorStates
  <2> HIDE DEF x
  <2>2. /\ z0[1] \in Quintet /\ z0[2] \in Quintet /\ z0[3] \in Quintet
        /\ z0[4] \in Quintet /\ z0[5] \in Quintet /\ z0[6] \in Quintet
    BY <1>3, StateIs
  <2>3. /\ x[1] = z0[1] /\ x[2] = z0[2] /\ x[3] = z0[3]
        /\ x[4] = z0[4] /\ x[5] = z0[5] /\ x[6] = z0[6]
    BY <2>1, <2>2, XorLaws
  <2>4. x = z0
    BY <1>3, <2>1, <2>3, SameState
  <2> QED  BY <2>4 DEF x
<1>11. ASSUME NEW d \in State, NEW v \in Quintet
       PROVE  /\ Moved(d, v) \in State
              /\ Moved(d, v)[1] = d[2] /\ Moved(d, v)[2] = d[3] /\ Moved(d, v)[3] = d[4]
              /\ Moved(d, v)[4] = d[5] /\ Moved(d, v)[5] = d[6] /\ Moved(d, v)[6] = v
  BY StateIs, MakeState DEF Moved
<1>12. d1 \in State /\ d1[1] = 0 /\ d1[2] = 0 /\ d1[3] = 0 /\ d1[4] = 0 /\ d1[5] = 0 /\ d1[6] = k[1]
  BY <1>2, <1>8, <1>11, ZenonT(30)
<1> HIDE DEF d1
<1>13. d2 \in State /\ d2[1] = 0 /\ d2[2] = 0 /\ d2[3] = 0 /\ d2[4] = 0 /\ d2[5] = k[1] /\ d2[6] = k[2]
  BY <1>8, <1>11, <1>12, ZenonT(30)
<1> HIDE DEF d2
<1>14. d3 \in State /\ d3[1] = 0 /\ d3[2] = 0 /\ d3[3] = 0 /\ d3[4] = k[1] /\ d3[5] = k[2] /\ d3[6] = k[3]
  BY <1>8, <1>11, <1>13, ZenonT(30)
<1> HIDE DEF d3
<1>15. d4 \in State /\ d4[1] = 0 /\ d4[2] = 0 /\ d4[3] = k[1] /\ d4[4] = k[2] /\ d4[5] = k[3] /\ d4[6] = k[4]
  BY <1>8, <1>11, <1>14, ZenonT(30)
<1> HIDE DEF d4
<1>16. d5 \in State /\ d5[1] = 0 /\ d5[2] = k[1] /\ d5[3] = k[2] /\ d5[4] = k[3] /\ d5[5] = k[4] /\ d5[6] = k[5]
  BY <1>8, <1>11, <1>15, ZenonT(30)
<1> HIDE DEF d5
<1>17. d6 \in State /\ d6[1] = k[1] /\ d6[2] = k[2] /\ d6[3] = k[3] /\ d6[4] = k[4] /\ d6[5] = k[5] /\ d6[6] = k[6]
  BY <1>8, <1>11, <1>16, ZenonT(30)
<1>18. d6 = k
  BY <1>7, <1>17, SameState
<1>19. y1 = B32!Xor(z1, d1)
  <2>1. B32!Step[B32!Xor(z0, d0)][k[1]] = B32!Xor(B32!Step[z0][0], Moved(d0, k[1]))
    BY <1>2, <1>3, <1>8, StepCarries
  <2> QED  BY <1>10, <2>1 DEF d1, z1
<1> HIDE DEF y1
<1>20. y2 = B32!Xor(z2, d2)
  <2>1. B32!Step[B32!Xor(z1, d1)][k[2]] = B32!Xor(B32!Step[z1][0], Moved(d1, k[2]))
    BY <1>6, <1>12, <1>8, StepCarries
  <2> QED  BY <1>19, <2>1 DEF d2, z2
<1> HIDE DEF y2
<1>21. y3 = B32!Xor(z3, d3)
  <2>1. B32!Step[B32!Xor(z2, d2)][k[3]] = B32!Xor(B32!Step[z2][0], Moved(d2, k[3]))
    BY <1>6, <1>13, <1>8, StepCarries
  <2> QED  BY <1>20, <2>1 DEF d3, z3
<1> HIDE DEF y3
<1>22. y4 = B32!Xor(z4, d4)
  <2>1. B32!Step[B32!Xor(z3, d3)][k[4]] = B32!Xor(B32!Step[z3][0], Moved(d3, k[4]))
    BY <1>6, <1>14, <1>8, StepCarries
  <2> QED  BY <1>21, <2>1 DEF d4, z4
<1> HIDE DEF y4
<1>23. y5 = B32!Xor(z5, d5)
  <2>1. B32!Step[B32!Xor(z4, d4)][k[5]] = B32!Xor(B32!Step[z4][0], Moved(d4, k[5]))
    BY <1>6, <1>15, <1>8, StepCarries
  <2> QED  BY <1>22, <2>1 DEF d5, z5
<1> HIDE DEF y5
<1>24. y6 = B32!Xor(z6, d6)
  <2>1. B32!Step[B32!Xor(z5, d5)][k[6]] = B32!Xor(B32!Step[z5][0], Moved(d5, k[6]))
    BY <1>6, <1>16, <1>8, StepCarries
  <2> QED  BY <1>23, <2>1 DEF d6, z6
<1> HIDE DEF y6
<1>25. y6 = B32!Word(1)
  <2>1. y6 = B32!Xor(z6, B32!Xor(z6, B32!Word(1)))
    BY <1>7, <1>18, <1>24
  <2> QED  BY <1>1, <1>6, <2>1, XorTwice
<1> QED  BY <1>7, <1>9, <1>25

-----------------------------------------------------------------------------
(* Characters.                                                             *)

\* The place of a character in a list without repetitions.
LEMMA AtIs ==
    ASSUME NEW n \in Nat, NEW s, DOMAIN s = 1..n, \A i, j \in 1..n : s[i] = s[j] => i = j, NEW i \in 1..n
    PROVE  B32!In(s[i], s) /\ B32!At(s[i], s) = i
  BY Zenon DEF B32!In, B32!At

\* The 32 characters of the charset differ; neither "1" nor a capital is one.
LEMMA CharsetDiffers ==
    /\ DOMAIN B32!CHARSET = 1..32
    /\ \A i, j \in 1..32 : B32!CHARSET[i] = B32!CHARSET[j] => i = j
    /\ \A i \in 1..32 : B32!CHARSET[i] \notin {"1", "b"} /\ \A j \in 1..26 : B32!CHARSET[i] # B32!Uppers[j]
<1>1. DOMAIN B32!CHARSET = 1..32
  BY DEF B32!CHARSET
<1>2. \A i \in 1..32 : B32!CHARSET[i] \notin {"1", "b"}
  BY DEF B32!CHARSET
<1>3. \A i, j \in 1..32 : B32!CHARSET[i] = B32!CHARSET[j] => i = j
  BY DEF B32!CHARSET
<1>4. ASSUME NEW i \in 1..32, NEW j \in 1..26 PROVE B32!CHARSET[i] # B32!Uppers[j]
  BY DEF B32!CHARSET, B32!Uppers
<1> QED  BY <1>1, <1>2, <1>3, <1>4

\* The 26 capitals differ, and so do the 26 small letters.
LEMMA UppersDiffer ==
    /\ DOMAIN B32!Uppers = 1..26 /\ DOMAIN B32!Lowers = 1..26
    /\ \A i, j \in 1..26 : B32!Uppers[i] = B32!Uppers[j] => i = j
    /\ \A i, j \in 1..26 : B32!Lowers[i] = B32!Lowers[j] => i = j
    /\ \A j \in 1..26 : B32!Uppers[j] \notin {"1", "b", "?"}
<1>1. DOMAIN B32!Uppers = 1..26 /\ DOMAIN B32!Lowers = 1..26
  BY DEF B32!Uppers, B32!Lowers
<1>2. \A i, j \in 1..26 : B32!Uppers[i] = B32!Uppers[j] => i = j
  BY DEF B32!Uppers
<1>3. \A i, j \in 1..26 : B32!Lowers[i] = B32!Lowers[j] => i = j
  BY DEF B32!Lowers
<1>4. \A j \in 1..26 : B32!Uppers[j] \notin {"1", "b", "?"}
  BY DEF B32!Uppers
<1> QED  BY <1>1, <1>2, <1>3, <1>4

\* The prefixes of the model's strings.
Prefixes == {B32!npub, B32!nsec, <<"n">>}

\* A prefix is a few small letters.
LEMMA PrefixIs ==
    ASSUME NEW hrp \in Prefixes
    PROVE  /\ hrp \in Seq(Characters) /\ Len(hrp) \in 1..4
           /\ \A i \in 1..Len(hrp) : hrp[i] \in {B32!Lowers[j] : j \in 1..26}
<1>1. /\ B32!CHARSET[16] = "0" /\ B32!CHARSET[21] = "5" /\ B32!CHARSET[20] = "n" /\ B32!CHARSET[2] = "p"
      /\ B32!CHARSET[29] = "u" /\ B32!CHARSET[17] = "s" /\ B32!CHARSET[26] = "e" /\ B32!CHARSET[25] = "c"
  BY DEF B32!CHARSET
<1>2. {"n", "p", "u", "b", "s", "e", "c"} \subseteq Characters
  BY <1>1 DEF Characters
<1>3. /\ B32!Lowers[14] = "n" /\ B32!Lowers[16] = "p" /\ B32!Lowers[21] = "u" /\ B32!Lowers[2] = "b"
      /\ B32!Lowers[19] = "s" /\ B32!Lowers[5] = "e" /\ B32!Lowers[3] = "c"
  BY DEF B32!Lowers
<1>4. {"n", "p", "u", "b", "s", "e", "c"} \subseteq {B32!Lowers[j] : j \in 1..26}
  BY <1>3
<1> DEFINE L == {B32!Lowers[j] : j \in 1..26}
<1> HIDE DEF L
<1>5. {"n", "p", "u", "b", "s", "e", "c"} \subseteq L
  BY <1>4 DEF L
<1>6. CASE hrp = B32!npub
  BY <1>2, <1>5, <1>6 DEF B32!npub, L
<1>7. CASE hrp = B32!nsec
  BY <1>2, <1>5, <1>7 DEF B32!nsec, L
<1>8. CASE hrp = <<"n">>
  BY <1>2, <1>5, <1>8 DEF L
<1> QED  BY <1>6, <1>7, <1>8 DEF Prefixes

\* The code of a small letter is one of ASCII.
LEMMA CodeIs ==
    ASSUME NEW j \in 1..26
    PROVE  B32!Code[B32!Lowers[j]] \in 0..127
<1> DEFINE c == B32!Lowers[j]
<1>1. c \in {B32!Lowers[i] : i \in 1..26} \cup {B32!Digits[i] : i \in 1..10} \cup {"?"}
  OBVIOUS
<1>2. B32!At(c, B32!Lowers) = j
  <2>1. 26 \in Nat
    OBVIOUS
  <2> QED  BY <2>1, UppersDiffer, AtIs
<1>3. B32!In(c, B32!Digits) => B32!At(c, B32!Digits) \in 1..10
  <2>1. DOMAIN B32!Digits = 1..10
    BY DEF B32!Digits
  <2> QED  BY <2>1 DEF B32!In, B32!At
<1> HIDE DEF c
<1>4. B32!Code[c] = IF c = "?" THEN 63 ELSE IF B32!In(c, B32!Digits) THEN 47 + B32!At(c, B32!Digits)
                    ELSE 96 + B32!At(c, B32!Lowers)
  BY <1>1 DEF B32!Code
<1>5. B32!Code[c] \in 0..127
  BY <1>2, <1>3, <1>4
<1> QED  BY <1>5 DEF c

\* hrp_expand gives symbols, two for a letter and a zero between.
LEMMA Expanded ==
    ASSUME NEW hrp \in Prefixes
    PROVE  B32!hrp_expand(hrp) \in Seq(Quintet) /\ Len(B32!hrp_expand(hrp)) = 2 * Len(hrp) + 1
<1> DEFINE n == Len(hrp)
           high == [i \in DOMAIN hrp |-> B32!Code[hrp[i]] \div 32]
           low  == [i \in DOMAIN hrp |-> B32!Code[hrp[i]] % 32]
<1>1. n \in Nat /\ DOMAIN hrp = 1..n
  BY PrefixIs
<1>2. \A i \in 1..n : B32!Code[hrp[i]] \in 0..127
  <2> SUFFICES ASSUME NEW i \in 1..n PROVE B32!Code[hrp[i]] \in 0..127
    OBVIOUS
  <2>1. PICK j \in 1..26 : hrp[i] = B32!Lowers[j]
    BY PrefixIs
  <2> QED  BY <2>1, CodeIs
<1>3. \A x \in 0..127 : x \div 32 \in 0..31 /\ x % 32 \in 0..31
  OBVIOUS
<1>4. \A i \in 1..n : B32!Code[hrp[i]] \div 32 \in Quintet /\ B32!Code[hrp[i]] % 32 \in Quintet
  BY <1>2, <1>3 DEF Quintet
<1> HIDE DEF n
<1>5. high \in Seq(Quintet) /\ Len(high) = n /\ low \in Seq(Quintet) /\ Len(low) = n
  BY <1>1, <1>4
<1>6. B32!hrp_expand(hrp) = high \o <<0>> \o low
  BY DEF B32!hrp_expand
<1>7. <<0>> \in Seq(Quintet) /\ Len(<<0>>) = 1
  BY DEF Quintet
<1> HIDE DEF high, low
<1>8. high \o <<0>> \in Seq(Quintet) /\ Len(high \o <<0>>) = n + 1
  BY <1>1, <1>5, <1>7
<1>9. (high \o <<0>>) \o low \in Seq(Quintet) /\ Len((high \o <<0>>) \o low) = n + 1 + n
  BY <1>1, <1>5, <1>8
<1> QED  BY <1>1, <1>6, <1>9 DEF n

\* The checksum that create_checksum makes is one that verify_checksum accepts, whatever
\* the symbols.
LEMMA Verified ==
    ASSUME NEW hrp \in Prefixes, NEW v \in Seq(Quintet)
    PROVE  /\ B32!create_checksum(hrp, v) \in State
           /\ B32!verify_checksum(hrp, v \o B32!create_checksum(hrp, v))
<1> DEFINE h == B32!hrp_expand(hrp)
           k == B32!create_checksum(hrp, v)
<1>1. h \in Seq(Quintet)
  BY Expanded
<1> HIDE DEF h
<1>2. h \o v \in Seq(Quintet)
  BY <1>1
<1>3. k = B32!Xor(B32!polymod((h \o v) \o <<0, 0, 0, 0, 0, 0>>), B32!Word(1))
  BY DEF B32!create_checksum, h
<1> HIDE DEF k
<1>4. k \in State /\ B32!polymod((h \o v) \o k) = B32!Word(1)
  BY <1>2, <1>3, ChecksumFits
<1>5. (h \o v) \o k = h \o (v \o k)
  <2>1. k \in Seq(Quintet)
    BY <1>4, StateIs
  <2> QED  BY <1>1, <2>1, ConcatAssociative
<1> QED  BY <1>4, <1>5 DEF B32!verify_checksum, h, k

-----------------------------------------------------------------------------
(* Strings.                                                                *)

\* The characters of symbols, and the string of a prefix and all its symbols.
Chars(d)   == [i \in DOMAIN d |-> B32!CHARSET[d[i] + 1]]
Wire(h, d) == h \o <<"1">> \o Chars(d)

\* No character of a string that encode makes is a capital.
LEMMA NoUppers ==
    \A c \in Characters : ~B32!In(c, B32!Uppers)
<1> SUFFICES ASSUME NEW c \in Characters, NEW j \in 1..26, B32!Uppers[j] = c PROVE FALSE
  BY UppersDiffer DEF B32!In
<1>1. CASE c \in {"1", "b", "?"}
  BY <1>1, UppersDiffer
<1>2. CASE \E i \in 1..32 : c = B32!CHARSET[i]
  BY <1>2, CharsetDiffers
<1> QED  BY <1>1, <1>2 DEF Characters

\* The characters of symbols, one for each; none is the separator.
LEMMA CharsIs ==
    ASSUME NEW d \in Seq(Quintet)
    PROVE  /\ Chars(d) \in Seq(Characters \ {"1"}) /\ Chars(d) \in Seq(Characters) /\ Len(Chars(d)) = Len(d)
           /\ \A i \in 1..Len(d) : /\ Chars(d)[i] = B32!CHARSET[d[i] + 1] /\ d[i] + 1 \in 1..32
                                   /\ Chars(d)[i] # "1"
<1> DEFINE n == Len(d)
<1>1. n \in Nat /\ DOMAIN d = 1..n /\ \A i \in 1..n : d[i] \in Quintet
  BY InSeq
<1>2. \A x \in Quintet : x + 1 \in 1..32
  BY SMTT(30) DEF Quintet
<1>3. \A i \in 1..n : B32!CHARSET[d[i] + 1] \in Characters \ {"1"} /\ d[i] + 1 \in 1..32
  BY <1>1, <1>2, CharsetDiffers DEF Characters
<1> HIDE DEF n
<1>4. Chars(d) = [i \in 1..n |-> B32!CHARSET[d[i] + 1]]
  BY <1>1 DEF Chars
<1> DEFINE C == Characters \ {"1"}
<1>5. \A i \in 1..n : B32!CHARSET[d[i] + 1] \in C
  BY <1>3
<1> HIDE DEF C
<1>6. Chars(d) \in Seq(C) /\ Len(Chars(d)) = n /\ \A i \in 1..n : Chars(d)[i] = B32!CHARSET[d[i] + 1]
  BY <1>1, <1>4, <1>5
<1>7. \A i \in 1..n : Chars(d)[i] \in Characters /\ Chars(d)[i] # "1"
  BY <1>3, <1>6
<1>8. C \subseteq Characters
  BY DEF C
<1>9. Chars(d) \in Seq(Characters)
  BY <1>6, <1>8
<1> QED  BY <1>3, <1>6, <1>7, <1>9 DEF C, n

\* j is a followed by c, entry by entry.
IsJoined(j, S, a, c) ==
    /\ j \in Seq(S) /\ Len(j) = Len(a) + Len(c)
    /\ \A i \in 1..Len(a) : j[i] = a[i]
    /\ \A i \in 1..Len(c) : j[Len(a) + i] = c[i]

\* Concatenation joins sequences.
LEMMA Joined ==
    ASSUME NEW S, NEW a \in Seq(S), NEW c \in Seq(S)
    PROVE  IsJoined(a \o c, S, a, c)
<1>1. Len(a) \in Nat /\ Len(c) \in Nat
  OBVIOUS
<1>2. a \o c \in Seq(S) /\ Len(a \o c) = Len(a) + Len(c)
  OBVIOUS
<1>3. ASSUME NEW i \in 1..Len(a) PROVE (a \o c)[i] = a[i]
  OBVIOUS
<1>4. ASSUME NEW i \in 1..Len(c) PROVE (a \o c)[Len(a) + i] = c[i]
  OBVIOUS
<1> QED  BY <1>2, <1>3, <1>4 DEF IsJoined

\* The string of a prefix and symbols, character by character.
LEMMA WireIs ==
    ASSUME NEW h \in Seq(Characters), NEW d \in Seq(Quintet)
    PROVE  /\ Wire(h, d) \in Seq(Characters) /\ Len(Wire(h, d)) = Len(h) + 1 + Len(d)
           /\ \A i \in 1..Len(h) : Wire(h, d)[i] = h[i]
           /\ Wire(h, d)[Len(h) + 1] = "1"
           /\ \A i \in 1..Len(d) : /\ Wire(h, d)[Len(h) + 1 + i] = B32!CHARSET[d[i] + 1]
                                   /\ Wire(h, d)[Len(h) + 1 + i] # "1"
<1> DEFINE m == Len(h)
           n == Len(d)
           c == Chars(d)
<1>1. m \in Nat /\ n \in Nat
  BY InSeq
<1>2. c \in Seq(Characters) /\ Len(c) = n /\ \A i \in 1..n : c[i] = B32!CHARSET[d[i] + 1] /\ c[i] # "1"
  BY CharsIs
<1> HIDE DEF c
<1>3. <<"1">> \in Seq(Characters) /\ Len(<<"1">>) = 1 /\ <<"1">>[1] = "1"
  BY DEF Characters
<1> DEFINE one == <<"1">>
           b == h \o one
<1> HIDE DEF one
<1>4. one \in Seq(Characters) /\ Len(one) = 1 /\ one[1] = "1"
  BY <1>3 DEF one
<1>5. b \in Seq(Characters) /\ Len(b) = m + 1 /\ b[m + 1] = "1" /\ \A i \in 1..m : b[i] = h[i]
  <2>1. /\ b \in Seq(Characters) /\ Len(b) = m + 1 /\ \A i \in 1..m : b[i] = h[i]
        /\ \A i \in 1..1 : b[m + i] = one[i]
    <3>1. IsJoined(h \o one, Characters, h, one)
      BY <1>4, Joined
    <3> QED  BY <1>4, <3>1 DEF IsJoined
  <2> QED  BY <1>4, <2>1
<1> HIDE DEF b
<1>6. Wire(h, d) = b \o c
  BY DEF Wire, b, one, c
<1>7. /\ b \o c \in Seq(Characters) /\ Len(b \o c) = m + 1 + n
      /\ \A i \in 1..(m + 1) : (b \o c)[i] = b[i]
      /\ \A i \in 1..n : (b \o c)[m + 1 + i] = c[i]
  <2>1. /\ b \o c \in Seq(Characters) /\ Len(b \o c) = Len(b) + Len(c)
        /\ \A i \in 1..Len(b) : (b \o c)[i] = b[i]
        /\ \A i \in 1..Len(c) : (b \o c)[Len(b) + i] = c[i]
    <3>1. IsJoined(b \o c, Characters, b, c)
      BY <1>2, <1>5, Joined
    <3> QED  BY <3>1 DEF IsJoined
  <2> QED  BY <1>2, <1>5, <2>1
<1> HIDE DEF m, n
<1>8. \A i \in 1..m : i \in 1..(m + 1)
  BY <1>1
<1>9. m + 1 \in 1..(m + 1)
  BY <1>1
<1>10. \A i \in 1..m : (b \o c)[i] = h[i]
  BY <1>5, <1>7, <1>8
<1>11. (b \o c)[m + 1] = "1"
  BY <1>5, <1>7, <1>9
<1>12. \A i \in 1..n : (b \o c)[m + 1 + i] = B32!CHARSET[d[i] + 1] /\ (b \o c)[m + 1 + i] # "1"
  BY <1>2, <1>7
<1> QED  BY <1>6, <1>7, <1>10, <1>11, <1>12 DEF m, n

\* Reading the characters of symbols gives the symbols, and nothing else does.
LEMMA SymbolsAre ==
    /\ \A d \in Seq(Quintet) : B32!SymbolsOf(Chars(d)) = {d}
    /\ \A c \in Seq(Characters) : \A d \in B32!SymbolsOf(c) : d \in Seq(Quintet) /\ Chars(d) = c
<1>0. DOMAIN B32!Value = {B32!CHARSET[i] : i \in 1..32}
  BY DEF B32!Value
<1>1. ASSUME NEW i \in 1..32 PROVE B32!Value[B32!CHARSET[i]] = i - 1
  <2>1. B32!At(B32!CHARSET[i], B32!CHARSET) = i
    <3>1. 32 \in Nat
      OBVIOUS
    <3> QED  BY <3>1, CharsetDiffers, AtIs
  <2> QED  BY <2>1 DEF B32!Value
<1>2. ASSUME NEW c \in DOMAIN B32!Value
      PROVE  B32!Value[c] \in Quintet /\ B32!CHARSET[B32!Value[c] + 1] = c
  <2>1. PICK i \in 1..32 : c = B32!CHARSET[i]
    BY <1>0
  <2>2. B32!Value[c] = i - 1 /\ (i - 1) + 1 = i /\ i - 1 \in 0..31
    BY <1>1, <2>1
  <2> QED  BY <2>1, <2>2 DEF Quintet
<1> DEFINE S(c) == [i \in DOMAIN c |-> B32!Value[c[i]]]
<1>3. ASSUME NEW c \in Seq(Characters), \A i \in DOMAIN c : c[i] \in DOMAIN B32!Value
      PROVE  S(c) \in Seq(Quintet) /\ DOMAIN S(c) = DOMAIN c /\ <<>> \o S(c) = S(c) /\ B32!SymbolsOf(c) = {S(c)}
  <2>1. Len(c) \in Nat /\ DOMAIN c = 1..Len(c)
    BY InSeq
  <2>2. \A i \in 1..Len(c) : B32!Value[c[i]] \in Quintet
    BY <1>2, <1>3, <2>1
  <2>3. S(c) \in Seq(Quintet) /\ DOMAIN S(c) = DOMAIN c
    <3> DEFINE n == Len(c)
    <3> HIDE DEF n
    <3>1. n \in Nat /\ DOMAIN c = 1..n /\ \A i \in 1..n : B32!Value[c[i]] \in Quintet
      BY <2>1, <2>2 DEF n
    <3> QED  BY <3>1
  <2> DEFINE s == S(c)
  <2> HIDE DEF s
  <2>4. s \in Seq(Quintet)
    BY <2>3 DEF s
  <2>5. <<>> \o s = s
    BY <2>4, ConcatEmptySeq
  <2>6. B32!SymbolsOf(c) = {<<>> \o S(c)}
    BY <1>3 DEF B32!SymbolsOf, B32!Ok
  <2> QED  BY <2>3, <2>5, <2>6 DEF s
<1>4. ASSUME NEW d \in Seq(Quintet) PROVE B32!SymbolsOf(Chars(d)) = {d}
  <2> DEFINE c == Chars(d)
  <2>1. c \in Seq(Characters) /\ DOMAIN c = 1..Len(d) /\ \A i \in 1..Len(d) : c[i] = B32!CHARSET[d[i] + 1] /\ d[i] + 1 \in 1..32
    <3>1. c \in Seq(Characters) /\ Len(c) = Len(d) /\ \A i \in 1..Len(d) : c[i] = B32!CHARSET[d[i] + 1] /\ d[i] + 1 \in 1..32
      BY CharsIs
    <3> HIDE DEF c
    <3> QED  BY <3>1, InSeq
  <2> HIDE DEF c
  <2>2. \A i \in DOMAIN c : c[i] \in DOMAIN B32!Value
    BY <1>0, <2>1
  <2>3. DOMAIN d = 1..Len(d) /\ \A i \in 1..Len(d) : d[i] \in Quintet
    BY InSeq
  <2>4. ASSUME NEW i \in 1..Len(d) PROVE B32!Value[c[i]] = d[i]
    <3>1. B32!Value[c[i]] = (d[i] + 1) - 1 /\ d[i] \in Quintet
      BY <1>1, <2>1, <2>3
    <3>2. ASSUME NEW x \in Quintet PROVE (x + 1) - 1 = x
      BY DEF Quintet
    <3> QED  BY <3>1, <3>2
  <2>5. S(c) = [i \in 1..Len(d) |-> d[i]]
    BY <2>1, <2>4
  <2>6. S(c) = d
    BY <2>3, <2>5
  <2> QED  BY <1>3, <2>1, <2>2, <2>6 DEF c
<1>5. ASSUME NEW c \in Seq(Characters), NEW d \in B32!SymbolsOf(c)
      PROVE  d \in Seq(Quintet) /\ Chars(d) = c
  <2>1. \A i \in DOMAIN c : c[i] \in DOMAIN B32!Value
    BY DEF B32!SymbolsOf, B32!Err
  <2>2. d = S(c) /\ S(c) \in Seq(Quintet) /\ DOMAIN S(c) = DOMAIN c
    BY <1>3, <2>1
  <2>3. Chars(d) = [i \in DOMAIN c |-> B32!CHARSET[B32!Value[c[i]] + 1]]
    BY <2>2 DEF Chars
  <2>4. Chars(d) = [i \in DOMAIN c |-> c[i]]
    BY <1>2, <2>1, <2>3
  <2>5. c = [i \in DOMAIN c |-> c[i]]
    OBVIOUS
  <2> QED  BY <2>2, <2>4, <2>5
<1> QED  BY <1>4, <1>5

-----------------------------------------------------------------------------
(* Letters in capitals.                                                    *)

\* What to_ascii_lowercase makes of a character.
Lower(c) == IF B32!In(c, B32!Uppers) THEN B32!Lowers[B32!At(c, B32!Uppers)] ELSE c

\* A string whose characters have small forms that spell s is read as s.
LEMMA LowerIs ==
    ASSUME NEW s \in Seq(Characters), NEW t, DOMAIN t = 1..Len(s), \A i \in 1..Len(s) : Lower(t[i]) = s[i]
    PROVE  <<>> \o B32!to_ascii_lowercase(t) = s
<1>1. B32!to_ascii_lowercase(t) = [i \in 1..Len(s) |-> s[i]]
  BY DEF B32!to_ascii_lowercase, Lower
<1>2. s = [i \in 1..Len(s) |-> s[i]]
  BY InSeq
<1>3. <<>> \o s = s
  BY ConcatEmptySeq
<1> QED  BY <1>1, <1>2, <1>3

\* A string without capitals is read as it is.
LEMMA PlainIsLower ==
    ASSUME NEW s \in Seq(Characters)
    PROVE  <<>> \o B32!to_ascii_lowercase(s) = s
<1>1. DOMAIN s = 1..Len(s) /\ \A i \in 1..Len(s) : s[i] \in Characters
  BY InSeq
<1>2. \A i \in 1..Len(s) : Lower(s[i]) = s[i]
  BY <1>1, NoUppers DEF Lower
<1> QED  BY <1>1, <1>2, LowerIs

\* A string with capitals at some places is read as the string itself.
LEMMA CapitalsAreLower ==
    ASSUME NEW s \in Seq(Characters), NEW places
    PROVE  <<>> \o B32!to_ascii_lowercase(Capitals(s, places)) = s
<1> DEFINE t == Capitals(s, places)
<1>1. DOMAIN s = 1..Len(s) /\ \A i \in 1..Len(s) : s[i] \in Characters
  BY InSeq
<1>2. DOMAIN t = 1..Len(s) /\ \A i \in 1..Len(s) : \/ t[i] = s[i]
                                                  \/ /\ B32!In(s[i], B32!Lowers)
                                                     /\ t[i] = B32!Uppers[B32!At(s[i], B32!Lowers)]
  BY <1>1 DEF Capitals
<1> HIDE DEF t
<1>3. ASSUME NEW i \in 1..Len(s) PROVE Lower(t[i]) = s[i]
  <2>1. CASE t[i] = s[i]
    BY <1>1, <2>1, NoUppers DEF Lower
  <2>2. CASE B32!In(s[i], B32!Lowers) /\ t[i] = B32!Uppers[B32!At(s[i], B32!Lowers)]
    <3>0. 26 \in Nat
      OBVIOUS
    <3>1. PICK j \in 1..26 : B32!Lowers[j] = s[i]
      BY <2>2, UppersDiffer DEF B32!In
    <3>2. B32!At(B32!Lowers[j], B32!Lowers) = j
      BY <3>0, UppersDiffer, AtIs
    <3>3. t[i] = B32!Uppers[j]
      BY <2>2, <3>1, <3>2
    <3>4. B32!In(B32!Uppers[j], B32!Uppers) /\ B32!At(B32!Uppers[j], B32!Uppers) = j
      BY <3>0, UppersDiffer, AtIs
    <3> QED  BY <3>1, <3>3, <3>4 DEF Lower
  <2> QED  BY <1>2, <2>1, <2>2
<1>4. <<>> \o B32!to_ascii_lowercase(t) = s
  BY <1>2, <1>3, LowerIs
<1> QED  BY <1>4 DEF t

-----------------------------------------------------------------------------
(* Reading strings.                                                        *)

\* Where a string is parted, if anywhere.
LastOne(u) == {i \in DOMAIN u : /\ u[i] = "1" /\ \A j \in DOMAIN u : u[j] = "1" => j <= i
                                /\ i \in 2..(Len(u) - 6) /\ Len(u) <= 90}

\* Where decode splits a string: at its last "1".
LEMMA SplitIs ==
    ASSUME NEW u
    PROVE  B32!Split(u) = {<<SubSeq(u, 1, i - 1), SubSeq(u, i + 1, Len(u))>> : i \in LastOne(u)}
  BY DEF B32!Split, LastOne

\* The lengths that decode accepts: a prefix, six symbols at least, and 90 characters at
\* most.
Parts(a, b) == Len(a) >= 1 /\ Len(b) >= 6 /\ Len(a) + 1 + Len(b) <= 90

\* What stands before and after an entry of a sequence.
LEMMA SubSeqs ==
    ASSUME NEW S, NEW u \in Seq(S), NEW i \in 1..Len(u)
    PROVE  /\ SubSeq(u, 1, i - 1) \in Seq(S) /\ SubSeq(u, i + 1, Len(u)) \in Seq(S)
           /\ Len(SubSeq(u, 1, i - 1)) = i - 1 /\ Len(SubSeq(u, i + 1, Len(u))) = Len(u) - i
           /\ \A k \in 1..(i - 1) : SubSeq(u, 1, i - 1)[k] = u[k]
           /\ \A k \in 1..(Len(u) - i) : SubSeq(u, i + 1, Len(u))[k] = u[i + k]
<1>1. Len(u) \in Nat
  OBVIOUS
<1>2. SubSeq(u, 1, i - 1) \in Seq(S) /\ SubSeq(u, i + 1, Len(u)) \in Seq(S)
  OBVIOUS
<1>3. Len(SubSeq(u, 1, i - 1)) = i - 1 /\ Len(SubSeq(u, i + 1, Len(u))) = Len(u) - i
  OBVIOUS
<1>4. \A k \in 1..(i - 1) : SubSeq(u, 1, i - 1)[k] = u[k]
  OBVIOUS
<1>5. \A k \in 1..(Len(u) - i) : SubSeq(u, i + 1, Len(u))[k] = u[i + k]
  OBVIOUS
<1> QED  BY <1>2, <1>3, <1>4, <1>5

\* Any string that is parted is the string of its two parts.
LEMMA SplitParts ==
    ASSUME NEW u \in Seq(Characters), NEW i \in LastOne(u)
    PROVE  LET a == SubSeq(u, 1, i - 1)
               b == SubSeq(u, i + 1, Len(u))
           IN  /\ a \in Seq(Characters) /\ b \in Seq(Characters) /\ Parts(a, b)
               /\ u = a \o <<"1">> \o b
<1> DEFINE a == SubSeq(u, 1, i - 1)
           b == SubSeq(u, i + 1, Len(u))
           one == <<"1">>
           n == Len(u)
<1>1. n \in Nat /\ DOMAIN u = 1..n
  BY InSeq
<1>2. i \in 1..n /\ u[i] = "1" /\ i >= 2 /\ i <= n - 6 /\ n <= 90
  BY <1>1 DEF LastOne
<1>3. /\ a \in Seq(Characters) /\ b \in Seq(Characters) /\ Len(a) = i - 1 /\ Len(b) = n - i
      /\ \A k \in 1..(i - 1) : a[k] = u[k]
      /\ \A k \in 1..(n - i) : b[k] = u[i + k]
  BY <1>2, SubSeqs
<1>4. one \in Seq(Characters) /\ Len(one) = 1 /\ one[1] = "1"
  BY DEF Characters
<1> HIDE DEF a, b, one, n
<1>5. IsJoined(a \o one, Characters, a, one)
  BY <1>3, <1>4, Joined
<1> DEFINE c == a \o one
<1>6. c \in Seq(Characters) /\ Len(c) = i /\ c[i] = "1" /\ \A k \in 1..(i - 1) : c[k] = u[k]
  <2>1. /\ a \o one \in Seq(Characters) /\ Len(a \o one) = (i - 1) + 1
        /\ \A k \in 1..(i - 1) : (a \o one)[k] = a[k]
        /\ (a \o one)[(i - 1) + 1] = one[1]
    BY <1>3, <1>4, <1>5 DEF IsJoined
  <2>2. (i - 1) + 1 = i
    BY <1>1, <1>2
  <2> QED  BY <1>3, <1>4, <2>1, <2>2
<1> HIDE DEF c
<1>7. IsJoined(c \o b, Characters, c, b)
  BY <1>3, <1>6, Joined
<1> DEFINE w == c \o b
<1>8. w \in Seq(Characters) /\ Len(w) = n /\ (\A k \in 1..i : w[k] = c[k]) /\ (\A k \in 1..(n - i) : w[i + k] = b[k])
  <2>1. Len(c) + Len(b) = n
    BY <1>1, <1>2, <1>3, <1>6
  <2> QED  BY <1>3, <1>6, <1>7, <2>1 DEF IsJoined
<1> HIDE DEF w
<1>9. ASSUME NEW k \in 1..n PROVE w[k] = u[k]
  <2>1. CASE k <= i - 1
    <3>1. k \in 1..(i - 1) /\ k \in 1..i
      BY <1>1, <1>2, <2>1
    <3> QED  BY <1>6, <1>8, <3>1
  <2>2. CASE k = i
    <3>1. i \in 1..i
      BY <1>1, <1>2
    <3> QED  BY <1>2, <1>6, <1>8, <2>2, <3>1
  <2>3. CASE k > i
    <3>1. k - i \in 1..(n - i) /\ i + (k - i) = k
      BY <1>1, <1>2, <2>3
    <3> QED  BY <1>3, <1>8, <3>1
  <2> QED  BY <1>1, <1>2, <2>1, <2>2, <2>3
<1>10. w = u
  <2>1. w = [k \in 1..n |-> w[k]] /\ u = [k \in 1..n |-> u[k]]
    BY <1>1, <1>8, InSeq
  <2> QED  BY <1>9, <2>1
<1>11. Parts(a, b)
  BY <1>1, <1>2, <1>3 DEF Parts
<1> QED  BY <1>3, <1>10, <1>11 DEF w, c, one, a, b, n

\* The string of a prefix and symbols is parted between them.
LEMMA SplitWire ==
    ASSUME NEW h \in Seq(Characters), NEW d \in Seq(Quintet)
    PROVE  B32!Split(Wire(h, d)) = IF Parts(h, d) THEN {<<h, Chars(d)>>} ELSE {}
<1> DEFINE u == Wire(h, d)
           m == Len(h)
           n == Len(d)
<1>1. m \in Nat /\ n \in Nat /\ DOMAIN h = 1..m
  BY InSeq
<1>2. /\ u \in Seq(Characters) /\ Len(u) = m + 1 + n
      /\ \A i \in 1..m : u[i] = h[i]
      /\ u[m + 1] = "1"
      /\ \A i \in 1..n : u[m + 1 + i] = B32!CHARSET[d[i] + 1] /\ u[m + 1 + i] # "1"
  BY WireIs
<1>3. Chars(d) \in Seq(Characters) /\ Len(Chars(d)) = n /\ \A i \in 1..n : Chars(d)[i] = B32!CHARSET[d[i] + 1]
  BY CharsIs
<1> HIDE DEF u
<1>4. DOMAIN u = 1..(m + 1 + n)
  BY <1>2, InSeq
<1>5. Parts(h, d) <=> m >= 1 /\ n >= 6 /\ m + 1 + n <= 90
  BY DEF Parts
<1> HIDE DEF m, n
<1>6. ASSUME NEW j \in 1..(m + 1 + n), u[j] = "1" PROVE j <= m + 1
  <2> SUFFICES ASSUME j > m + 1 PROVE FALSE
    BY <1>1
  <2>1. j - (m + 1) \in 1..n /\ m + 1 + (j - (m + 1)) = j
    BY <1>1
  <2> QED  BY <1>2, <1>6, <2>1
<1>7. LastOne(u) = IF Parts(h, d) THEN {m + 1} ELSE {}
  <2>1. ASSUME NEW i \in LastOne(u) PROVE i = m + 1 /\ Parts(h, d)
    <3>1. /\ i \in 1..(m + 1 + n) /\ u[i] = "1" /\ (\A j \in 1..(m + 1 + n) : u[j] = "1" => j <= i)
          /\ i >= 2 /\ i <= (m + 1 + n) - 6 /\ m + 1 + n <= 90
      <4>1. i \in DOMAIN u /\ u[i] = "1" /\ (\A j \in DOMAIN u : u[j] = "1" => j <= i)
        BY DEF LastOne
      <4>2. i \in 2..(Len(u) - 6) /\ Len(u) <= 90
        BY DEF LastOne
      <4>3. Len(u) = m + 1 + n
        BY <1>2
      <4>4. i >= 2 /\ i <= (m + 1 + n) - 6 /\ m + 1 + n <= 90
        BY <1>1, <4>2, <4>3
      <4> QED  BY <1>4, <4>1, <4>4
    <3>2. m + 1 \in 1..(m + 1 + n)
      BY <1>1
    <3>3. m + 1 <= i /\ i <= m + 1
      BY <1>2, <1>6, <3>1, <3>2
    <3>4. i = m + 1
      BY <1>1, <3>1, <3>3
    <3> QED  BY <1>1, <1>5, <3>1, <3>4
  <2>2. ASSUME Parts(h, d) PROVE m + 1 \in LastOne(u)
    <3>1. m + 1 \in 1..(m + 1 + n) /\ m + 1 \in 2..((m + 1 + n) - 6) /\ m + 1 + n <= 90
      BY <1>1, <1>5, <2>2
    <3> QED  BY <1>2, <1>4, <1>6, <3>1 DEF LastOne
  <2> QED  BY <2>1, <2>2
<1>8. SubSeq(u, 1, (m + 1) - 1) = h /\ SubSeq(u, (m + 1) + 1, Len(u)) = Chars(d)
  <2> DEFINE i == m + 1
             a == SubSeq(u, 1, i - 1)
             b == SubSeq(u, i + 1, Len(u))
  <2>1. i \in 1..Len(u) /\ i - 1 = m /\ Len(u) - i = n
    BY <1>1, <1>2
  <2> HIDE DEF i
  <2>2. /\ a \in Seq(Characters) /\ b \in Seq(Characters) /\ Len(a) = m /\ Len(b) = n
        /\ \A k \in 1..m : a[k] = u[k]
        /\ \A k \in 1..n : b[k] = u[i + k]
    BY <1>2, <2>1, SubSeqs, ZenonT(60)
  <2> HIDE DEF a, b
  <2>3. \A k \in 1..m : a[k] = h[k]
    BY <1>2, <2>2
  <2>4. \A k \in 1..n : b[k] = Chars(d)[k]
    BY <1>2, <1>3, <2>2 DEF i
  <2>5. a = h
    <3>1. a = [k \in 1..m |-> a[k]] /\ h = [k \in 1..m |-> h[k]]
      BY <1>1, <2>2, InSeq
    <3> QED  BY <2>3, <3>1
  <2>6. b = Chars(d)
    <3> DEFINE c == Chars(d)
    <3> HIDE DEF c
    <3>1. b = [k \in 1..n |-> b[k]] /\ c = [k \in 1..n |-> c[k]]
      <4>1. c \in Seq(Characters) /\ Len(c) = n
        BY <1>3 DEF c
      <4> QED  BY <2>2, <4>1, InSeq
    <3>2. \A k \in 1..n : b[k] = c[k]
      BY <2>4 DEF c
    <3> QED  BY <3>1, <3>2 DEF c
  <2> QED  BY <2>5, <2>6 DEF a, b, i
<1>9. B32!Split(u) = {<<SubSeq(u, 1, i - 1), SubSeq(u, i + 1, Len(u))>> : i \in LastOne(u)}
  BY SplitIs
<1>10. CASE Parts(h, d)
  <2>1. LastOne(u) = {m + 1}
    BY <1>7, <1>10
  <2>2. B32!Split(u) = {<<SubSeq(u, 1, (m + 1) - 1), SubSeq(u, (m + 1) + 1, Len(u))>>}
    BY <1>9, <2>1
  <2> QED  BY <1>8, <1>10, <2>2 DEF u
<1>11. CASE ~Parts(h, d)
  <2>1. LastOne(u) = {}
    BY <1>7, <1>11
  <2> QED  BY <1>9, <1>11, <2>1 DEF u
<1> QED  BY <1>10, <1>11

\* What the decoder makes of symbols.
Unchecked(d) == SubSeq(d, 1, Len(d) - 6)
BytesOf(d) == B32!convert_bits(Unchecked(d), 5, 8, FALSE)

\* decode, in terms of the parts: it splits, looks the symbols up, verifies them and
\* converts them to bytes.
LEMMA DecodeIs ==
    ASSUME NEW t, NEW u, u = <<>> \o B32!to_ascii_lowercase(t)
    PROVE  /\ \A r \in B32!decode(t) : \E q \in B32!Split(u) : \E d \in B32!SymbolsOf(q[2]) :
                  B32!verify_checksum(q[1], d) /\ \E b \in BytesOf(d) : r = <<q[1], b>>
           /\ \A q \in B32!Split(u) : \A d \in B32!SymbolsOf(q[2]) :
                  B32!verify_checksum(q[1], d) => \A b \in BytesOf(d) : <<q[1], b>> \in B32!decode(t)
<1> DEFINE Fit(q) == {d \in B32!SymbolsOf(q[2]) : B32!verify_checksum(q[1], d)}
           All(q) == UNION {BytesOf(d) : d \in Fit(q)}
           Pairs(q) == {<<q[1], b>> : b \in All(q)}
<1>1. B32!decode(t) = UNION {Pairs(q) : q \in B32!Split(u)}
  BY DEF B32!decode, BytesOf, Unchecked
<1>2. ASSUME NEW r \in B32!decode(t)
      PROVE  \E q \in B32!Split(u) : \E d \in B32!SymbolsOf(q[2]) :
                 B32!verify_checksum(q[1], d) /\ \E b \in BytesOf(d) : r = <<q[1], b>>
  <2> HIDE DEF Pairs
  <2>1. PICK q \in B32!Split(u) : r \in Pairs(q)
    BY <1>1
  <2>2. PICK b \in All(q) : r = <<q[1], b>>
    BY <2>1 DEF Pairs
  <2>3. PICK d \in Fit(q) : b \in BytesOf(d)
    BY <2>2
  <2> QED  BY <2>2, <2>3
<1>3. ASSUME NEW q \in B32!Split(u), NEW d \in B32!SymbolsOf(q[2]), B32!verify_checksum(q[1], d), NEW b \in BytesOf(d)
      PROVE  <<q[1], b>> \in B32!decode(t)
  <2>1. d \in Fit(q)
    BY <1>3
  <2> HIDE DEF Fit
  <2>2. b \in All(q)
    BY <2>1
  <2> HIDE DEF All
  <2>3. <<q[1], b>> \in Pairs(q)
    BY <2>2
  <2> HIDE DEF Pairs
  <2> QED  BY <1>1, <2>3
<1> QED  BY <1>2, <1>3

\* What decodes is the string of a prefix and symbols.
LEMMA DecodedIsWire ==
    ASSUME NEW u \in Seq(Characters), NEW t, u = <<>> \o B32!to_ascii_lowercase(t), NEW r \in B32!decode(t)
    PROVE  \E h \in Seq(Characters) : \E d \in Seq(Quintet) : u = Wire(h, d)
<1>1. PICK q \in B32!Split(u) : \E d \in B32!SymbolsOf(q[2]) : TRUE
  BY DecodeIs
<1>2. PICK d \in B32!SymbolsOf(q[2]) : TRUE
  BY <1>1
<1>3. PICK i \in LastOne(u) : q = <<SubSeq(u, 1, i - 1), SubSeq(u, i + 1, Len(u))>>
  BY SplitIs
<1> DEFINE a == SubSeq(u, 1, i - 1)
           b == SubSeq(u, i + 1, Len(u))
<1>4. a \in Seq(Characters) /\ b \in Seq(Characters) /\ u = a \o <<"1">> \o b
  BY SplitParts
<1>5. q[2] = b
  BY <1>3
<1> HIDE DEF a, b
<1>6. d \in Seq(Quintet) /\ Chars(d) = b
  BY <1>2, <1>4, <1>5, SymbolsAre
<1>7. u = Wire(a, d)
  BY <1>4, <1>6 DEF Wire
<1> QED  BY <1>4, <1>6, <1>7

\* What the string of a prefix and symbols decodes to.
LEMMA DecodeWire ==
    ASSUME NEW h \in Seq(Characters), NEW d \in Seq(Quintet), NEW t,
           Wire(h, d) = <<>> \o B32!to_ascii_lowercase(t)
    PROVE  /\ \A r \in B32!decode(t) :
                  Parts(h, d) /\ B32!verify_checksum(h, d) /\ r[1] = h /\ r[2] \in BytesOf(d) /\ r = <<r[1], r[2]>>
           /\ Parts(h, d) /\ B32!verify_checksum(h, d) => \A b \in BytesOf(d) : <<h, b>> \in B32!decode(t)
<1> DEFINE u == Wire(h, d)
           c == Chars(d)
<1>1. B32!Split(u) = IF Parts(h, d) THEN {<<h, c>>} ELSE {}
  BY SplitWire
<1>2. B32!SymbolsOf(c) = {d}
  BY SymbolsAre
<1> HIDE DEF u, c
<1>3. u = <<>> \o B32!to_ascii_lowercase(t)
  BY DEF u
<1>4. <<h, c>>[1] = h /\ <<h, c>>[2] = c
  OBVIOUS
<1>5. ASSUME NEW r \in B32!decode(t)
      PROVE  Parts(h, d) /\ B32!verify_checksum(h, d) /\ r[1] = h /\ r[2] \in BytesOf(d) /\ r = <<r[1], r[2]>>
  <2>1. PICK q \in B32!Split(u) : \E e \in B32!SymbolsOf(q[2]) :
            B32!verify_checksum(q[1], e) /\ \E b \in BytesOf(e) : r = <<q[1], b>>
    BY <1>3, DecodeIs
  <2>2. Parts(h, d) /\ q = <<h, c>>
    BY <1>1
  <2>3. B32!verify_checksum(h, d) /\ \E b \in BytesOf(d) : r = <<h, b>>
    BY <1>2, <1>4, <2>1, <2>2
  <2>4. PICK b \in BytesOf(d) : r = <<h, b>>
    BY <2>3
  <2> QED  BY <2>2, <2>3, <2>4
<1>6. ASSUME Parts(h, d), B32!verify_checksum(h, d), NEW b \in BytesOf(d) PROVE <<h, b>> \in B32!decode(t)
  <2>1. <<h, c>> \in B32!Split(u)
    BY <1>1, <1>6
  <2>2. d \in B32!SymbolsOf(<<h, c>>[2]) /\ B32!verify_checksum(<<h, c>>[1], d)
    BY <1>2, <1>4, <1>6
  <2>3. <<<<h, c>>[1], b>> \in B32!decode(t)
    BY <1>3, <1>6, <2>1, <2>2, DecodeIs
  <2> QED  BY <1>4, <2>3
<1> QED  BY <1>5, <1>6

-----------------------------------------------------------------------------
(* Strings that are made.                                                  *)

\* Symbols with their checksum, and the string of them.
Checked(hrp, v) == v \o B32!create_checksum(hrp, v)
Spelling(hrp, v) == Wire(hrp, Checked(hrp, v))

\* Symbols with their checksum verify, and encode spells them one way.
LEMMA CheckedIs ==
    ASSUME NEW hrp \in Prefixes, NEW v \in Seq(Quintet)
    PROVE  /\ Checked(hrp, v) \in Seq(Quintet) /\ Len(Checked(hrp, v)) = Len(v) + 6
           /\ Unchecked(Checked(hrp, v)) = v
           /\ B32!verify_checksum(hrp, Checked(hrp, v))
           /\ B32!Spelt(hrp, v) = {Spelling(hrp, v)}
           /\ Spelling(hrp, v) \in Seq(Characters)
<1> DEFINE k == B32!create_checksum(hrp, v)
<1>1. k \in State /\ B32!verify_checksum(hrp, v \o k)
  BY Verified
<1>2. B32!Spelt(hrp, v) = {Spelling(hrp, v)}
  BY DEF B32!Spelt, Spelling, Wire, Chars, Checked
<1> HIDE DEF k
<1>3. k \in Seq(Quintet) /\ Len(k) = 6
  BY <1>1, StateIs
<1>4. IsJoined(v \o k, Quintet, v, k)
  BY <1>3, Joined
<1> DEFINE d == v \o k
           n == Len(v)
<1>5. n \in Nat /\ DOMAIN v = 1..n
  BY InSeq
<1>6. d \in Seq(Quintet) /\ Len(d) = n + 6 /\ \A i \in 1..n : d[i] = v[i]
  BY <1>3, <1>4 DEF IsJoined
<1> HIDE DEF d
<1>7. Unchecked(d) = v
  <2> DEFINE i == n + 1
             a == SubSeq(d, 1, i - 1)
  <2>1. i \in 1..Len(d) /\ i - 1 = n /\ Len(d) - 6 = n
    BY <1>5, <1>6
  <2> HIDE DEF i, n
  <2>2. a \in Seq(Quintet) /\ Len(a) = n /\ \A j \in 1..n : a[j] = d[j]
    BY <1>6, <2>1, SubSeqs
  <2> HIDE DEF a
  <2>3. a = [j \in 1..n |-> a[j]] /\ v = [j \in 1..n |-> v[j]]
    BY <1>5, <2>2, InSeq
  <2>4. a = v
    BY <1>6, <2>2, <2>3
  <2> QED  BY <2>1, <2>4 DEF Unchecked, a
<1>8. Checked(hrp, v) = d
  BY DEF Checked, d, k
<1>9. hrp \in Seq(Characters)
  BY PrefixIs
<1>10. Spelling(hrp, v) \in Seq(Characters)
  BY <1>6, <1>8, <1>9, WireIs DEF Spelling
<1> QED  BY <1>1, <1>2, <1>6, <1>7, <1>8, <1>10 DEF d, n

\* A string that is made is read as what its symbols are the bits of.
LEMMA SpellingIsRead ==
    ASSUME NEW hrp \in Prefixes, NEW v \in Seq(Quintet), NEW t,
           Spelling(hrp, v) = <<>> \o B32!to_ascii_lowercase(t)
    PROVE  /\ \A r \in B32!decode(t) :
                 /\ Parts(hrp, Checked(hrp, v)) /\ r[1] = hrp /\ r = <<r[1], r[2]>>
                 /\ r[2] \in B32!convert_bits(v, 5, 8, FALSE)
           /\ Parts(hrp, Checked(hrp, v)) =>
                 \A b \in B32!convert_bits(v, 5, 8, FALSE) : <<hrp, b>> \in B32!decode(t)
<1> DEFINE d == Checked(hrp, v)
<1>1. d \in Seq(Quintet) /\ Unchecked(d) = v /\ B32!verify_checksum(hrp, d) /\ hrp \in Seq(Characters)
  BY CheckedIs, PrefixIs
<1>2. BytesOf(d) = B32!convert_bits(v, 5, 8, FALSE)
  BY <1>1 DEF BytesOf
<1>3. Wire(hrp, d) = <<>> \o B32!to_ascii_lowercase(t)
  BY DEF Spelling
<1> HIDE DEF d
<1>4. \A r \in B32!decode(t) :
          Parts(hrp, d) /\ B32!verify_checksum(hrp, d) /\ r[1] = hrp /\ r[2] \in BytesOf(d) /\ r = <<r[1], r[2]>>
  BY <1>1, <1>3, DecodeWire
<1>5. Parts(hrp, d) => \A b \in BytesOf(d) : <<hrp, b>> \in B32!decode(t)
  BY <1>1, <1>3, DecodeWire
<1> QED  BY <1>2, <1>4, <1>5 DEF d

\* encode spells bytes as the symbols that hold them, with zero bits below.
LEMMA BytesArePadded ==
    ASSUME NEW hrp \in Prefixes, NEW b \in Seq(Octet)
    PROVE  \E v, zeros : Encodes(v, b, zeros) /\ B32!encode(hrp, b) = {Spelling(hrp, v)}
<1>1. PICK v, zeros : B32!convert_bits(b, 8, 5, TRUE) = {v} /\ Encodes(v, b, zeros)
  BY EncodedBytes
<1>2. v \in Seq(Quintet)
  BY <1>1 DEF Encodes
<1>3. B32!encode(hrp, b) = UNION {B32!Spelt(hrp, x) : x \in {v}}
  BY <1>1 DEF B32!encode
<1>4. B32!Spelt(hrp, v) = {Spelling(hrp, v)}
  BY <1>2, CheckedIs
<1>5. B32!encode(hrp, b) = {Spelling(hrp, v)}
  BY <1>3, <1>4
<1> QED  BY <1>1, <1>5

\* A string that is made and that decodes is the encoding of what it decodes to.
LEMMA SpellingIsCanonical ==
    ASSUME NEW hrp \in Prefixes, NEW v \in Seq(Quintet), NEW r \in B32!decode(Spelling(hrp, v))
    PROVE  /\ r[1] = hrp /\ r[2] \in Seq(Octet) /\ Len(Spelling(hrp, v)) <= 90
           /\ B32!encode(hrp, r[2]) = {Spelling(hrp, v)}
<1> DEFINE t == Spelling(hrp, v)
           b == r[2]
<1>1. t \in Seq(Characters)
  BY CheckedIs
<1>2. t = <<>> \o B32!to_ascii_lowercase(t)
  BY <1>1, PlainIsLower
<1>3. Parts(hrp, Checked(hrp, v)) /\ r[1] = hrp /\ b \in B32!convert_bits(v, 5, 8, FALSE)
  BY <1>2, SpellingIsRead
<1>4. Len(t) <= 90
  <2>1. Checked(hrp, v) \in Seq(Quintet) /\ hrp \in Seq(Characters)
    BY CheckedIs, PrefixIs
  <2>2. Len(t) = Len(hrp) + 1 + Len(Checked(hrp, v))
    BY <2>1, WireIs DEF Spelling
  <2> QED  BY <1>3, <2>2 DEF Parts
<1> HIDE DEF b
<1>5. \E zeros : Encodes(v, b, zeros)
  <2>1. CASE \E x, zeros : B32!convert_bits(v, 5, 8, FALSE) = {x} /\ Encodes(v, x, zeros)
    BY <1>3, <2>1
  <2>2. CASE B32!convert_bits(v, 5, 8, FALSE) = {}
    BY <1>3, <2>2
  <2> QED  BY <2>1, <2>2, DecodedValues
<1>6. PICK zeros : Encodes(v, b, zeros)
  BY <1>5
<1>7. b \in Seq(Octet)
  BY <1>6 DEF Encodes
<1>8. PICK w, z : Encodes(w, b, z) /\ B32!encode(hrp, b) = {Spelling(hrp, w)}
  BY <1>7, BytesArePadded
<1>9. w = v
  BY <1>6, <1>8, OneCode
<1> QED  BY <1>3, <1>4, <1>7, <1>8, <1>9 DEF b

-----------------------------------------------------------------------------
(* Keys.                                                                   *)

\* The keys of the model.
Keys == [1..KeyLen -> KeyBytes]

\* A key is KeyLen bytes.
LEMMA KeyIs ==
    ASSUME NEW key \in Keys
    PROVE  key \in Seq(Octet) /\ Len(key) = KeyLen /\ KeyLen \in 1..49
<1>1. KeyLen \in 1..49 /\ KeyBytes \subseteq 0..255
  BY EnvelopesAssumption
<1>2. KeyBytes \subseteq Octet
  BY <1>1 DEF Octet
<1>3. DOMAIN key = 1..KeyLen /\ \A i \in 1..KeyLen : key[i] \in Octet
  BY <1>2 DEF Keys
<1>4. key = [i \in 1..KeyLen |-> key[i]]
  BY DEF Keys
<1>5. KeyLen \in Nat
  BY <1>1
<1> DEFINE n == KeyLen
<1> HIDE DEF n
<1>6. n \in Nat /\ key = [i \in 1..n |-> key[i]] /\ \A i \in 1..n : key[i] \in Octet
  BY <1>3, <1>4, <1>5 DEF n
<1>7. key \in Seq(Octet) /\ Len(key) = n
  BY <1>6
<1> QED  BY <1>1, <1>7 DEF n

\* The string of a key is short enough to decode.
LEMMA KeyFits ==
    ASSUME NEW hrp \in Prefixes, NEW b, NEW v, NEW zeros, Encodes(v, b, zeros), Len(b) = KeyLen
    PROVE  Parts(hrp, Checked(hrp, v)) /\ v \in Seq(Quintet)
<1>1. v \in Seq(Quintet) /\ zeros \in 0..4 /\ 5 * Len(v) = 8 * KeyLen + zeros
  BY DEF Encodes
<1>2. KeyLen \in 1..49
  BY EnvelopesAssumption
<1>3. Len(Checked(hrp, v)) = Len(v) + 6 /\ Len(hrp) \in 1..4
  BY <1>1, CheckedIs, PrefixIs
<1>4. Len(v) \in Nat
  BY <1>1
<1> DEFINE n == Len(v)
           m == Len(hrp)
<1> HIDE DEF n, m
<1>5. n \in Nat /\ m \in 1..4 /\ 5 * n = 8 * KeyLen + zeros
  BY <1>1, <1>3, <1>4 DEF n, m
<1>6. m >= 1 /\ n + 6 >= 6 /\ m + 1 + (n + 6) <= 90
  BY <1>1, <1>2, <1>5
<1> QED  BY <1>1, <1>3, <1>6 DEF n, m, Parts

\* Decoded as a key.
KeyOf(hrp, r) == r[1] = hrp /\ Len(r[2]) = KeyLen

\* decode_key, in terms of decode: the expected prefix, and a key's number of bytes.
LEMMA DecodeKeyIs ==
    ASSUME NEW hrp, NEW t
    PROVE  /\ \A k \in B32!decode_key(hrp, t) : \E r \in B32!decode(t) : KeyOf(hrp, r) /\ k = r[2]
           /\ \A r \in B32!decode(t) : KeyOf(hrp, r) => r[2] \in B32!decode_key(hrp, t)
  BY DEF B32!decode_key, KeyOf

\* The string of a key, in whatever case, is read as the key.
LEMMA KeyIsRead ==
    ASSUME NEW hrp \in Prefixes, NEW key \in Keys, NEW v, NEW zeros, Encodes(v, key, zeros), NEW t,
           Spelling(hrp, v) = <<>> \o B32!to_ascii_lowercase(t)
    PROVE  B32!decode_key(hrp, t) = {key}
<1>1. Len(key) = KeyLen
  BY KeyIs
<1>2. Parts(hrp, Checked(hrp, v)) /\ v \in Seq(Quintet)
  BY <1>1, KeyFits
<1>3. B32!convert_bits(v, 5, 8, FALSE) = {key}
  <2>1. PICK b, z : B32!convert_bits(v, 5, 8, FALSE) = {b} /\ Encodes(v, b, z)
    BY <1>2, DecodedValues
  <2>2. key = b
    BY <2>1, OneCode
  <2> QED  BY <2>1, <2>2
<1>4. <<hrp, key>> \in B32!decode(t)
  BY <1>2, <1>3, SpellingIsRead
<1>5. KeyOf(hrp, <<hrp, key>>) /\ <<hrp, key>>[2] = key
  BY <1>1 DEF KeyOf
<1>6. key \in B32!decode_key(hrp, t)
  BY <1>4, <1>5, DecodeKeyIs
<1>7. ASSUME NEW k \in B32!decode_key(hrp, t) PROVE k = key
  <2>1. PICK r \in B32!decode(t) : k = r[2]
    BY DecodeKeyIs
  <2>2. r[2] \in B32!convert_bits(v, 5, 8, FALSE)
    BY <1>2, SpellingIsRead
  <2> QED  BY <1>3, <2>1, <2>2
<1> QED  BY <1>6, <1>7

-----------------------------------------------------------------------------
(* Damaged keys.                                                           *)

\* Two strings with the same prefix that both pass, and of the same length, do not
\* differ by so little.
LEMMA ChecksumTells ==
    ASSUME NEW hrp \in Prefixes, NEW d \in Seq(Quintet), NEW e \in Seq(Quintet), Len(d) = Len(e),
           B32!verify_checksum(hrp, d), B32!verify_checksum(hrp, e), NEW i \in 1..Len(d)
    PROVE  Replaced(d, e, i) \/ Exchanged(d, e, i) => d[i] = e[i]
<1> DEFINE h == B32!hrp_expand(hrp)
           m == Len(h)
           n == Len(d)
           s == h \o d
           t == h \o e
<1>1. h \in Seq(Quintet)
  BY Expanded
<1>2. B32!polymod(s) = B32!polymod(t)
  BY DEF B32!verify_checksum
<1> HIDE DEF h
<1>3. m \in Nat /\ n \in Nat /\ (\A k \in 1..n : d[k] \in Quintet /\ e[k] \in Quintet)
  BY <1>1, InSeq
<1>4. IsJoined(s, Quintet, h, d) /\ IsJoined(t, Quintet, h, e)
  BY <1>1, Joined
<1> HIDE DEF s, t
<1>5. /\ s \in Seq(Quintet) /\ t \in Seq(Quintet) /\ Len(s) = m + n /\ Len(t) = m + n
      /\ \A k \in 1..m : s[k] = h[k] /\ t[k] = h[k]
      /\ \A k \in 1..n : s[m + k] = d[k] /\ t[m + k] = e[k]
  BY <1>4 DEF IsJoined
<1> HIDE DEF m, n
<1> DEFINE j == m + i
<1>6. i \in 1..n /\ j \in 1..Len(s) /\ s[j] = d[i] /\ t[j] = e[i]
  BY <1>3, <1>5 DEF n
<1>7. ASSUME Replaced(d, e, i) PROVE d[i] = e[i]
  <2>1. ASSUME NEW k \in 1..Len(s), k # j PROVE s[k] = t[k]
    <3>1. CASE k <= m
      <4>1. k \in 1..m
        BY <1>3, <1>5, <3>1
      <4> QED  BY <1>5, <4>1
    <3>2. CASE k > m
      <4>1. k - m \in 1..n /\ m + (k - m) = k /\ k - m # i
        BY <1>3, <1>5, <1>6, <2>1, <3>2
      <4>2. e[k - m] = d[k - m]
        BY <1>7, <4>1 DEF Replaced, n
      <4> QED  BY <1>5, <4>1, <4>2
    <3> QED  BY <1>3, <1>5, <3>1, <3>2
  <2> HIDE DEF j
  <2>2. Replaced(s, t, j)
    BY <2>1 DEF Replaced
  <2>3. s[j] = t[j]
    BY <1>2, <1>5, <1>6, <2>2, PolymodTells
  <2> QED  BY <1>6, <2>3
<1>8. ASSUME Exchanged(d, e, i) PROVE d[i] = e[i]
  <2>0. i + 1 \in 1..n /\ e[i] = d[i + 1] /\ e[i + 1] = d[i] /\ m + (i + 1) = j + 1 /\ j < Len(s)
    <3>1. i + 1 \in 1..n /\ e[i] = d[i + 1] /\ e[i + 1] = d[i]
      BY <1>8 DEF Exchanged, n
    <3>2. i \in Int /\ m + (i + 1) = (m + i) + 1 /\ m + i < m + n
      BY <1>3, <1>6, <3>1
    <3> QED  BY <1>5, <3>1, <3>2
  <2>1. ASSUME NEW k \in 1..Len(s), k \notin {j, j + 1} PROVE s[k] = t[k]
    <3>1. CASE k <= m
      <4>1. k \in 1..m
        BY <1>3, <1>5, <3>1
      <4> QED  BY <1>5, <4>1
    <3>2. CASE k > m
      <4>1. k - m \in 1..n /\ m + (k - m) = k /\ k - m \notin {i, i + 1}
        BY <1>3, <1>5, <1>6, <2>1, <3>2
      <4>2. e[k - m] = d[k - m]
        BY <1>8, <4>1 DEF Exchanged, n
      <4> QED  BY <1>5, <4>1, <4>2
    <3> QED  BY <1>3, <1>5, <3>1, <3>2
  <2>2. t[j] = s[j + 1] /\ t[j + 1] = s[j]
    <3>1. s[m + (i + 1)] = d[i + 1] /\ t[m + (i + 1)] = e[i + 1]
      BY <1>5, <2>0
    <3>2. s[j + 1] = d[i + 1] /\ t[j + 1] = e[i + 1]
      BY <2>0, <3>1
    <3> QED  BY <1>6, <2>0, <3>2
  <2> HIDE DEF j
  <2>3. j + 1 \in 1..Len(s)
    BY <1>3, <1>5, <1>6, <2>0
  <2>4. Exchanged(s, t, j)
    BY <2>1, <2>2, <2>3 DEF Exchanged
  <2>5. s[j] = t[j]
    BY <1>2, <1>5, <1>6, <2>4, PolymodTells
  <2> QED  BY <1>6, <2>5
<1> QED  BY <1>7, <1>8

\* Symbols with the same character are the same.
LEMMA SymbolsTold ==
    ASSUME NEW x \in Quintet, NEW y \in Quintet, B32!CHARSET[x + 1] = B32!CHARSET[y + 1]
    PROVE  x = y
<1>1. x + 1 \in 1..32 /\ y + 1 \in 1..32
  BY SMTT(30) DEF Quintet
<1>2. x + 1 = y + 1
  BY <1>1, CharsetDiffers
<1> QED  BY <1>2 DEF Quintet

\* Two strings that pass, with one prefix and of one length, do not differ by so little.
LEMMA StringTells ==
    ASSUME NEW hrp \in Prefixes, NEW d \in Seq(Quintet), NEW e \in Seq(Quintet), Len(d) = Len(e),
           B32!verify_checksum(hrp, d), B32!verify_checksum(hrp, e),
           NEW s, NEW t, s = Wire(hrp, d), t = Wire(hrp, e), NEW i \in 1..Len(s),
           Replaced(s, t, i) \/ Exchanged(s, t, i)
    PROVE  s = t
<1> DEFINE m == Len(hrp) + 1
           n == Len(d)
<1>0. hrp \in Seq(Characters) /\ Len(hrp) \in 1..4
  BY PrefixIs
<1>1. m \in Nat /\ n \in Nat /\ Len(hrp) \in Nat /\ Len(e) = n
  BY <1>0, InSeq
<1>2. /\ s \in Seq(Characters) /\ Len(s) = m + n
      /\ (\A k \in 1..Len(hrp) : s[k] = hrp[k]) /\ s[m] = "1"
      /\ \A k \in 1..n : s[m + k] = B32!CHARSET[d[k] + 1] /\ s[m + k] # "1"
  BY <1>0, WireIs
<1>3. /\ t \in Seq(Characters) /\ Len(t) = m + n
      /\ (\A k \in 1..Len(hrp) : t[k] = hrp[k]) /\ t[m] = "1"
      /\ \A k \in 1..n : t[m + k] = B32!CHARSET[e[k] + 1]
  <2> DEFINE w == Wire(hrp, e)
             l == Len(e)
  <2>1. /\ w \in Seq(Characters) /\ Len(w) = m + l
        /\ (\A k \in 1..Len(hrp) : w[k] = hrp[k]) /\ w[m] = "1"
        /\ \A k \in 1..l : w[m + k] = B32!CHARSET[e[k] + 1] /\ w[m + k] # "1"
    BY <1>0, WireIs
  <2>2. w = t /\ l = n
    BY <1>1
  <2> HIDE DEF w, l, m, n
  <2> QED  BY <2>1, <2>2
<1>4. \A k \in 1..n : d[k] \in Quintet /\ e[k] \in Quintet
  BY <1>1, InSeq
<1>5. ASSUME NEW k \in 1..m PROVE s[k] = t[k]
  <2>1. k \in 1..Len(hrp) \/ k = m
    BY <1>1
  <2> HIDE DEF m
  <2> QED  BY <1>2, <1>3, <2>1
<1> HIDE DEF m, n
<1>6. ASSUME \A k \in 1..n : d[k] = e[k] PROVE s = t
  <2>1. ASSUME NEW k \in 1..(m + n) PROVE s[k] = t[k]
    <3>1. CASE k <= m
      <4>1. k \in 1..m
        BY <1>1, <3>1
      <4> QED  BY <1>5, <4>1
    <3>2. CASE k > m
      <4>1. k - m \in 1..n /\ m + (k - m) = k
        BY <1>1, <3>2
      <4>2. d[k - m] = e[k - m]
        BY <1>6, <4>1
      <4> QED  BY <1>2, <1>3, <4>1, <4>2
    <3> QED  BY <1>1, <3>1, <3>2
  <2>2. s = [k \in 1..(m + n) |-> s[k]] /\ t = [k \in 1..(m + n) |-> t[k]]
    BY <1>2, <1>3, InSeq
  <2> QED  BY <2>1, <2>2
<1>7. CASE Replaced(s, t, i)
  <2>1. ASSUME NEW k \in 1..n, m + k # i PROVE d[k] = e[k]
    <3>1. m + k \in 1..(m + n)
      BY <1>1
    <3>2. t[m + k] = s[m + k]
      BY <1>2, <1>7, <2>1, <3>1 DEF Replaced
    <3> QED  BY <1>2, <1>3, <1>4, <3>2, SymbolsTold
  <2>2. ASSUME NEW k \in 1..n, m + k = i PROVE d[k] = e[k]
    <3>1. ASSUME NEW j \in 1..n, j # k PROVE e[j] = d[j]
      <4>1. m + j # i
        BY <1>1, <2>2, <3>1
      <4> QED  BY <2>1, <4>1
    <3>2. Replaced(d, e, k) /\ k \in 1..Len(d)
      BY <3>1 DEF Replaced, n
    <3> QED  BY <3>2, ChecksumTells
  <2> QED  BY <1>6, <2>1, <2>2
<1>8. CASE Exchanged(s, t, i)
  <2>0. /\ i \in 1..(m + n) /\ i + 1 \in 1..(m + n) /\ t[i] = s[i + 1] /\ t[i + 1] = s[i]
        /\ \A j \in 1..(m + n) : j \notin {i, i + 1} => t[j] = s[j]
    BY <1>2, <1>8 DEF Exchanged
  <2>1. ASSUME NEW k \in 1..n, m + k \notin {i, i + 1} PROVE d[k] = e[k]
    <3>1. m + k \in 1..(m + n)
      BY <1>1
    <3>2. t[m + k] = s[m + k]
      BY <2>0, <2>1, <3>1
    <3> QED  BY <1>2, <1>3, <1>4, <3>2, SymbolsTold
  <2>2. CASE i + 1 <= m
    <3>1. \A k \in 1..n : m + k \notin {i, i + 1}
      BY <1>1, <2>0, <2>2
    <3> QED  BY <1>6, <2>1, <3>1
  <2>3. CASE i = m
    <3>1. 1 \in 1..n /\ m \in 1..m
      BY <1>1, <2>0, <2>3
    <3>2. s[m + 1] # "1" /\ t[m] = "1"
      BY <1>2, <1>3, <3>1
    <3> QED  BY <2>0, <2>3, <3>2
  <2>4. CASE i > m
    <3> DEFINE k == i - m
    <3>1. k \in 1..n /\ k + 1 \in 1..n /\ m + k = i /\ m + (k + 1) = i + 1
      BY <1>1, <2>0, <2>4
    <3> HIDE DEF k
    <3>2. e[k] = d[k + 1] /\ e[k + 1] = d[k]
      <4>1. B32!CHARSET[e[k] + 1] = B32!CHARSET[d[k + 1] + 1] /\ B32!CHARSET[e[k + 1] + 1] = B32!CHARSET[d[k] + 1]
        BY <1>2, <1>3, <2>0, <3>1
      <4> QED  BY <1>4, <3>1, <4>1, SymbolsTold
    <3>3. ASSUME NEW j \in 1..n, j \notin {k, k + 1} PROVE e[j] = d[j]
      <4>1. m + j \notin {i, i + 1}
        BY <1>1, <3>1, <3>3
      <4> QED  BY <2>1, <4>1
    <3>4. Exchanged(d, e, k) /\ k \in 1..Len(d)
      BY <3>1, <3>2, <3>3 DEF Exchanged, n
    <3>5. d[k] = e[k]
      BY <3>4, ChecksumTells
    <3>6. ASSUME NEW j \in 1..n PROVE d[j] = e[j]
      BY <3>2, <3>3, <3>5
    <3> QED  BY <1>6, <3>6
  <2> QED  BY <1>1, <2>0, <2>2, <2>3, <2>4
<1> QED  BY <1>7, <1>8

\* The two parts of a sequence that is cut after an entry.
LEMMA SubSeqsAt ==
    ASSUME NEW S, NEW u \in Seq(S), NEW i \in 0..Len(u)
    PROVE  /\ SubSeq(u, 1, i) \in Seq(S) /\ Len(SubSeq(u, 1, i)) = i
           /\ SubSeq(u, i + 1, Len(u)) \in Seq(S) /\ Len(SubSeq(u, i + 1, Len(u))) = Len(u) - i
<1>1. SubSeq(u, 1, i) \in Seq(S) /\ SubSeq(u, i + 1, Len(u)) \in Seq(S)
  OBVIOUS
<1>2. Len(SubSeq(u, 1, i)) = i /\ Len(SubSeq(u, i + 1, Len(u))) = Len(u) - i
  OBVIOUS
<1> QED  BY <1>1, <1>2

\* A spoilt string is another one, and if it is as long, not much else.
LEMMA SpoiltIs ==
    ASSUME NEW s \in Seq(Characters), NEW t \in SpoiltString(s)
    PROVE  /\ t \in Seq(Characters) /\ t # s
           /\ Len(t) = Len(s) => \E i \in 1..Len(s) : Replaced(s, t, i) \/ Exchanged(s, t, i)
<1> DEFINE n == Len(s)
           Cut(i, j) == SubSeq(s, 1, i) \o SubSeq(s, j, n)
<1>1. n \in Nat /\ DOMAIN s = 1..n /\ \A i \in 1..n : s[i] \in Characters
  BY InSeq
<1>2. t # s
  BY DEF SpoiltString
<1>3. \/ \E i \in 1..n, c \in Characters : t = [s EXCEPT ![i] = c]
      \/ \E i \in 1..n : t = Cut(i - 1, i + 1)
      \/ \E i \in 0..n, c \in Characters : t = SubSeq(s, 1, i) \o <<c>> \o SubSeq(s, i + 1, n)
      \/ \E i \in 1..(n - 1) : t = [s EXCEPT ![i] = s[i + 1], ![i + 1] = s[i]]
  <2> DEFINE One   == {[s EXCEPT ![i] = c] : i \in 1..n, c \in Characters}
             Two   == {Cut(i - 1, i + 1) : i \in 1..n}
             Put(i, c) == SubSeq(s, 1, i) \o <<c>> \o SubSeq(s, i + 1, n)
             Three == {Put(i, c) : i \in 0..n, c \in Characters}
             Four  == {[s EXCEPT ![i] = s[i + 1], ![i + 1] = s[i]] : i \in 1..(n - 1)}
  <2>1. SpoiltString(s) = (One \cup Two \cup Three \cup Four) \ {s}
    BY DEF SpoiltString
  <2>2. t \in One \/ t \in Two \/ t \in Three \/ t \in Four
    <3> HIDE DEF One, Two, Three, Four
    <3> QED  BY <2>1
  <2>3. CASE t \in One
    BY <2>3
  <2>4. CASE t \in Two
    BY <2>4
  <2>5. ASSUME t \in Three PROVE \E i \in 0..n, c \in Characters : t = Put(i, c)
    <3> HIDE DEF Put
    <3> QED  BY <2>5
  <2>6. CASE t \in Four
    BY <2>6
  <2> HIDE DEF One, Two, Three, Four
  <2> QED  BY Zenon, <2>2, <2>3, <2>4, <2>5, <2>6
<1> HIDE DEF n
<1>4. ASSUME NEW i \in 1..n, NEW c \in Characters, t = [s EXCEPT ![i] = c]
      PROVE  t \in Seq(Characters) /\ Replaced(s, t, i)
  <2>1. t \in Seq(Characters)
    BY <1>4 DEF n
  <2>2. \A j \in 1..n : j # i => t[j] = s[j]
    BY <1>1, <1>4
  <2> QED  BY <2>1, <2>2 DEF Replaced, n
<1>5. ASSUME NEW i \in 1..n, t = Cut(i - 1, i + 1)
      PROVE  t \in Seq(Characters) /\ Len(t) = n - 1
  <2> DEFINE a == SubSeq(s, 1, i - 1)
             b == SubSeq(s, i + 1, n)
  <2>1. a \in Seq(Characters) /\ b \in Seq(Characters) /\ Len(a) = i - 1 /\ Len(b) = n - i
    BY SubSeqs DEF n
  <2> HIDE DEF a, b
  <2>2. IsJoined(a \o b, Characters, a, b)
    BY <2>1, Joined
  <2>3. t = a \o b
    BY <1>5 DEF a, b
  <2>4. (i - 1) + (n - i) = n - 1
    BY <1>1
  <2> QED  BY <2>1, <2>2, <2>3, <2>4 DEF IsJoined
<1>6. ASSUME NEW i \in 0..n, NEW c \in Characters, t = SubSeq(s, 1, i) \o <<c>> \o SubSeq(s, i + 1, n)
      PROVE  t \in Seq(Characters) /\ Len(t) = n + 1
  <2> DEFINE a == SubSeq(s, 1, i)
             b == SubSeq(s, i + 1, n)
             one == <<c>>
  <2>1. a \in Seq(Characters) /\ b \in Seq(Characters) /\ Len(a) = i /\ Len(b) = n - i
    BY SubSeqsAt DEF n
  <2>2. one \in Seq(Characters) /\ Len(one) = 1
    OBVIOUS
  <2> HIDE DEF a, b, one
  <2>3. IsJoined(a \o one, Characters, a, one)
    BY <2>1, <2>2, Joined
  <2> DEFINE w == a \o one
  <2>4. w \in Seq(Characters) /\ Len(w) = i + 1
    BY <2>1, <2>2, <2>3 DEF IsJoined
  <2>5. t = w \o b
    BY <1>6 DEF a, b, one
  <2> HIDE DEF w
  <2>6. IsJoined(w \o b, Characters, w, b)
    BY <2>1, <2>4, Joined
  <2>7. (i + 1) + (n - i) = n + 1
    BY <1>1
  <2> QED  BY <2>1, <2>4, <2>5, <2>6, <2>7 DEF IsJoined
<1>7. ASSUME NEW i \in 1..(n - 1), t = [s EXCEPT ![i] = s[i + 1], ![i + 1] = s[i]]
      PROVE  t \in Seq(Characters) /\ i \in 1..n /\ Exchanged(s, t, i)
  <2>1. i \in 1..n /\ i + 1 \in 1..n /\ i # i + 1
    BY <1>1
  <2>2. t[i] = s[i + 1] /\ t[i + 1] = s[i] /\ \A j \in 1..n : j \notin {i, i + 1} => t[j] = s[j]
    BY <1>1, <1>7, <2>1
  <2>3. t \in Seq(Characters)
    <3>1. DOMAIN t = 1..n /\ \A j \in 1..n : t[j] \in Characters
      BY <1>1, <1>7, <2>1, <2>2
    <3>2. t = [j \in 1..n |-> t[j]]
      BY <1>1, <1>7
    <3> QED  BY <1>1, <3>1, <3>2
  <2> QED  BY <2>1, <2>2, <2>3 DEF Exchanged, n
<1>8. t \in Seq(Characters) /\ (Len(t) = n => \E i \in 1..n : Replaced(s, t, i) \/ Exchanged(s, t, i))
  <2>1. n - 1 # n /\ n + 1 # n
    BY <1>1
  <2> QED  BY <1>3, <1>4, <1>5, <1>6, <1>7, <2>1
<1> QED  BY <1>2, <1>8 DEF n

\* The string of a key with one slip in it is not read as a key.
LEMMA SpoiltIsNotRead ==
    ASSUME NEW hrp \in Prefixes, NEW key \in Keys, NEW v, NEW zeros, Encodes(v, key, zeros),
           NEW t \in SpoiltString(Spelling(hrp, v))
    PROVE  B32!decode_key(hrp, t) = {}
<1> DEFINE s == Spelling(hrp, v)
           d == Checked(hrp, v)
<1> SUFFICES ASSUME NEW k \in B32!decode_key(hrp, t) PROVE FALSE
  OBVIOUS
<1>1. /\ v \in Seq(Quintet) /\ zeros \in 0..4 /\ 5 * Len(v) = 8 * Len(key) + zeros /\ Len(key) = KeyLen
      /\ Len(key) \in Nat
  BY KeyIs DEF Encodes
<1>2. /\ d \in Seq(Quintet) /\ Len(d) = Len(v) + 6 /\ B32!verify_checksum(hrp, d)
      /\ s \in Seq(Characters) /\ s = Wire(hrp, d) /\ hrp \in Seq(Characters)
  BY <1>1, CheckedIs, PrefixIs DEF Spelling
<1> HIDE DEF s, d
<1>3. /\ t \in Seq(Characters) /\ t # s
      /\ Len(t) = Len(s) => \E i \in 1..Len(s) : Replaced(s, t, i) \/ Exchanged(s, t, i)
  BY <1>2, SpoiltIs DEF s
<1>4. t = <<>> \o B32!to_ascii_lowercase(t)
  BY <1>3, PlainIsLower
<1>5. PICK r \in B32!decode(t) : KeyOf(hrp, r)
  BY DecodeKeyIs
<1>6. PICK h \in Seq(Characters) : \E e \in Seq(Quintet) : t = Wire(h, e)
  BY <1>3, <1>4, DecodedIsWire
<1>7. PICK e \in Seq(Quintet) : t = Wire(h, e)
  BY <1>6
<1>8. Parts(h, e) /\ B32!verify_checksum(h, e) /\ r[1] = h /\ r[2] \in BytesOf(e)
  BY <1>4, <1>7, DecodeWire
<1>9. h = hrp
  BY <1>5, <1>8 DEF KeyOf
<1> DEFINE w == Unchecked(e)
           b == r[2]
<1>10. Len(e) \in Nat /\ Len(e) >= 6 /\ w \in Seq(Quintet) /\ Len(w) = Len(e) - 6
  <2>1. Len(e) \in Nat /\ Len(e) >= 6
    BY <1>8, InSeq DEF Parts
  <2>2. SubSeq(e, 1, Len(e) - 6) \in Seq(Quintet) /\ Len(SubSeq(e, 1, Len(e) - 6)) = Len(e) - 6
    <3> DEFINE j == Len(e) - 6
    <3>1. j \in 0..Len(e)
      BY <2>1
    <3> HIDE DEF j
    <3>2. SubSeq(e, 1, j) \in Seq(Quintet) /\ Len(SubSeq(e, 1, j)) = j
      BY <3>1, SubSeqsAt
    <3> QED  BY <3>2 DEF j
  <2> QED  BY <2>1, <2>2 DEF Unchecked
<1>11. Len(b) = KeyLen /\ b \in B32!convert_bits(w, 5, 8, FALSE)
  BY <1>5, <1>8 DEF KeyOf, BytesOf
<1> HIDE DEF w, b
<1>12. \E z : Encodes(w, b, z)
  <2>1. CASE \E x, z : B32!convert_bits(w, 5, 8, FALSE) = {x} /\ Encodes(w, x, z)
    BY <1>11, <2>1
  <2>2. CASE B32!convert_bits(w, 5, 8, FALSE) = {}
    BY <1>11, <2>2
  <2> QED  BY <1>10, <2>1, <2>2, DecodedValues
<1>13. PICK z : Encodes(w, b, z)
  BY <1>12
<1>14. z \in 0..4 /\ 5 * Len(w) = 8 * Len(b) + z
  BY <1>13 DEF Encodes
<1>15. Len(w) = Len(v)
  <2> DEFINE x == Len(w)
             y == Len(v)
             l == Len(key)
  <2>1. x \in Nat /\ y \in Nat /\ l \in Nat /\ 5 * x = 8 * l + z /\ 5 * y = 8 * l + zeros
    BY <1>1, <1>10, <1>11, <1>14, InSeq
  <2> HIDE DEF x, y, l
  <2>2. x = y
    BY <1>1, <1>14, <2>1
  <2> QED  BY <2>2 DEF x, y
<1>16. Len(e) = Len(d)
  BY <1>1, <1>2, <1>10, <1>15, InSeq
<1>17. Len(t) = Len(s)
  <2>1. Len(Wire(hrp, e)) = Len(hrp) + 1 + Len(e) /\ Len(Wire(hrp, d)) = Len(hrp) + 1 + Len(d)
    BY <1>2, WireIs
  <2> QED  BY <1>2, <1>7, <1>9, <1>16, <2>1
<1>18. PICK i \in 1..Len(s) : Replaced(s, t, i) \/ Exchanged(s, t, i)
  BY <1>3, <1>17
<1>19. B32!verify_checksum(hrp, e) /\ t = Wire(hrp, e) /\ s = Wire(hrp, d) /\ Len(d) = Len(e)
  BY <1>2, <1>7, <1>8, <1>9, <1>16
<1>20. s = t
  BY <1>2, <1>18, <1>19, StringTells
<1> QED  BY <1>3, <1>20

-----------------------------------------------------------------------------
(* What the strings of keys are read as.                                   *)

\* A key's string is its encoding, or that with the damage that was done to it.
KeyString ==
    /\ job.more.hrp \in {B32!npub, B32!nsec} /\ job.more.key \in Keys
    /\ harm \in {"none", "text", "case", "mixed"}
    /\ \E s \in B32!encode(job.more.hrp, job.more.key) : \A w \in wire :
           /\ harm = "none" => w = s
           /\ harm = "text" => w \in SpoiltString(s)
           /\ harm \in {"case", "mixed"} => \E places : w = Capitals(s, places)

\* A string of another program is some symbols with their checksum.
OtherString ==
    /\ job.more.hrp \in {B32!npub, <<"n">>}
    /\ \E v \in Seq(Quintet) : wire = B32!Spelt(job.more.hrp, v)

\* What is on the wire under a kind that bech32 is read of.
StringInv ==
    /\ stage = "ready" => harm = "none"
    /\ job.kind = "key" => KeyString
    /\ job.kind \in Strings => OtherString

\* A message of another kind is no string.
LEMMA OtherKinds ==
    ASSUME NEW kind \in {"none", "nip44", "gift_wrap", "nip04", "nametag"}
    PROVE  kind # "key" /\ kind \notin Strings
  BY DEF Strings

\* Where nothing but the stage, the reader and what is read changes, all of it stays.
LEMMA SameString ==
    ASSUME StringInv, UNCHANGED <<job, wire, harm>>, stage' # "ready"
    PROVE  StringInv'
<1>1. KeyString' <=> KeyString
  BY DEF KeyString
<1>2. OtherString' <=> OtherString
  BY DEF OtherString
<1> QED  BY <1>1, <1>2 DEF StringInv

\* WriteKey keeps the invariant: a key is written as its string.
LEMMA KeyIsWritten ==
    ASSUME StringInv, WriteKey
    PROVE  StringInv'
<1>1. PICK hrp \in {B32!npub, B32!nsec}, key \in Keys :
         Writes(Job("key", 0, 0, Body(0), [hrp |-> hrp, key |-> key]), B32!encode(hrp, key))
  BY Zenon DEF WriteKey, Keys
<1>2. /\ job'.kind = "key" /\ job'.more.hrp = hrp /\ job'.more.key = key
      /\ wire' = B32!encode(hrp, key) /\ harm' = harm /\ stage' = "sent"
  BY <1>1 DEF Writes, Job
<1>3. harm = "none"
  BY DEF WriteKey, StringInv
<1>4. PICK s : B32!encode(hrp, key) = {s}
  <2>1. hrp \in Prefixes
    BY DEF Prefixes
  <2>2. key \in Seq(Octet)
    BY KeyIs
  <2> QED  BY <2>1, <2>2, BytesArePadded
<1>5. KeyString'
  BY <1>2, <1>3, <1>4 DEF KeyString
<1> QED  BY <1>2, <1>5 DEF StringInv, Strings

\* ForeignString keeps the invariant: the strings of another sender are made by the same
\* checksum.
LEMMA StringIsWritten ==
    ASSUME StringInv, ForeignString
    PROVE  StringInv'
<1> DEFINE Values == (UNION {[1..n -> Symbols] : n \in 2..5}) \cup {[i \in 1..n |-> 0] : n \in {82, 83}}
<1>1. PICK kind \in {"string", "key_string"}, hrp \in {B32!npub, <<"n">>}, values \in Values :
         Writes(Job(kind, 0, 0, Body(0), [hrp |-> hrp, key |-> <<>>]), B32!Spelt(hrp, values))
  BY Zenon DEF ForeignString
<1>2. /\ job'.kind = kind /\ job'.more.hrp = hrp
      /\ wire' = B32!Spelt(hrp, values) /\ stage' = "sent"
  BY <1>1 DEF Writes, Job
<1>3. values \in Seq(Quintet)
  <2>1. Symbols \subseteq Quintet /\ 0 \in Quintet
    BY EnvelopesAssumption DEF Quintet
  <2>2. CASE \E n \in 2..5 : values \in [1..n -> Symbols]
    <3>1. PICK n \in 2..5 : values \in [1..n -> Symbols]
      BY <2>2
    <3> HIDE DEF Values
    <3>2. n \in Nat /\ values = [i \in 1..n |-> values[i]] /\ \A i \in 1..n : values[i] \in Quintet
      BY <2>1, <3>1
    <3> QED  BY <3>2
  <2>3. CASE \E n \in {82, 83} : values = [i \in 1..n |-> 0]
    <3>1. PICK n \in {82, 83} : values = [i \in 1..n |-> 0]
      BY <2>3
    <3>2. n \in Nat
      BY <3>1
    <3>3. \A i \in 1..n : values[i] = 0
      BY <3>1, <3>2
    <3> QED  BY <2>1, <3>1, <3>2, <3>3
  <2> DEFINE Few  == {[1..n -> Symbols] : n \in 2..5}
             Many == {[i \in 1..n |-> 0] : n \in {82, 83}}
  <2>4. values \in UNION Few \/ values \in Many
    <3>1. Values = (UNION Few) \cup Many
      OBVIOUS
    <3> HIDE DEF Values, Few, Many
    <3>2. values \in Values
      BY <1>1
    <3> QED  BY <3>1, <3>2
  <2>5. values \in UNION Few => \E n \in 2..5 : values \in [1..n -> Symbols]
    OBVIOUS
  <2>6. values \in Many => \E n \in {82, 83} : values = [i \in 1..n |-> 0]
    OBVIOUS
  <2> HIDE DEF Few, Many
  <2> QED  BY <2>2, <2>3, <2>4, <2>5, <2>6
<1> HIDE DEF Values
<1>4. OtherString'
  BY <1>2, <1>3 DEF OtherString
<1> QED  BY <1>2, <1>4 DEF StringInv, Strings

\* DamageString keeps the invariant: a damaged string is a key's string with one slip or
\* exchange, or with capitals.
LEMMA StringIsDamaged ==
    ASSUME StringInv, DamageString
    PROVE  StringInv'
<1>1. PICK s \in wire : \/ \E t \in SpoiltString(s) : Becomes("text", t)
                        \/ \E what \in {"case", "mixed"} : \E places : Becomes(what, Capitals(s, places))
  BY DEF DamageString, MixedCase
<1>2. job.kind = "key" /\ harm = "none" /\ job' = job /\ stage' = "sent" /\ KeyString
  BY <1>1 DEF DamageString, Becomes, StringInv
<1>3. PICK k \in B32!encode(job.more.hrp, job.more.key) : s = k
  BY <1>1, <1>2 DEF KeyString
<1>4. CASE \E t \in SpoiltString(s) : Becomes("text", t)
  <2>1. PICK t \in SpoiltString(s) : Becomes("text", t)
    BY <1>4
  <2>2. wire' = {t} /\ harm' = "text"
    BY <2>1 DEF Becomes, Ok
  <2>3. KeyString'
    BY <1>2, <1>3, <2>1, <2>2 DEF KeyString
  <2> QED  BY <1>2, <2>3 DEF StringInv, Strings
<1>5. CASE \E what \in {"case", "mixed"} : \E places : Becomes(what, Capitals(s, places))
  <2>1. PICK what \in {"case", "mixed"} : \E places : Becomes(what, Capitals(s, places))
    BY <1>5
  <2>2. PICK places : Becomes(what, Capitals(s, places))
    BY <2>1
  <2>3. wire' = {Capitals(s, places)} /\ harm' = what
    BY <2>2 DEF Becomes, Ok
  <2>4. KeyString'
    BY <1>2, <1>3, <2>1, <2>3 DEF KeyString
  <2> QED  BY <1>2, <2>4 DEF StringInv, Strings
<1> QED  BY <1>1, <1>4, <1>5

\* Every step keeps the invariant.
LEMMA StringsAreKept ==
    ASSUME StringInv, [Next]_vars
    PROVE  StringInv'
<1>1. CASE WriteNip44 \/ WriteGiftWrap \/ WriteNametag \/ WriteNip04 \/ ForeignWrap
  <2>1. stage' = "sent" /\ job'.kind \in {"none", "nip44", "gift_wrap", "nip04", "nametag"}
    <3>1. ASSUME NEW kind \in {"none", "nip44", "gift_wrap", "nip04", "nametag"}, NEW from, NEW to, NEW t,
                 NEW more, NEW w, Writes(Job(kind, from, to, t, more), w)
          PROVE  stage' = "sent" /\ job'.kind \in {"none", "nip44", "gift_wrap", "nip04", "nametag"}
      BY <3>1 DEF Writes, Job
    <3>2. CASE WriteNip44
      BY Zenon, <3>1, <3>2 DEF WriteNip44
    <3>3. CASE WriteGiftWrap
      BY Zenon, <3>1, <3>3 DEF WriteGiftWrap
    <3>4. CASE WriteNametag
      BY Zenon, <3>1, <3>4 DEF WriteNametag
    <3>5. CASE WriteNip04
      BY Zenon, <3>1, <3>5 DEF WriteNip04
    <3>6. CASE ForeignWrap
      BY Zenon, <3>1, <3>6, ForeignWrites DEF ForeignJob
    <3> QED  BY <1>1, <3>2, <3>3, <3>4, <3>5, <3>6
  <2> QED  BY <2>1, OtherKinds DEF StringInv
<1>2. CASE WriteKey
  BY <1>2, KeyIsWritten
<1>3. CASE ForeignString
  BY <1>3, StringIsWritten
<1>4. CASE DamagePayload \/ DamageWrap
  <2>1. job' = job /\ stage' = "sent" /\ job.kind \in {"nip44", "nip04", "nametag", "gift_wrap"}
    BY <1>4 DEF DamagePayload, DamageWrap, Becomes
  <2> QED  BY <2>1, OtherKinds DEF StringInv
<1>5. CASE DamageString
  BY <1>5, StringIsDamaged
<1>6. CASE Read
  <2>1. UNCHANGED <<job, wire, harm>> /\ stage' = "read"
    BY <1>6 DEF Read, ReadNip44, Unwrap, ReadNip04, ReadNametag, ReadKey, ReadString, Reads
  <2> QED  BY <2>1, SameString
<1>7. CASE Again
  <2>1. job'.kind = "none" /\ harm' = "none"
    BY <1>7 DEF Again, NoJob, Job
  <2> QED  BY <2>1, OtherKinds DEF StringInv
<1>8. CASE UNCHANGED vars
  <2>1. UNCHANGED <<job, wire, harm>> /\ stage' = stage
    BY <1>8 DEF vars
  <2>2. KeyString' <=> KeyString
    BY <2>1 DEF KeyString
  <2>3. OtherString' <=> OtherString
    BY <2>1 DEF OtherString
  <2> QED  BY <2>1, <2>2, <2>3 DEF StringInv
<1> QED
  BY <1>1, <1>2, <1>3, <1>4, <1>5, <1>6, <1>7, <1>8 DEF Next, Read

\* A key's string is read as the key, damaged as nothing.
LEMMA KeyReadBack ==
    ASSUME StringInv, ReadKey
    PROVE  ReadsItsKey' /\ job'.kind = "key"
<1>1. PICK w \in wire : Reads(NoReader, IF job.more.hrp = B32!npub THEN B32!decode_npub(w) ELSE B32!decode_nsec(w))
  BY DEF ReadKey
<1>2. job.kind = "key" /\ job' = job /\ harm' = harm /\ KeyString
  BY <1>1 DEF ReadKey, Reads, StringInv
<1> DEFINE hrp == job.more.hrp
           key == job.more.key
<1>3. out' = B32!decode_key(hrp, w)
  <2>1. out' = IF hrp = B32!npub THEN B32!decode_npub(w) ELSE B32!decode_nsec(w)
    BY <1>1 DEF Reads
  <2>2. hrp \in {B32!npub, B32!nsec}
    BY <1>2 DEF KeyString
  <2> HIDE DEF hrp
  <2> QED  BY <2>1, <2>2 DEF B32!decode_npub, B32!decode_nsec
<1>4. hrp \in Prefixes /\ key \in Keys
  BY <1>2 DEF KeyString, Prefixes
<1>5. PICK s \in B32!encode(hrp, key) : /\ harm \in {"none", "text", "case", "mixed"}
                                        /\ harm = "none" => w = s
                                        /\ harm = "text" => w \in SpoiltString(s)
                                        /\ harm \in {"case", "mixed"} => \E places : w = Capitals(s, places)
  BY <1>1, <1>2 DEF KeyString
<1> HIDE DEF hrp, key
<1>6. key \in Seq(Octet)
  BY <1>4, KeyIs
<1>7. PICK v, zeros : Encodes(v, key, zeros) /\ B32!encode(hrp, key) = {Spelling(hrp, v)}
  BY <1>4, <1>6, BytesArePadded
<1>8. s = Spelling(hrp, v) /\ v \in Seq(Quintet)
  BY <1>7 DEF Encodes
<1>9. s \in Seq(Characters)
  BY <1>4, <1>8, CheckedIs
<1>10. CASE harm \in {"none", "case", "mixed"}
  <2>1. s = <<>> \o B32!to_ascii_lowercase(w)
    <3>1. CASE harm = "none"
      BY <1>5, <1>9, <3>1, PlainIsLower
    <3>2. CASE harm \in {"case", "mixed"}
      <4>1. PICK places : w = Capitals(s, places)
        BY <1>5, <3>2
      <4> QED  BY <1>9, <4>1, CapitalsAreLower
    <3> QED  BY <1>10, <3>1, <3>2
  <2>2. B32!decode_key(hrp, w) = {key}
    <3>1. Spelling(hrp, v) = <<>> \o B32!to_ascii_lowercase(w)
      BY <1>8, <2>1
    <3>2. Encodes(v, key, zeros)
      BY <1>7
    <3> QED  BY <1>4, <3>1, <3>2, KeyIsRead
  <2>3. out' = {job'.more.key} /\ harm' # "text"
    BY <1>2, <1>3, <1>10, <2>2 DEF key
  <2> QED  BY <1>2, <2>3 DEF ReadsItsKey
<1>11. CASE harm = "text"
  <2>1. w \in SpoiltString(Spelling(hrp, v))
    BY <1>5, <1>8, <1>11
  <2>2. B32!decode_key(hrp, w) = {}
    BY <1>4, <1>7, <2>1, SpoiltIsNotRead
  <2> QED  BY <1>2, <1>3, <1>11, <2>2 DEF ReadsItsKey
<1> QED  BY <1>5, <1>10, <1>11

\* A string of another program that decodes is the one encoding of what it decodes to.
LEMMA StringReadBack ==
    ASSUME StringInv, ReadString
    PROVE  OneString' /\ job'.kind # "key"
<1>1. PICK w \in wire :
         Reads(NoReader, IF job.kind = "string" THEN {d[2] : d \in B32!decode(w)} ELSE B32!decode_npub(w))
  BY DEF ReadString
<1>2. job.kind \in Strings /\ job' = job /\ wire' = wire /\ OtherString
  BY <1>1 DEF ReadString, Reads, StringInv
<1> DEFINE hrp == job.more.hrp
<1>3. PICK v \in Seq(Quintet) : wire = B32!Spelt(hrp, v)
  BY <1>2 DEF OtherString
<1>4. hrp \in Prefixes
  BY <1>2 DEF OtherString, Prefixes
<1>5. out' = IF job.kind = "string" THEN {d[2] : d \in B32!decode(w)} ELSE B32!decode_npub(w)
  BY <1>1 DEF Reads
<1> HIDE DEF hrp
<1>6. wire = {Spelling(hrp, v)} /\ w = Spelling(hrp, v)
  BY <1>1, <1>3, <1>4, CheckedIs
<1>7. ASSUME NEW r \in B32!decode(w)
      PROVE  r[2] \in Seq(Octet) /\ Len(w) <= 90 /\ B32!encode(hrp, r[2]) = wire
  BY <1>4, <1>6, SpellingIsCanonical
<1>8. ASSUME NEW bytes \in out'
      PROVE  /\ wire = B32!encode(hrp, bytes) /\ Len(w) <= 90
             /\ job.kind = "key_string" => bytes \in [1..KeyLen -> 0..255]
  <2>1. CASE job.kind = "string"
    <3>1. PICK r \in B32!decode(w) : bytes = r[2]
      BY <1>5, <2>1
    <3> QED  BY <1>7, <2>1, <3>1
  <2>2. CASE job.kind # "string"
    <3>1. PICK r \in B32!decode(w) : KeyOf(B32!npub, r) /\ bytes = r[2]
      BY <1>5, <2>2, DecodeKeyIs DEF B32!decode_npub
    <3>2. bytes \in Seq(Octet) /\ Len(bytes) = KeyLen
      BY <1>7, <3>1 DEF KeyOf
    <3>3. bytes \in [1..KeyLen -> 0..255]
      <4>1. DOMAIN bytes = 1..Len(bytes) /\ \A i \in DOMAIN bytes : bytes[i] \in Octet
        BY <3>2, InSeq
      <4>2. bytes = [i \in 1..Len(bytes) |-> bytes[i]]
        BY <3>2
      <4>3. Octet = 0..255
        BY DEF Octet
      <4> DEFINE n == KeyLen
      <4> HIDE DEF n
      <4>4. DOMAIN bytes = 1..n /\ bytes = [i \in 1..n |-> bytes[i]] /\ \A i \in 1..n : bytes[i] \in Octet
        BY <3>2, <4>1, <4>2 DEF n
      <4>5. bytes \in [1..n -> Octet]
        BY <4>4
      <4> QED  BY <4>3, <4>5 DEF n
    <3> QED  BY <1>7, <3>1, <3>3
  <2> QED  BY <2>1, <2>2
<1>9. \A s \in wire : Len(s) = Len(w)
  BY <1>6
<1>10. job.kind # "key"
  BY <1>2 DEF Strings
<1> QED  BY <1>2, <1>8, <1>9, <1>10 DEF OneString, hrp

\* No string is read as a key that it does not stand for: a key's string is read as the
\* key, and so it is in capitals; with one slip in it, as nothing; in mixed case, as no
\* other key; and a string of any program that decodes is, in small letters, the one
\* encoding of what it decodes to.
THEOREM KeysAreCanonical == Spec => []CanonicalKeys
<1>1. Init => StringInv /\ CanonicalKeys
  <2> SUFFICES ASSUME Init PROVE StringInv /\ CanonicalKeys
    OBVIOUS
  <2>1. stage = "ready" /\ harm = "none" /\ job.kind = "none"
    BY DEF Init, NoJob, Job
  <2> QED  BY <2>1, OtherKinds DEF StringInv, CanonicalKeys
<1>2. StringInv /\ CanonicalKeys /\ [Next]_vars => StringInv' /\ CanonicalKeys'
  <2> SUFFICES ASSUME StringInv, CanonicalKeys, [Next]_vars PROVE StringInv' /\ CanonicalKeys'
    OBVIOUS
  <2>1. StringInv'
    BY StringsAreKept
  <2>2. CanonicalKeys'
    <3>1. CASE ReadKey
      <4>1. ReadsItsKey' /\ job'.kind = "key"
        BY <3>1, KeyReadBack
      <4> QED  BY <4>1 DEF CanonicalKeys, Strings
    <3>2. CASE ReadString
      <4>1. OneString' /\ job'.kind # "key"
        BY <3>2, StringReadBack
      <4> QED  BY <4>1 DEF CanonicalKeys
    <3>3. CASE ReadNip44 \/ Unwrap \/ ReadNip04 \/ ReadNametag
      <4>1. job'.kind \in {"none", "nip44", "gift_wrap", "nip04", "nametag"}
        BY <3>3 DEF ReadNip44, Unwrap, ReadNip04, ReadNametag, Reads
      <4> QED  BY <4>1, OtherKinds DEF CanonicalKeys
    <3>4. CASE ~Read
      <4>1. CASE UNCHANGED vars
        BY <4>1 DEF vars, CanonicalKeys, ReadsItsKey, OneString
      <4>2. CASE stage' # "read"
        BY <4>2 DEF CanonicalKeys
      <4> QED  BY <3>4, <4>1, <4>2, NothingElseReads
    <3> QED  BY <3>1, <3>2, <3>3, <3>4 DEF Read
  <2> QED  BY <2>1, <2>2
<1> QED  BY <1>1, <1>2, PTL DEF Spec
=============================================================================
