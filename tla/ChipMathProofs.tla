--------------------------- MODULE ChipMathProofs ---------------------------
(***************************************************************************)
(* What the two recursive functions of ChipMath return.  The library's     *)
(* theorems on recursive functions take operators as parameters; here the  *)
(* step is a function, so that minimal counterexamples do for induction.   *)
(***************************************************************************)
EXTENDS ChipMath, FiniteSetsExt, FiniteSetTheorems, TLAPS, WellFoundedInduction

\* A set of naturals that is not empty has a least member.
LEMMA LeastNat ==
  ASSUME NEW T \in SUBSET Nat, T # {}
  PROVE  \E x \in T : \A y \in T : x <= y
<1> DEFINE R == OpToRel(<, Nat)
<1>1. IsWellFoundedOn(R, Nat)
  BY NatLessThanWellFounded
<1>2. \A x, y \in Nat : x < y => <<x, y>> \in R
  BY Zenon DEF OpToRel
<1> HIDE DEF R
<1>3. PICK x \in T : \A y \in T : ~(<<y, x>> \in R)
  BY WFMin, <1>1
<1>4. ASSUME NEW y \in T PROVE x <= y
  <2>1. x \in Nat /\ y \in Nat
    OBVIOUS
  <2>2. ~(y < x)
    BY <1>2, <1>3, <2>1, Zenon
  <2> QED BY <2>1, <2>2
<1> QED BY <1>3, <1>4

\* Induction along 0..n, for the members of a set.
LEMMA IndexInduction ==
  ASSUME NEW n \in Nat, NEW T, 0 \in T, \A i \in 1..n : i - 1 \in T => i \in T
  PROVE  \A i \in 0..n : i \in T
<1> DEFINE Bad == {i \in 0..n : i \notin T}
<1>1. SUFFICES ASSUME Bad # {} PROVE FALSE
  OBVIOUS
<1>2. PICK m \in Bad : \A k \in Bad : m <= k
  <2>1. Bad \in SUBSET Nat
    OBVIOUS
  <2> HIDE DEF Bad
  <2> QED BY <1>1, <2>1, LeastNat
<1>3. m \in 1..n /\ m \notin T
  OBVIOUS
<1>4. m - 1 \in 0..n /\ ~(m <= m - 1)
  BY <1>3
<1>5. m - 1 \in T
  BY <1>2, <1>4
<1> QED BY <1>3, <1>5

\* g is the recursion along 1..n from base by the functions step[1], step[2], ...
Recursion(g, n, base, step) ==
  g[0] = base /\ \A i \in 1..n : g[i] = step[i][g[i-1]]

\* A recursion along 1..n whose step stays in S has a solution, and it is in S.
LEMMA RecursionExists ==
  ASSUME NEW n \in Nat, NEW S, NEW base \in S, NEW step \in [1..n -> [S -> S]]
  PROVE  \E g \in [0..n -> S] : Recursion(g, n, base, step)
<1> DEFINE Solves(m, g) == Recursion(g, m, base, step)
           Solved == {m \in 0..n : \E g \in [0..m -> S] : Solves(m, g)}
<1>1. 0 \in Solved
  <2>1. [i \in 0..0 |-> base] \in [0..0 -> S] /\ Solves(0, [i \in 0..0 |-> base])
    BY DEF Recursion
  <2>2. 0 \in 0..n
    OBVIOUS
  <2> HIDE DEF Solves
  <2> QED BY <2>1, <2>2
<1>2. ASSUME NEW m \in 1..n, m - 1 \in Solved PROVE m \in Solved
  <2>1. PICK g \in [0..(m-1) -> S] : Solves(m - 1, g)
    BY <1>2
  <2> DEFINE h == [i \in 0..m |-> IF i = m THEN step[m][g[m-1]] ELSE g[i]]
  <2>2. g[m-1] \in S /\ step[m] \in [S -> S]
    OBVIOUS
  <2>3. h \in [0..m -> S]
    BY <2>2
  <2>4. h[0] = base
    BY <2>1 DEF Recursion
  <2>5. ASSUME NEW i \in 1..m PROVE h[i] = step[i][h[i-1]]
    <3>1. CASE i = m
      <4>1. m \in 0..m /\ m - 1 \in 0..m /\ m - 1 # m
        OBVIOUS
      <4>2. h[m] = step[m][g[m-1]] /\ h[m-1] = g[m-1]
        BY <4>1
      <4> QED BY <4>2, <3>1
    <3>2. CASE i # m
      <4>1. i \in 0..m /\ i - 1 \in 0..m /\ i - 1 # m /\ i \in 1..(m-1)
        BY <3>2
      <4>2. h[i] = g[i] /\ h[i-1] = g[i-1]
        BY <4>1, <3>2
      <4> QED BY <4>1, <4>2, <2>1 DEF Recursion
    <3> QED BY <3>1, <3>2
  <2>6. Solves(m, h)
    BY <2>4, <2>5 DEF Recursion
  <2>7. m \in 0..n
    OBVIOUS
  <2> HIDE DEF Solves, h
  <2> QED BY <2>3, <2>6, <2>7
<1>3. n \in Solved
  <2>1. \A i \in 1..n : i - 1 \in Solved => i \in Solved
    BY <1>2
  <2> HIDE DEF Solved
  <2>2. \A i \in 0..n : i \in Solved
    BY <1>1, <2>1, IndexInduction
  <2> QED BY <2>2
<1> QED BY <1>3

\* Filter keeps members of the sequence that are in the set.
THEOREM FilterType ==
  ASSUME NEW P, NEW s \in Seq(P), NEW S
  PROVE  Filter(s, S) \in Seq(P \cap S)
<1> DEFINE Q == Seq(P \cap S)
           n == Len(s)
           step == [i \in 1..n |-> [q \in Q |-> IF s[i] \in S THEN Append(q, s[i]) ELSE q]]
           Kept(f) == [i \in 0..n |->
                         IF i = 0 THEN <<>>
                         ELSE IF s[i] \in S THEN Append(f[i-1], s[i]) ELSE f[i-1]]
           kept == CHOOSE f : f = Kept(f)
<1>1. Filter(s, S) = kept[n]
  BY DEF Filter
<1>2. n \in Nat /\ <<>> \in Q
  OBVIOUS
<1>3. \A i \in 1..n, q \in Q : s[i] \in S => Append(q, s[i]) \in Q
  OBVIOUS
<1>4. step \in [1..n -> [Q -> Q]]
  BY <1>3
<1>5. PICK g \in [0..n -> Q] : Recursion(g, n, <<>>, step)
  <2> HIDE DEF step, n, Q
  <2> QED BY <1>2, <1>4, RecursionExists, Zenon
<1>6. g = Kept(g)
  <2>1. ASSUME NEW i \in 0..n PROVE g[i] = Kept(g)[i]
    <3>1. CASE i = 0
      BY <3>1, <1>5 DEF Recursion
    <3>2. CASE i # 0
      <4>1. i \in 1..n /\ g[i-1] \in Q
        BY <3>2
      <4> QED BY <4>1, <3>2, <1>5 DEF Recursion
    <3> QED BY <3>1, <3>2
  <2> QED BY <2>1
<1>7. kept = Kept(kept)
  <2> HIDE DEF Kept
  <2> QED BY <1>6
<1>8. \A i \in 0..n : kept[i] \in Q
  <2> DEFINE T == {i \in 0..n : kept[i] \in Q}
  <2> HIDE DEF kept
  <2>1. 0 \in T
    BY <1>2, <1>7
  <2>2. ASSUME NEW i \in 1..n, i - 1 \in T PROVE i \in T
    <3>1. i \in 0..n /\ i # 0
      OBVIOUS
    <3>2. Kept(kept)[i] = IF s[i] \in S THEN Append(kept[i-1], s[i]) ELSE kept[i-1]
      BY <3>1
    <3>3. kept[i] = Kept(kept)[i]
      BY <1>7, Zenon
    <3>4. kept[i-1] \in Q
      BY <2>2
    <3>5. kept[i] \in Q
      <4> HIDE DEF Q, Kept
      <4> QED BY <3>2, <3>3, <3>4, <1>3
    <3> QED BY <3>1, <3>5
  <2>3. \A i \in 0..n : i \in T
    <3> HIDE DEF T, n
    <3> QED BY <1>2, <2>1, <2>2, IndexInduction
  <2> QED BY <2>3
<1>9. n \in 0..n
  BY <1>2
<1> HIDE DEF kept
<1> QED BY <1>1, <1>8, <1>9

\* A sequence holds members of its set, and of every larger set.
THEOREM SeqMembers ==
  ASSUME NEW P, NEW s \in Seq(P)
  PROVE  /\ \A i \in 1..Len(s) : s[i] \in P
         /\ s # <<>> => s[1] \in P
         /\ \A Q : P \subseteq Q => s \in Seq(Q)
<1>1. \A i \in 1..Len(s) : s[i] \in P
  OBVIOUS
<1>2. s # <<>> => 1 \in 1..Len(s)
  OBVIOUS
<1>3. ASSUME NEW Q, P \subseteq Q PROVE s \in Seq(Q)
  <2>1. \A i \in 1..Len(s) : s[i] \in Q
    BY <1>1, <1>3
  <2>2. s = [i \in 1..Len(s) |-> s[i]] /\ Len(s) \in Nat
    OBVIOUS
  <2>3. s \in [1..Len(s) -> Q]
    BY <2>1, <2>2
  <2> QED BY <2>2, <2>3
<1> QED BY <1>1, <1>2, <1>3

-----------------------------------------------------------------------------
(* Sums.                                                                   *)

\* g holds the sums f[1] + ... + f[i] for i up to n.
PartialSums(g, f, n) ==
  g[0] = 0 /\ \A i \in 1..n : g[i] = g[i-1] + f[i]

\* SumTo is the last of the partial sums.
LEMMA SumToPartial ==
  ASSUME NEW n \in Nat, NEW f, \A i \in 1..n : f[i] \in Int
  PROVE  \E g \in [0..n -> Int] : PartialSums(g, f, n) /\ SumTo(f, n) = g[n]
<1> DEFINE step == [i \in 1..n |-> [q \in Int |-> q + f[i]]]
           Totals(h) == [i \in 0..n |-> IF i = 0 THEN 0 ELSE h[i-1] + f[i]]
           total == CHOOSE h : h = Totals(h)
<1>1. SumTo(f, n) = total[n]
  BY DEF SumTo
<1>2. step \in [1..n -> [Int -> Int]] /\ 0 \in Int
  OBVIOUS
<1>3. PICK g \in [0..n -> Int] : Recursion(g, n, 0, step)
  <2> HIDE DEF step
  <2> QED BY <1>2, RecursionExists, Zenon
<1>4. g = Totals(g)
  <2>1. ASSUME NEW i \in 0..n PROVE g[i] = Totals(g)[i]
    <3>1. CASE i = 0
      BY <3>1, <1>3 DEF Recursion
    <3>2. CASE i # 0
      <4>1. i \in 1..n /\ g[i-1] \in Int
        BY <3>2
      <4> QED BY <4>1, <3>2, <1>3 DEF Recursion
    <3> QED BY <3>1, <3>2
  <2> QED BY <2>1
<1>5. total = Totals(total)
  <2> HIDE DEF Totals
  <2> QED BY <1>4
<1> HIDE DEF total
<1>6. total[0] = 0 /\ \A i \in 1..n : total[i] = total[i-1] + f[i]
  <2>1. Totals(total)[0] = 0
    OBVIOUS
  <2>2. ASSUME NEW i \in 1..n PROVE Totals(total)[i] = total[i-1] + f[i]
    <3>1. i \in 0..n /\ i # 0
      OBVIOUS
    <3> QED BY <3>1
  <2>3. \A i \in 0..n : total[i] = Totals(total)[i]
    BY <1>5, Zenon
  <2> HIDE DEF Totals
  <2> QED BY <2>1, <2>2, <2>3
<1>7. \A i \in 0..n : total[i] \in Int
  <2> DEFINE T == {i \in 0..n : total[i] \in Int}
  <2>1. 0 \in T
    BY <1>6
  <2>2. ASSUME NEW i \in 1..n, i - 1 \in T PROVE i \in T
    <3>1. total[i] = total[i-1] + f[i] /\ total[i-1] \in Int
      BY <2>2, <1>6
    <3>2. f[i] \in Int /\ i \in 0..n
      OBVIOUS
    <3>3. total[i] \in Int
      BY <3>1, <3>2
    <3> QED BY <3>2, <3>3
  <2>3. \A i \in 0..n : i \in T
    <3> HIDE DEF T
    <3> QED BY <2>1, <2>2, IndexInduction
  <2> QED BY <2>3
<1>8. total \in [0..n -> Int]
  <2>1. total = [i \in 0..n |-> total[i]]
    <3>1. Totals(total) = [i \in 0..n |-> Totals(total)[i]]
      OBVIOUS
    <3> HIDE DEF Totals
    <3> QED BY <1>5, <3>1
  <2> QED BY <2>1, <1>7
<1> QED BY <1>1, <1>6, <1>8 DEF PartialSums

\* A sum of naturals is a natural.
THEOREM SumToNat ==
  ASSUME NEW n \in Nat, NEW f, \A i \in 1..n : f[i] \in Nat
  PROVE  SumTo(f, n) \in Nat
<1>1. PICK g \in [0..n -> Int] : PartialSums(g, f, n) /\ SumTo(f, n) = g[n]
  <2>1. \A i \in 1..n : f[i] \in Int
    OBVIOUS
  <2> QED BY <2>1, SumToPartial
<1> DEFINE T == {i \in 0..n : g[i] >= 0}
<1>2. 0 \in T
  BY <1>1 DEF PartialSums
<1>3. ASSUME NEW i \in 1..n, i - 1 \in T PROVE i \in T
  <2>1. g[i] = g[i-1] + f[i] /\ g[i-1] >= 0
    BY <1>1, <1>3 DEF PartialSums
  <2>2. f[i] \in Nat /\ g[i-1] \in Int /\ i \in 0..n
    OBVIOUS
  <2>3. g[i] >= 0
    BY <2>1, <2>2
  <2> QED BY <2>2, <2>3
<1>4. \A i \in 0..n : i \in T
  <2> HIDE DEF T
  <2> QED BY <1>2, <1>3, IndexInduction
<1> QED BY <1>1, <1>4

\* Changing one summand changes the sum by as much.
THEOREM SumToExcept ==
  ASSUME NEW n \in Nat, NEW f \in [1..n -> Int], NEW p \in 1..n, NEW v \in Int
  PROVE  SumTo([f EXCEPT ![p] = v], n) = SumTo(f, n) - f[p] + v
<1> DEFINE e == [f EXCEPT ![p] = v]
<1>1. PICK g \in [0..n -> Int] : PartialSums(g, f, n) /\ SumTo(f, n) = g[n]
  BY SumToPartial
<1>2. PICK h \in [0..n -> Int] : PartialSums(h, e, n) /\ SumTo(e, n) = h[n]
  BY SumToPartial
<1> DEFINE T == {i \in 0..n : h[i] = IF i < p THEN g[i] ELSE g[i] - f[p] + v}
<1>3. 0 \in T
  BY <1>1, <1>2 DEF PartialSums
<1>4. ASSUME NEW i \in 1..n, i - 1 \in T PROVE i \in T
  <2>1. g[i] = g[i-1] + f[i] /\ h[i] = h[i-1] + e[i]
    BY <1>1, <1>2 DEF PartialSums
  <2>2. h[i-1] = IF i - 1 < p THEN g[i-1] ELSE g[i-1] - f[p] + v
    BY <1>4
  <2>3. g[i-1] \in Int /\ f[i] \in Int /\ f[p] \in Int /\ i \in 0..n
    OBVIOUS
  <2>4. CASE i = p
    <3>1. e[i] = v
      BY <2>4
    <3> QED BY <2>1, <2>2, <2>3, <2>4, <3>1
  <2>5. CASE i # p
    <3>1. e[i] = f[i]
      BY <2>5
    <3>2. i < p <=> i - 1 < p
      BY <2>5
    <3>3. h[i] = h[i-1] + f[i] /\ g[i] = g[i-1] + f[i]
      BY <2>1, <3>1
    <3>4. h[i] = IF i < p THEN g[i] ELSE g[i] - f[p] + v
      <4>1. CASE i < p
        <5>1. h[i-1] = g[i-1]
          BY <2>2, <3>2, <4>1
        <5> QED BY <3>3, <4>1, <5>1
      <4>2. CASE ~(i < p)
        <5>1. h[i-1] = g[i-1] - f[p] + v
          BY <2>2, <3>2, <4>2
        <5>2. h[i] = (g[i-1] - f[p] + v) + f[i]
          BY <3>3, <5>1
        <5>3. h[i] = (g[i-1] + f[i]) - f[p] + v
          <6> HIDE DEF e, T
          <6> DEFINE a == g[i-1]  b == f[p]  c == f[i]  x == h[i]
          <6>1. a \in Int /\ b \in Int /\ c \in Int /\ x = (a - b + v) + c
            BY <2>3, <5>2
          <6> HIDE DEF a, b, c, x
          <6>2. x = (a + c) - b + v
            BY <6>1
          <6> QED BY <6>2 DEF a, b, c, x
        <5> QED BY <3>3, <4>2, <5>3
      <4> QED BY <4>1, <4>2
    <3> QED BY <2>3, <3>4
  <2> QED BY <2>4, <2>5
<1>5. \A i \in 0..n : i \in T
  <2> HIDE DEF T
  <2> QED BY <1>3, <1>4, IndexInduction
<1>6. n \in T /\ ~(n < p)
  BY <1>5
<1> QED BY <1>1, <1>2, <1>6

\* A sum of zeros.
THEOREM SumToZero ==
  ASSUME NEW n \in Nat
  PROVE  SumTo([i \in 1..n |-> 0], n) = 0
<1> DEFINE f == [i \in 1..n |-> 0]
<1>1. PICK g \in [0..n -> Int] : PartialSums(g, f, n) /\ SumTo(f, n) = g[n]
  BY SumToPartial
<1> DEFINE T == {i \in 0..n : g[i] = 0}
<1>2. 0 \in T
  BY <1>1 DEF PartialSums
<1>3. ASSUME NEW i \in 1..n, i - 1 \in T PROVE i \in T
  BY <1>1, <1>3 DEF PartialSums
<1>4. \A i \in 0..n : i \in T
  <2> HIDE DEF T
  <2> QED BY <1>2, <1>3, IndexInduction
<1> QED BY <1>1, <1>4

\* A sum of nothing, and taking the last summand off.
THEOREM SumLast ==
  ASSUME NEW n \in Nat, NEW f, \A i \in 1..n : f[i] \in Int
  PROVE  /\ SumTo(f, n) \in Int
         /\ n = 0 => SumTo(f, n) = 0
         /\ n # 0 => SumTo(f, n) = SumTo(f, n - 1) + f[n]
<1>1. PICK g \in [0..n -> Int] : PartialSums(g, f, n) /\ SumTo(f, n) = g[n]
  BY SumToPartial
<1>2. SumTo(f, n) \in Int /\ (n = 0 => SumTo(f, n) = 0)
  BY <1>1 DEF PartialSums
<1>3. ASSUME n # 0 PROVE SumTo(f, n) = SumTo(f, n - 1) + f[n]
  <2> DEFINE m == n - 1
  <2>1. m \in Nat /\ \A i \in 1..m : f[i] \in Int
    BY <1>3
  <2> HIDE DEF m
  <2>2. PICK h \in [0..m -> Int] : PartialSums(h, f, m) /\ SumTo(f, m) = h[m]
    BY <2>1, SumToPartial
  <2> DEFINE T == {i \in 0..m : g[i] = h[i]}
  <2>3. 0 \in T
    BY <1>1, <2>1, <2>2 DEF PartialSums
  <2>4. ASSUME NEW i \in 1..m, i - 1 \in T PROVE i \in T
    <3>1. i \in 1..n /\ i \in 0..m /\ g[i-1] = h[i-1]
      BY <2>1, <2>4 DEF m
    <3>2. g[i] = g[i-1] + f[i] /\ h[i] = h[i-1] + f[i]
      BY <1>1, <2>2, <3>1 DEF PartialSums
    <3> QED BY <3>1, <3>2
  <2>5. \A i \in 0..m : i \in T
    <3> HIDE DEF T
    <3> QED BY <2>1, <2>3, <2>4, IndexInduction
  <2>6. g[m] = h[m]
    BY <2>1, <2>5
  <2>7. n \in 1..n /\ g[n] = g[n-1] + f[n]
    BY <1>1, <1>3 DEF PartialSums
  <2> QED BY <1>1, <2>2, <2>6, <2>7 DEF m
<1> QED BY <1>2, <1>3

\* Sums compare as their summands do.
THEOREM SumMonotone ==
  ASSUME NEW n \in Nat, NEW f, NEW g,
         \A i \in 1..n : f[i] \in Int /\ g[i] \in Int /\ f[i] <= g[i]
  PROVE  SumTo(f, n) <= SumTo(g, n)
<1> DEFINE T == {k \in 0..n : SumTo(f, k) <= SumTo(g, k)}
<1>1. 0 \in T
  <2>1. SumTo(f, 0) = 0 /\ SumTo(g, 0) = 0
    BY SumLast
  <2> QED BY <2>1
<1>2. ASSUME NEW k \in 1..n, k - 1 \in T PROVE k \in T
  <2>1. /\ k \in Nat /\ k # 0 /\ k \in 0..n /\ k - 1 \in Nat
        /\ \A i \in 1..k : f[i] \in Int /\ g[i] \in Int /\ f[i] <= g[i]
        /\ \A i \in 1..(k-1) : f[i] \in Int /\ g[i] \in Int
    OBVIOUS
  <2>2. SumTo(f, k) = SumTo(f, k - 1) + f[k] /\ SumTo(g, k) = SumTo(g, k - 1) + g[k]
    BY <2>1, SumLast
  <2>3. SumTo(f, k - 1) \in Int /\ SumTo(g, k - 1) \in Int
    BY <2>1, SumLast
  <2>4. SumTo(f, k - 1) <= SumTo(g, k - 1)
    BY <1>2
  <2>5. f[k] \in Int /\ g[k] \in Int /\ f[k] <= g[k]
    OBVIOUS
  <2>6. SumTo(f, k) <= SumTo(g, k)
    BY <2>2, <2>3, <2>4, <2>5
  <2> QED BY <2>1, <2>6
<1>3. \A k \in 0..n : k \in T
  <2> HIDE DEF T
  <2> QED BY <1>1, <1>2, IndexInduction
<1> QED BY <1>3

\* Sums with the same summands are equal.
THEOREM SumSame ==
  ASSUME NEW n \in Nat, NEW f, NEW g, \A i \in 1..n : f[i] \in Int /\ f[i] = g[i]
  PROVE  SumTo(f, n) = SumTo(g, n)
<1>1. /\ \A i \in 1..n : f[i] \in Int /\ g[i] \in Int /\ f[i] <= g[i]
      /\ \A i \in 1..n : g[i] \in Int /\ f[i] \in Int /\ g[i] <= f[i]
  OBVIOUS
<1>2. SumTo(f, n) <= SumTo(g, n) /\ SumTo(g, n) <= SumTo(f, n)
  BY <1>1, SumMonotone
<1>3. SumTo(f, n) \in Int /\ SumTo(g, n) \in Int
  BY <1>1, SumLast
<1> QED BY <1>2, <1>3

\* Summing two functions at once.
THEOREM SumPlus ==
  ASSUME NEW n \in Nat, NEW f, NEW g, NEW h,
         \A i \in 1..n : f[i] \in Int /\ g[i] \in Int /\ h[i] = f[i] + g[i]
  PROVE  SumTo(h, n) = SumTo(f, n) + SumTo(g, n)
<1> DEFINE T == {k \in 0..n : SumTo(h, k) = SumTo(f, k) + SumTo(g, k)}
<1>1. 0 \in T
  <2>1. SumTo(f, 0) = 0 /\ SumTo(g, 0) = 0 /\ SumTo(h, 0) = 0
    BY SumLast
  <2> QED BY <2>1
<1>2. ASSUME NEW k \in 1..n, k - 1 \in T PROVE k \in T
  <2>1. /\ k \in Nat /\ k # 0 /\ k \in 0..n /\ k - 1 \in Nat
        /\ \A i \in 1..k : f[i] \in Int /\ g[i] \in Int /\ h[i] \in Int
        /\ \A i \in 1..(k-1) : f[i] \in Int /\ g[i] \in Int /\ h[i] \in Int
    OBVIOUS
  <2>2. /\ SumTo(f, k) = SumTo(f, k - 1) + f[k] /\ SumTo(g, k) = SumTo(g, k - 1) + g[k]
        /\ SumTo(h, k) = SumTo(h, k - 1) + h[k]
    BY <2>1, SumLast
  <2>3. SumTo(f, k - 1) \in Int /\ SumTo(g, k - 1) \in Int
    BY <2>1, SumLast
  <2>4. SumTo(h, k - 1) = SumTo(f, k - 1) + SumTo(g, k - 1)
    BY <1>2
  <2>5. f[k] \in Int /\ g[k] \in Int /\ h[k] = f[k] + g[k]
    OBVIOUS
  <2>6. SumTo(h, k) = SumTo(f, k) + SumTo(g, k)
    BY <2>2, <2>3, <2>4, <2>5
  <2> QED BY <2>1, <2>6
<1>3. \A k \in 0..n : k \in T
  <2> HIDE DEF T
  <2> QED BY <1>1, <1>2, IndexInduction
<1> QED BY <1>3

\* A table of numbers is summed row by row or column by column.
THEOREM SumSwap ==
  ASSUME NEW m \in Nat, NEW n \in Nat, NEW f \in [1..m -> [1..n -> Int]]
  PROVE  SumTo([i \in 1..m |-> SumTo(f[i], n)], m)
           = SumTo([j \in 1..n |-> SumTo([i \in 1..m |-> f[i][j]], m)], n)
<1> DEFINE rows == [i \in 1..m |-> SumTo(f[i], n)]
           column == [j \in 1..n |-> [i \in 1..m |-> f[i][j]]]
           columns == [k \in 0..m |-> [j \in 1..n |-> SumTo(column[j], k)]]
           T == {k \in 0..m : SumTo(rows, k) = SumTo(columns[k], n)}
<1>1. \A i \in 1..m : f[i] \in [1..n -> Int]
  OBVIOUS
<1>2. \A i \in 1..m : rows[i] \in Int
  <2>1. ASSUME NEW i \in 1..m PROVE SumTo(f[i], n) \in Int
    <3>1. \A j \in 1..n : f[i][j] \in Int
      BY <1>1
    <3> QED BY <3>1, SumLast
  <2> QED BY <2>1
<1>3. \A j \in 1..n : \A i \in 1..m : column[j][i] = f[i][j] /\ column[j][i] \in Int
  BY <1>1
<1>4. ASSUME NEW k \in 0..m, NEW j \in 1..n
      PROVE  /\ columns[k][j] \in Int
             /\ k = 0 => columns[k][j] = 0
             /\ k # 0 => k - 1 \in 0..m /\ columns[k][j] = columns[k-1][j] + f[k][j]
  <2>1. columns[k][j] = SumTo(column[j], k)
    OBVIOUS
  <2>2. k \in Nat /\ (k # 0 => k \in 1..m /\ k - 1 \in 0..m)
    OBVIOUS
  <2>3. k # 0 => columns[k-1][j] = SumTo(column[j], k - 1)
    BY <2>2
  <2>4. \A i \in 1..k : column[j][i] \in Int
    BY <1>3
  <2>5. k # 0 => column[j][k] = f[k][j]
    BY <1>3, <2>2
  <2> HIDE DEF columns, column
  <2> QED BY <2>1, <2>2, <2>3, <2>4, <2>5, SumLast
<1> HIDE DEF rows, columns, column
<1>5. 0 \in T
  <2>1. SumTo(rows, 0) = 0
    BY SumLast
  <2>2. 0 \in 0..m
    OBVIOUS
  <2>3. \A j \in 1..n : columns[0][j] \in Int /\ columns[0][j] = [i \in 1..n |-> 0][j]
    BY <1>4, <2>2
  <2>4. SumTo(columns[0], n) = SumTo([i \in 1..n |-> 0], n)
    BY <2>3, SumSame
  <2>5. SumTo([i \in 1..n |-> 0], n) = 0
    BY SumToZero
  <2> QED BY <2>1, <2>2, <2>4, <2>5
<1>6. ASSUME NEW k \in 1..m, k - 1 \in T PROVE k \in T
  <2>1. k \in 0..m /\ k \in Nat /\ k # 0 /\ k - 1 \in 0..m /\ \A i \in 1..k : rows[i] \in Int
    BY <1>2
  <2>2. SumTo(rows, k) = SumTo(rows, k - 1) + rows[k]
    BY <2>1, SumLast
  <2>3. rows[k] = SumTo(f[k], n)
    BY DEF rows
  <2>4. \A j \in 1..n : /\ columns[k-1][j] \in Int /\ f[k][j] \in Int
                        /\ columns[k][j] = columns[k-1][j] + f[k][j]
    BY <1>1, <1>4, <2>1
  <2>5. SumTo(columns[k], n) = SumTo(columns[k-1], n) + SumTo(f[k], n)
    BY <2>4, SumPlus
  <2>6. SumTo(rows, k - 1) = SumTo(columns[k-1], n)
    BY <1>6
  <2> QED BY <2>1, <2>2, <2>3, <2>5, <2>6
<1>7. m \in T
  <2>1. \A k \in 0..m : k \in T
    <3> HIDE DEF T
    <3> QED BY <1>5, <1>6, IndexInduction
  <2> QED BY <2>1
<1>8. columns[m] = [j \in 1..n |-> SumTo([i \in 1..m |-> f[i][j]], m)]
  BY DEF columns, column
<1> QED BY <1>7, <1>8 DEF rows

\* Everyone named in the first k places of a list gets c: that takes no more than k times c,
\* however often one is named.
THEOREM SumOfNamed ==
  ASSUME NEW n \in Nat, NEW k \in Nat, NEW ids, NEW c \in Nat, \A i \in 1..k : ids[i] \in 1..n
  PROVE  SumTo([p \in 1..n |-> IF \E i \in 1..k : ids[i] = p THEN c ELSE 0], n) <= k * c
<1> DEFINE given == [j \in 0..k |-> [p \in 1..n |-> IF \E i \in 1..j : ids[i] = p THEN c ELSE 0]]
           T == {j \in 0..k : SumTo(given[j], n) <= j * c}
<1>1. \A j \in 0..k : given[j] \in [1..n -> Nat]
  OBVIOUS
<1>2. 0 \in T
  <2>1. given[0] = [p \in 1..n |-> 0]
    OBVIOUS
  <2>2. SumTo(given[0], n) = 0
    BY <2>1, SumToZero
  <2> HIDE DEF given
  <2> QED BY <2>2
<1>3. ASSUME NEW j \in 1..k, j - 1 \in T PROVE j \in T
  <2> DEFINE q == ids[j]
             before == given[j-1]
  <2>1. j \in 0..k /\ j - 1 \in 0..k /\ q \in 1..n
    OBVIOUS
  <2>2. given[j] = [before EXCEPT ![q] = c]
    <3>1. ASSUME NEW p \in 1..n PROVE given[j][p] = [before EXCEPT ![q] = c][p]
      <4>1. CASE p = q
        BY <2>1, <4>1
      <4>2. CASE p # q
        <5>1. (\E i \in 1..j : ids[i] = p) <=> (\E i \in 1..(j-1) : ids[i] = p)
          BY <4>2
        <5> QED BY <2>1, <4>2, <5>1
      <4> QED BY <4>1, <4>2
    <3>2. given[j] = [p \in 1..n |-> given[j][p]] /\ DOMAIN before = 1..n
      BY <2>1
    <3> HIDE DEF given, before, q
    <3> QED BY <3>1, <3>2
  <2>3. before \in [1..n -> Int] /\ before[q] \in Nat /\ SumTo(before, n) <= (j - 1) * c
    BY <1>1, <1>3, <2>1
  <2>4. SumTo(before, n) \in Int
    BY <2>3, SumLast
  <2> HIDE DEF given, before, q
  <2>5. SumTo(given[j], n) = SumTo(before, n) - before[q] + c
    <3>1. c \in Int /\ q \in 1..n /\ before \in [1..n -> Int]
      BY <2>1, <2>3
    <3>2. SumTo([before EXCEPT ![q] = c], n) = SumTo(before, n) - before[q] + c
      BY <3>1, SumToExcept
    <3> QED BY <2>2, <3>2
  <2>6. (j - 1) * c + c = j * c /\ j * c \in Int /\ (j - 1) * c \in Int
    BY Z3
  <2>7. SumTo(given[j], n) <= j * c
    BY <2>3, <2>4, <2>5, <2>6
  <2> QED BY <2>1, <2>7
<1>4. k \in T
  <2>1. \A j \in 0..k : j \in T
    <3> HIDE DEF T
    <3> QED BY <1>2, <1>3, IndexInduction
  <2> QED BY <2>1
<1> QED BY <1>4

\* Every member of S gets c: that takes c times as many as S has.
THEOREM SumOfMembers ==
  ASSUME NEW n \in Nat, NEW S \in SUBSET (1..n), NEW c \in Nat
  PROVE  SumTo([p \in 1..n |-> IF p \in S THEN c ELSE 0], n) = c * Cardinality(S)
<1> DEFINE given == [p \in 1..n |-> IF p \in S THEN c ELSE 0]
           Part(k) == S \cap (1..k)
           T == {k \in 0..n : SumTo(given, k) = c * Cardinality(Part(k))}
<1>1. \A p \in 1..n : given[p] \in Int /\ given[p] = IF p \in S THEN c ELSE 0
  OBVIOUS
<1> HIDE DEF given
<1>2. \A k \in 0..n : IsFiniteSet(Part(k)) /\ Cardinality(Part(k)) \in Nat
  <2>1. ASSUME NEW k \in 0..n PROVE IsFiniteSet(Part(k))
    <3>1. IsFiniteSet(1..k) /\ Part(k) \subseteq 1..k
      BY FS_Interval
    <3> HIDE DEF Part
    <3> QED BY <3>1, FS_Subset
  <2> HIDE DEF Part
  <2> QED BY <2>1, FS_CardinalityType
<1>3. 0 \in T
  <2>1. SumTo(given, 0) = 0
    BY SumLast
  <2>2. Part(0) = {}
    OBVIOUS
  <2>3. Cardinality({}) = 0
    BY FS_EmptySet
  <2>4. c * Cardinality(Part(0)) = 0
    BY <2>2, <2>3
  <2> QED BY <2>1, <2>4
<1>4. ASSUME NEW k \in 1..n, k - 1 \in T PROVE k \in T
  <2>1. k \in 0..n /\ k \in Nat /\ k # 0 /\ k - 1 \in 0..n /\ \A i \in 1..k : given[i] \in Int
    BY <1>1
  <2>2. SumTo(given, k) = SumTo(given, k - 1) + given[k]
    BY <2>1, SumLast
  <2>3. SumTo(given, k - 1) = c * Cardinality(Part(k - 1))
    BY <1>4
  <2>4. CASE k \in S
    <3>1. Part(k) = Part(k - 1) \cup {k} /\ k \notin Part(k - 1)
      BY <2>4
    <3>2. IsFiniteSet(Part(k - 1)) /\ Cardinality(Part(k - 1)) \in Nat
      BY <1>2, <2>1
    <3> HIDE DEF Part
    <3>3. Cardinality(Part(k)) = Cardinality(Part(k - 1)) + 1
      BY <3>1, <3>2, FS_AddElement
    <3>4. given[k] = c
      BY <1>1, <2>4
    <3> DEFINE d == Cardinality(Part(k - 1))
    <3>5. d \in Nat /\ SumTo(given, k) = c * d + c /\ Cardinality(Part(k)) = d + 1
      BY <2>2, <2>3, <3>2, <3>3, <3>4
    <3> HIDE DEF d
    <3>6. c * d + c = c * (d + 1)
      BY <3>5, Z3
    <3> QED BY <2>1, <3>5, <3>6
  <2>5. CASE k \notin S
    <3>1. Part(k) = Part(k - 1)
      BY <2>5
    <3>2. Cardinality(Part(k - 1)) \in Nat
      BY <1>2, <2>1
    <3> HIDE DEF Part
    <3>3. given[k] = 0
      BY <1>1, <2>5
    <3>4. c * Cardinality(Part(k - 1)) \in Int
      BY <3>2
    <3>5. SumTo(given, k) = c * Cardinality(Part(k))
      BY <2>2, <2>3, <3>1, <3>3, <3>4
    <3> QED BY <2>1, <3>5
  <2> QED BY <2>4, <2>5
<1>5. n \in T
  <2>1. \A k \in 0..n : k \in T
    <3> HIDE DEF T
    <3> QED BY <1>3, <1>4, IndexInduction
  <2> QED BY <2>1
<1>6. Part(n) = S
  OBVIOUS
<1> QED BY <1>5, <1>6 DEF given

-----------------------------------------------------------------------------
(* Greatest members.                                                       *)

\* What is true of Max of a set of naturals with an upper bound.
THEOREM MaxNat ==
  ASSUME NEW S \in SUBSET Nat, S # {}, NEW u \in Nat, \A x \in S : x <= u
  PROVE  Max(S) \in S /\ \A x \in S : x <= Max(S)
<1> DEFINE Bounds == {b \in Nat : \A x \in S : x <= b}
<1>1. PICK b \in Bounds : \A c \in Bounds : b <= c
  <2>1. Bounds \in SUBSET Nat /\ Bounds # {}
    OBVIOUS
  <2> HIDE DEF Bounds
  <2> QED BY <2>1, LeastNat
<1>2. b \in S
  <2>1. SUFFICES ASSUME b \notin S PROVE FALSE
    OBVIOUS
  <2>2. PICK x \in S : TRUE
    OBVIOUS
  <2>3. b # 0
    BY <2>1, <2>2
  <2>4. b - 1 \in Bounds
    BY <2>1, <2>3
  <2> QED BY <1>1, <2>4
<1>3. \E x \in S : \A y \in S : x >= y
  BY <1>2
<1>4. Max(S) \in S /\ \A y \in S : Max(S) >= y
  BY <1>3 DEF Max
<1> QED BY <1>4

\* A function on 1..n into the naturals has an upper bound.
THEOREM UpperBound ==
  ASSUME NEW n \in Nat, NEW f \in [1..n -> Nat]
  PROVE  \E u \in Nat : \A i \in 1..n : f[i] <= u
<1> DEFINE T == {k \in 0..n : \E u \in Nat : \A i \in 1..k : f[i] <= u}
<1>1. 0 \in T
  OBVIOUS
<1>2. ASSUME NEW k \in 1..n, k - 1 \in T PROVE k \in T
  <2>1. PICK u \in Nat : \A i \in 1..(k-1) : f[i] <= u
    BY <1>2
  <2>2. f[k] \in Nat /\ u + f[k] \in Nat
    OBVIOUS
  <2>3. \A i \in 1..k : f[i] <= u + f[k]
    <3>1. ASSUME NEW i \in 1..k PROVE f[i] <= u + f[k]
      <4>1. CASE i = k
        BY <4>1, <2>2
      <4>2. CASE i # k
        BY <4>2, <2>1, <2>2
      <4> QED BY <4>1, <4>2
    <3> QED BY <3>1
  <2> QED BY <2>2, <2>3
<1>3. \A k \in 0..n : k \in T
  <2> HIDE DEF T
  <2> QED BY <1>1, <1>2, IndexInduction
<1>4. n \in T
  <2>1. n \in 0..n
    OBVIOUS
  <2> QED BY <1>3, <2>1
<1> QED BY <1>4

\* The smaller of two integers.
THEOREM MinPair ==
  ASSUME NEW a \in Int, NEW b \in Int
  PROVE  /\ Min({a, b}) \in Int
         /\ Min({a, b}) <= a /\ Min({a, b}) <= b
         /\ Min({a, b}) = a \/ Min({a, b}) = b
         /\ a \in Nat /\ b \in Nat => Min({a, b}) \in Nat
<1>1. \E x \in {a, b} : \A y \in {a, b} : x =< y
  OBVIOUS
<1>2. Min({a, b}) \in {a, b} /\ \A y \in {a, b} : Min({a, b}) =< y
  BY <1>1 DEF Min
<1> QED BY <1>2

\* The greater of two integers.
THEOREM MaxPair ==
  ASSUME NEW a \in Int, NEW b \in Int
  PROVE  /\ Max({a, b}) \in Int
         /\ Max({a, b}) >= a /\ Max({a, b}) >= b
         /\ Max({a, b}) = a \/ Max({a, b}) = b
<1>1. \E x \in {a, b} : \A y \in {a, b} : x >= y
  OBVIOUS
<1>2. Max({a, b}) \in {a, b} /\ \A y \in {a, b} : Max({a, b}) >= y
  BY <1>1 DEF Max
<1> QED BY <1>2
=============================================================================
