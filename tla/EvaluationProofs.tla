-------------------------- MODULE EvaluationProofs --------------------------
(***************************************************************************)
(* evaluate_hand finds the best five of seven cards, for every deck of     *)
(* ranks Two to Ace in at most four suits.                                 *)
(*                                                                         *)
(* Three facts meet at the end.  The order of Vec is a strict total order. *)
(* What evaluate_hand says is made by some five of the cards (the lemmas   *)
(* ...Made), so it is never more than the best.  And whatever five of the  *)
(* cards one takes, a check of their category or of a higher one finds     *)
(* something (the lemmas ...Found) that says no less (...Unbeaten), but    *)
(* for the three kinds of hands that HandEvaluation names.                 *)
(***************************************************************************)
EXTENDS HandEvaluation, ChipMathProofs

-----------------------------------------------------------------------------
(* The order of sequences.                                                 *)

\* s is less than t from place i on.
LessAt(s, t, i) ==
  /\ i - 1 <= Len(s) /\ \A j \in 1..(i-1) : s[j] = t[j]
  /\ i = Len(s) + 1 \/ (i <= Len(s) /\ s[i] < t[i])

\* The order of Vec is decided at one place.
LEMMA SeqLessAt ==
  ASSUME NEW s \in Seq(Nat), NEW t \in Seq(Nat)
  PROVE  SeqLess(s, t) <=> \E i \in 1..Len(t) : LessAt(s, t, i)
<1> DEFINE a == Len(s)
           b == Len(t)
           m == Min({Len(s), Len(t)})
<1>1. /\ a \in Nat /\ b \in Nat /\ m \in Nat /\ m <= a /\ m <= b /\ (m = a \/ m = b)
      /\ Min({Len(s), Len(t)}) = m
  <2>1. Len(s) \in Nat /\ Len(t) \in Nat
    OBVIOUS
  <2>2. /\ Min({Len(s), Len(t)}) \in Int
        /\ Min({Len(s), Len(t)}) <= Len(s) /\ Min({Len(s), Len(t)}) <= Len(t)
        /\ Min({Len(s), Len(t)}) = Len(s) \/ Min({Len(s), Len(t)}) = Len(t)
    <3>1. Len(s) \in Int /\ Len(t) \in Int
      BY <2>1
    <3> QED BY <3>1, MinPair, Zenon
  <2> QED BY <2>1, <2>2
<1>2. a < b => (s = SubSeq(t, 1, a) <=> \A j \in 1..a : s[j] = t[j])
  <2>1. SUFFICES ASSUME a < b
                 PROVE  s = SubSeq(t, 1, a) <=> \A j \in 1..a : s[j] = t[j]
    OBVIOUS
  <2>2. SubSeq(t, 1, a) = [j \in 1..a |-> t[j]]
    BY <1>1, <2>1
  <2>3. s = [j \in 1..a |-> s[j]]
    OBVIOUS
  <2> QED BY <2>2, <2>3
<1>3. SeqLess(s, t) <=> \/ \E i \in 1..m : s[i] < t[i] /\ \A j \in 1..(i-1) : s[j] = t[j]
                        \/ a < b /\ s = SubSeq(t, 1, a)
  BY <1>1 DEF SeqLess
<1>4. \A i \in 1..b : LessAt(s, t, i) <=>
        /\ i - 1 <= a /\ \A j \in 1..(i-1) : s[j] = t[j]
        /\ i = a + 1 \/ (i <= a /\ s[i] < t[i])
  BY DEF LessAt
<1> HIDE DEF m, a, b
<1>5. ASSUME NEW i \in 1..b, LessAt(s, t, i) PROVE SeqLess(s, t)
  <2>1. CASE i = a + 1
    BY <1>1, <1>2, <1>3, <1>4, <1>5, <2>1
  <2>2. CASE i <= a /\ s[i] < t[i]
    <3>1. i \in 1..m
      BY <1>1, <2>2
    <3> QED BY <1>3, <1>4, <1>5, <2>2, <3>1
  <2> QED BY <1>4, <1>5, <2>1, <2>2
<1>6. ASSUME SeqLess(s, t) PROVE \E i \in 1..b : LessAt(s, t, i)
  <2>1. CASE \E i \in 1..m : s[i] < t[i] /\ \A j \in 1..(i-1) : s[j] = t[j]
    <3>1. PICK i \in 1..m : s[i] < t[i] /\ \A j \in 1..(i-1) : s[j] = t[j]
      BY <2>1
    <3>2. i \in 1..b /\ i - 1 <= a /\ i <= a
      BY <1>1
    <3> QED BY <1>4, <3>1, <3>2
  <2>2. CASE a < b /\ s = SubSeq(t, 1, a)
    <3>1. a + 1 \in 1..b /\ a + 1 - 1 = a
      BY <1>1, <2>2
    <3>2. LessAt(s, t, a + 1)
      BY <1>1, <1>2, <1>4, <2>2, <3>1
    <3> QED BY <3>1, <3>2
  <2> QED BY <1>3, <1>6, <2>1, <2>2
<1> QED BY <1>5, <1>6 DEF b

\* Vec's order is a strict total order: a sort by it is one.
LEMMA SeqLessIrreflexive ==
  ASSUME NEW s \in Seq(Nat)
  PROVE  ~SeqLess(s, s)
<1>1. ASSUME NEW i \in 1..Len(s), LessAt(s, s, i) PROVE FALSE
  <2>1. s[i] \in Nat /\ i <= Len(s) /\ Len(s) \in Nat
    OBVIOUS
  <2> QED BY <1>1, <2>1 DEF LessAt
<1> QED BY <1>1, SeqLessAt

\* What is less than something less is less.
LEMMA SeqLessTransitive ==
  ASSUME NEW s \in Seq(Nat), NEW t \in Seq(Nat), NEW u \in Seq(Nat),
         SeqLess(s, t), SeqLess(t, u)
  PROVE  SeqLess(s, u)
<1>1. PICK i \in 1..Len(t) : LessAt(s, t, i)
  BY SeqLessAt
<1>2. PICK k \in 1..Len(u) : LessAt(t, u, k)
  BY SeqLessAt
<1>3. /\ Len(s) \in Nat /\ Len(t) \in Nat /\ Len(u) \in Nat
      /\ \A j \in 1..Len(s) : s[j] \in Nat
      /\ \A j \in 1..Len(t) : t[j] \in Nat
      /\ \A j \in 1..Len(u) : u[j] \in Nat
  BY SMTT(30)
<1>4. CASE i <= k
  <2>1. i \in 1..Len(u)
    BY <1>3, <1>4
  <2>2. LessAt(s, u, i)
    <3>1. \A j \in 1..(i-1) : s[j] = t[j] /\ t[j] = u[j]
      <4>1. \A j \in 1..(i-1) : j \in 1..(k-1)
        BY <1>3, <1>4
      <4> QED BY <1>1, <1>2, <4>1 DEF LessAt
    <3>2. CASE i = Len(s) + 1
      BY <1>1, <3>1, <3>2 DEF LessAt
    <3>3. CASE i <= Len(s) /\ s[i] < t[i]
      <4>1. t[i] <= u[i]
        <5>1. CASE i = k
          BY <1>2, <1>3, <2>1, <5>1 DEF LessAt
        <5>2. CASE i < k
          <6>1. i \in 1..(k-1) /\ t[i] \in Nat
            BY <1>3, <5>2
          <6>2. t[i] = u[i]
            BY <1>2, <6>1 DEF LessAt
          <6> QED BY <6>1, <6>2
        <5> QED BY <1>4, <5>1, <5>2
      <4>2. s[i] < u[i]
        <5>1. s[i] \in Nat /\ t[i] \in Nat /\ u[i] \in Nat
          BY <1>3, <2>1, <3>3
        <5> QED BY SMTT(30), <3>3, <4>1, <5>1
      <4> QED BY <1>1, <3>1, <3>3, <4>2 DEF LessAt
    <3> QED BY <1>1, <3>2, <3>3 DEF LessAt
  <2> QED BY <2>1, <2>2, SeqLessAt
<1>5. CASE k < i
  <2>1. k - 1 <= Len(s) /\ k <= Len(s) /\ k <= Len(t)
    BY SMTT(30), <1>1, <1>3, <1>5 DEF LessAt
  <2>2. \A j \in 1..k : s[j] = t[j]
    <3>1. \A j \in 1..k : j \in 1..(i-1)
      BY <1>3, <1>5
    <3> QED BY <1>1, <3>1 DEF LessAt
  <2>3. \A j \in 1..(k-1) : t[j] = u[j]
    BY <1>2 DEF LessAt
  <2>4. t[k] < u[k]
    BY <1>2, <1>3, <2>1 DEF LessAt
  <2>5. LessAt(s, u, k)
    BY <2>1, <2>2, <2>3, <2>4 DEF LessAt
  <2> QED BY <2>5, SeqLessAt
<1> QED BY <1>4, <1>5

\* Of two different sequences one is less.
LEMMA SeqLessTotal ==
  ASSUME NEW s \in Seq(Nat), NEW t \in Seq(Nat)
  PROVE  s = t \/ SeqLess(s, t) \/ SeqLess(t, s)
<1> DEFINE Differ == {i \in Nat : i >= 1 /\ i <= Len(s) /\ i <= Len(t) /\ s[i] # t[i]}
<1>1. /\ Len(s) \in Nat /\ Len(t) \in Nat
      /\ \A j \in 1..Len(s) : s[j] \in Nat
      /\ \A j \in 1..Len(t) : t[j] \in Nat
  OBVIOUS
<1>2. CASE Differ = {}
  <2>1. \A j \in Nat : j >= 1 /\ j <= Len(s) /\ j <= Len(t) => s[j] = t[j]
    BY <1>2
  <2>2. CASE Len(s) = Len(t)
    <3>1. s = [i \in 1..Len(s) |-> s[i]] /\ t = [i \in 1..Len(t) |-> t[i]]
      OBVIOUS
    <3>2. \A j \in 1..Len(s) : s[j] = t[j]
      BY <1>1, <2>1, <2>2
    <3> QED BY <2>2, <3>1, <3>2
  <2>3. CASE Len(s) < Len(t)
    <3>1. LessAt(s, t, Len(s) + 1) /\ Len(s) + 1 \in 1..Len(t)
      BY <1>1, <2>1, <2>3 DEF LessAt
    <3> QED BY <3>1, SeqLessAt
  <2>4. CASE Len(t) < Len(s)
    <3>1. LessAt(t, s, Len(t) + 1) /\ Len(t) + 1 \in 1..Len(s)
      BY <1>1, <2>1, <2>4 DEF LessAt
    <3> QED BY <3>1, SeqLessAt
  <2> QED BY <1>1, <2>2, <2>3, <2>4
<1>3. CASE Differ # {}
  <2>1. PICK i \in Differ : \A j \in Differ : i <= j
    <3>1. Differ \in SUBSET Nat
      OBVIOUS
    <3> HIDE DEF Differ
    <3> QED BY <1>3, <3>1, LeastNat
  <2>2. i \in 1..Len(s) /\ i \in 1..Len(t) /\ s[i] # t[i]
    BY <1>1
  <2>3. ASSUME NEW j \in 1..(i-1) PROVE s[j] = t[j]
    <3>1. j \in Nat /\ j >= 1 /\ j <= Len(s) /\ j <= Len(t) /\ ~(i <= j)
      BY <1>1, <2>2
    <3>2. j \notin Differ
      BY <2>1, <3>1
    <3> QED BY <3>1, <3>2
  <2>4. CASE s[i] < t[i]
    <3>1. LessAt(s, t, i)
      BY <1>1, <2>2, <2>3, <2>4 DEF LessAt
    <3> QED BY <2>2, <3>1, SeqLessAt
  <2>5. CASE t[i] < s[i]
    <3>1. LessAt(t, s, i)
      BY <1>1, <2>2, <2>3, <2>5 DEF LessAt
    <3> QED BY <2>2, <3>1, SeqLessAt
  <2>6. s[i] \in Nat /\ t[i] \in Nat
    BY <1>1, <2>2
  <2> QED BY <2>2, <2>4, <2>5, <2>6
<1> QED BY <1>2, <1>3

\* A finite set of sequences has a greatest member.
LEMMA GreatestExists ==
  ASSUME NEW S \in SUBSET Seq(Nat), IsFiniteSet(S), S # {}
  PROVE  \E r \in S : \A s \in S : ~SeqLess(r, s)
<1>1. PICK n \in Nat : ExistsSurjection(1..n, S)
  BY FS_NatSurjection
<1>2. PICK f \in [1..n -> S] : \A s \in S : \E i \in 1..n : f[i] = s
  BY <1>1 DEF ExistsSurjection, Surjection
<1> DEFINE T == {k \in 0..n : k = 0 \/ \E r \in S : \A i \in 1..k : ~SeqLess(r, f[i])}
<1>3. 0 \in T
  BY <1>1
<1>4. ASSUME NEW k \in 1..n, k - 1 \in T PROVE k \in T
  <2> SUFFICES \E r \in S : \A i \in 1..k : ~SeqLess(r, f[i])
    <3>1. k \in 0..n
      OBVIOUS
    <3> QED BY <3>1, Zenon
  <2>1. f[k] \in S /\ f[k] \in Seq(Nat)
    BY <1>2
  <2>2. CASE k = 1
    <3>1. \A i \in 1..k : f[i] = f[k]
      BY <2>2
    <3>2. ~SeqLess(f[k], f[k])
      BY <2>1, SeqLessIrreflexive
    <3>3. \A i \in 1..k : ~SeqLess(f[k], f[i])
      BY <3>1, <3>2, Zenon
    <3> QED BY <2>1, <3>3
  <2>3. CASE k # 1
    <3>1. PICK r \in S : \A i \in 1..(k-1) : ~SeqLess(r, f[i])
      BY <1>4, <2>3
    <3>2. CASE SeqLess(r, f[k])
      <4>1. ASSUME NEW i \in 1..k PROVE ~SeqLess(f[k], f[i])
        <5>1. CASE i = k
          BY <2>1, <5>1, SeqLessIrreflexive, Zenon
        <5>2. CASE i # k
          <6>1. f[i] \in Seq(Nat) /\ r \in Seq(Nat) /\ ~SeqLess(r, f[i])
            BY <1>2, <3>1, <5>2
          <6> QED BY <2>1, <3>2, <6>1, SeqLessTransitive
        <5> QED BY <5>1, <5>2
      <4> QED BY <2>1, <4>1
    <3>3. CASE ~SeqLess(r, f[k])
      <4>1. \A i \in 1..k : i = k \/ i \in 1..(k-1)
        OBVIOUS
      <4>2. \A i \in 1..k : ~SeqLess(r, f[i])
        BY <3>1, <3>3, <4>1, Zenon
      <4> QED BY <4>2
    <3> QED BY <3>2, <3>3
  <2> QED BY <2>2, <2>3
<1>5. n \in T
  <2>1. n \in 0..n
    OBVIOUS
  <2> HIDE DEF T
  <2> QED BY <1>3, <1>4, <2>1, IndexInduction
<1>6. n # 0
  BY <1>2
<1>7. PICK r \in S : \A i \in 1..n : ~SeqLess(r, f[i])
  BY <1>5, <1>6
<1> QED BY <1>2, <1>7

-----------------------------------------------------------------------------
(* Cards and how many there are of them.                                   *)

\* A part of a finite set is no larger.
LEMMA PartOf ==
  ASSUME NEW A, IsFiniteSet(A), NEW B \in SUBSET A
  PROVE  /\ IsFiniteSet(B) /\ Cardinality(B) \in Nat /\ Cardinality(A) \in Nat
         /\ Cardinality(B) <= Cardinality(A)
         /\ Cardinality(A) = Cardinality(B) => A = B
BY FS_Subset, FS_CardinalityType

\* A deck is finite, and so is whatever is dealt from it.
LEMMA CardsAre ==
  ASSUME NEW A \in SUBSET Deck
  PROVE  /\ IsFiniteSet(A) /\ Cardinality(A) \in Nat
         /\ \A c \in A : RankOf(c) \in 2..14 /\ SuitOf(c) \in Suits
         /\ \A c, d \in A : RankOf(c) = RankOf(d) /\ SuitOf(c) = SuitOf(d) => c = d
         /\ Ranks(A) \in SUBSET (2..14) /\ IsFiniteSet(Ranks(A))
<1>1. IsFiniteSet(2..14)
  <2> DEFINE low == 2
             high == 14
  <2>1. low \in Int /\ high \in Int
    OBVIOUS
  <2> HIDE DEF low, high
  <2>2. IsFiniteSet(low..high)
    BY <2>1, FS_Interval
  <2> QED BY <2>2 DEF low, high
<1>2. IsFiniteSet((2..14) \X Suits)
  BY <1>1, DeckAssumption, FS_Product
<1>3. A \in SUBSET ((2..14) \X Suits)
  BY DeckAssumption
<1>4. IsFiniteSet(A) /\ Cardinality(A) \in Nat
  BY <1>2, <1>3, PartOf
<1>5. \A c \in A : c[1] \in 2..14 /\ c[2] \in Suits /\ c = <<c[1], c[2]>>
  BY <1>3
<1>6. Ranks(A) \in SUBSET (2..14)
  BY <1>5 DEF Ranks, RankOf
<1>7. IsFiniteSet(Ranks(A))
  BY <1>1, <1>6, PartOf
<1> QED BY <1>4, <1>5, <1>6, <1>7 DEF RankOf, SuitOf

\* There are four cards of a rank at most.
LEMMA CountIs ==
  ASSUME NEW A \in SUBSET Deck, NEW r
  PROVE  /\ Count(A, r) \in 0..4
         /\ r \in Ranks(A) <=> Count(A, r) >= 1
         /\ \A B \in SUBSET A : Count(B, r) \in Nat /\ Count(B, r) <= Count(A, r)
<1> DEFINE Those(B) == {c \in B : RankOf(c) = r}
           suit == [c \in Those(A) |-> SuitOf(c)]
<1>1. IsFiniteSet(A)
  BY CardsAre
<1>2. IsFiniteSet(Those(A)) /\ Cardinality(Those(A)) \in Nat
  <2>1. Those(A) \in SUBSET A
    OBVIOUS
  <2> HIDE DEF Those
  <2> QED BY <1>1, <2>1, PartOf
<1>3. Cardinality(Those(A)) <= 4
  <2>1. suit \in Injection(Those(A), Suits)
    <3>1. suit \in [Those(A) -> Suits]
      BY CardsAre
    <3>2. \A c, d \in Those(A) : suit[c] = suit[d] => c = d
      BY CardsAre
    <3> HIDE DEF suit, Those
    <3> QED BY <3>1, <3>2 DEF Injection, IsInjective
  <2> HIDE DEF suit, Those
  <2>2. Cardinality(Those(A)) <= Cardinality(Suits)
    BY <2>1, DeckAssumption, FS_Injection
  <2>3. Cardinality(Suits) \in Nat
    BY DeckAssumption, FS_CardinalityType
  <2> QED BY <1>2, <2>2, <2>3, DeckAssumption
<1>4. r \in Ranks(A) <=> Those(A) # {}
  BY DEF Ranks
<1>5. Those(A) = {} <=> Cardinality(Those(A)) = 0
  <2> HIDE DEF Those
  <2> QED BY <1>2, FS_EmptySet
<1>6. ASSUME NEW B \in SUBSET A
      PROVE  Cardinality(Those(B)) \in Nat /\ Cardinality(Those(B)) <= Cardinality(Those(A))
  <2>1. Those(B) \in SUBSET Those(A)
    OBVIOUS
  <2> HIDE DEF Those
  <2> QED BY <1>2, <2>1, PartOf
<1>7. \A B : Count(B, r) = Cardinality(Those(B))
  BY DEF Count
<1> HIDE DEF Those
<1> QED BY <1>2, <1>3, <1>4, <1>5, <1>6, <1>7

\* The others are the rest.
LEMMA CountOthers ==
  ASSUME NEW A \in SUBSET Deck, NEW r
  PROVE  /\ {c \in A : RankOf(c) # r} \in SUBSET Deck
         /\ Cardinality({c \in A : RankOf(c) # r}) = Cardinality(A) - Count(A, r)
         /\ \A q : q # r => Count({c \in A : RankOf(c) # r}, q) = Count(A, q)
         /\ Ranks({c \in A : RankOf(c) # r}) = Ranks(A) \ {r}
<1> DEFINE those == {c \in A : RankOf(c) = r}
           others == {c \in A : RankOf(c) # r}
<1>1. others = A \ those /\ A \cap those = those
  OBVIOUS
<1>2. Cardinality(others) = Cardinality(A) - Cardinality(those)
  <2>1. IsFiniteSet(A)
    BY CardsAre
  <2> HIDE DEF those, others
  <2> QED BY <1>1, <2>1, FS_Difference
<1>3. ASSUME NEW q, q # r PROVE {c \in others : RankOf(c) = q} = {c \in A : RankOf(c) = q}
  BY <1>3
<1>4. Ranks(others) = Ranks(A) \ {r}
  BY DEF Ranks
<1> QED BY <1>2, <1>3, <1>4 DEF Count

-----------------------------------------------------------------------------
(* Ranking the members of a set by a number.                               *)

\* Somebody is at place i.
LEMMA PlaceTaken ==
  ASSUME NEW A, IsFiniteSet(A), NEW u \in Nat, NEW f \in [A -> 0..u],
         NEW i \in 1..Cardinality(A)
  PROVE  \E a \in A : /\ Cardinality({b \in A : f[b] > f[a]}) < i
                      /\ i <= Cardinality({b \in A : f[b] >= f[a]})
<1> DEFINE From(n) == {b \in A : f[b] >= n}
           Few == {n \in Nat : Cardinality(From(n)) < i}
<1>1. Cardinality(A) \in Nat /\ \A b \in A : f[b] \in Nat /\ f[b] <= u
  BY FS_CardinalityType
<1>2. \A n \in Nat : Cardinality(From(n)) \in Nat
  <2>1. \A n : From(n) \in SUBSET A
    OBVIOUS
  <2> HIDE DEF From
  <2> QED BY <2>1, PartOf
<1>3. u + 1 \in Few
  <2>1. From(u + 1) = {}
    BY <1>1
  <2>2. u + 1 \in Nat /\ 0 < i
    OBVIOUS
  <2> QED BY <2>1, <2>2, FS_EmptySet
<1>4. PICK m \in Few : \A n \in Few : m <= n
  <2>1. Few \in SUBSET Nat
    OBVIOUS
  <2> HIDE DEF Few
  <2> QED BY <1>3, <2>1, LeastNat
<1>5. m # 0
  <2>1. From(0) = A
    BY <1>1
  <2> QED BY <1>1, <2>1
<1>6. m - 1 \in Nat /\ ~(m <= m - 1)
  BY <1>5
<1>7. i <= Cardinality(From(m - 1))
  <2>1. m - 1 \notin Few
    BY <1>4, <1>6
  <2> HIDE DEF From
  <2> QED BY <1>2, <1>6, <2>1
<1>8. PICK a \in A : f[a] >= m - 1 /\ ~(f[a] >= m)
  <2>1. From(m - 1) # From(m)
    <3> HIDE DEF From
    <3> QED BY <1>2, <1>6, <1>7
  <2>2. From(m) \subseteq From(m - 1)
    BY <1>1, <1>6
  <2> QED BY <2>1, <2>2
<1>9. f[a] = m - 1
  BY <1>1, <1>6, <1>8
<1>10. {b \in A : f[b] > f[a]} = From(m)
  BY <1>1, <1>6, <1>9
<1>11. {b \in A : f[b] >= f[a]} = From(m - 1)
  BY <1>9
<1> HIDE DEF From
<1> QED BY <1>7, <1>10, <1>11

\* How many cards are above a rank, and how many at least it.
Above(A, r) == Cardinality({c \in A : RankOf(c) > r})
AtLeast(A, r) == Cardinality({c \in A : RankOf(c) >= r})

\* Both in one: of two sets and two ranks.
LEMMA AboveAtLeast ==
  ASSUME NEW A \in SUBSET Deck, NEW B \in SUBSET A, NEW r \in Int, NEW q \in Int
  PROVE  /\ Above(A, r) \in Nat /\ AtLeast(A, r) \in Nat
         /\ Above(B, r) <= Above(A, r) /\ AtLeast(B, r) <= AtLeast(A, r)
         /\ r < q => AtLeast(B, q) <= Above(A, r)
         /\ AtLeast(A, r) = Above(A, r) + Count(A, r)
<1> DEFINE above == {c \in A : RankOf(c) > r}
           least == {c \in A : RankOf(c) >= r}
           at == {c \in A : RankOf(c) = r}
<1>1. \A c \in A : RankOf(c) \in Int
  BY CardsAre
<1>2. /\ above \in SUBSET A /\ least \in SUBSET A /\ at \in SUBSET A
      /\ {c \in B : RankOf(c) > r} \in SUBSET above
      /\ {c \in B : RankOf(c) >= r} \in SUBSET least
      /\ r < q => {c \in B : RankOf(c) >= q} \in SUBSET above
  BY <1>1
<1>3. least = above \cup at /\ above \cap at = {}
  BY <1>1
<1>4. IsFiniteSet(A)
  BY CardsAre
<1> HIDE DEF above, least, at
<1>5. IsFiniteSet(above) /\ IsFiniteSet(least) /\ IsFiniteSet(at)
  BY <1>2, <1>4, PartOf
<1>6. /\ Cardinality(above) \in Nat /\ Cardinality(least) \in Nat /\ Cardinality(at) \in Nat
      /\ Cardinality({c \in B : RankOf(c) > r}) <= Cardinality(above)
      /\ Cardinality({c \in B : RankOf(c) >= r}) <= Cardinality(least)
      /\ r < q => Cardinality({c \in B : RankOf(c) >= q}) <= Cardinality(above)
  BY <1>2, <1>5, PartOf
<1>7. Cardinality(least) = Cardinality(above) + Cardinality(at)
  BY <1>3, <1>5, <1>6, FS_Union, FS_EmptySet
<1> QED BY <1>6, <1>7 DEF Above, AtLeast, Count, above, least, at

-----------------------------------------------------------------------------
(* Cards in descending order.                                              *)

\* Descending has a rank at every place.
LEMMA DescendingIs ==
  ASSUME NEW A \in SUBSET Deck
  PROVE  /\ Descending(A) \in [1..Cardinality(A) -> Ranks(A)]
         /\ Descending(A) \in Seq(Nat) /\ Len(Descending(A)) = Cardinality(A)
         /\ \A i \in 1..Cardinality(A) :
              /\ Above(A, Descending(A)[i]) < i /\ i <= AtLeast(A, Descending(A)[i])
              /\ Descending(A)[i] \in 2..14
<1> DEFINE n == Cardinality(A)
           Fits(i, r) == /\ Cardinality({c \in A : RankOf(c) > r}) < i
                         /\ Cardinality({c \in A : RankOf(c) >= r}) >= i
<1>1. n \in Nat /\ IsFiniteSet(A) /\ Ranks(A) \in SUBSET (2..14)
  BY CardsAre
<1>2. Descending(A) = [i \in 1..n |-> CHOOSE r \in Ranks(A) : Fits(i, r)]
  BY DEF Descending
<1>3. ASSUME NEW i \in 1..n PROVE \E r \in Ranks(A) : Fits(i, r)
  <2> DEFINE u == 14
             f == [c \in A |-> RankOf(c)]
  <2>1. u \in Nat /\ f \in [A -> 0..u]
    BY CardsAre
  <2>2. \A c \in A : f[c] = RankOf(c) /\ RankOf(c) \in Ranks(A)
    BY DEF Ranks
  <2> HIDE DEF u, f
  <2>3. PICK a \in A : /\ Cardinality({b \in A : f[b] > f[a]}) < i
                       /\ i <= Cardinality({b \in A : f[b] >= f[a]})
    BY ZenonT(30), <1>1, <2>1, PlaceTaken
  <2>4. /\ {b \in A : f[b] > f[a]} = {b \in A : RankOf(b) > RankOf(a)}
        /\ {b \in A : f[b] >= f[a]} = {b \in A : RankOf(b) >= RankOf(a)}
    BY <2>2
  <2>5. Fits(i, RankOf(a))
    <3>1. Cardinality({b \in A : f[b] >= f[a]}) \in Nat
      <4>1. {b \in A : f[b] >= f[a]} \in SUBSET A
        OBVIOUS
      <4> QED BY <1>1, <4>1, PartOf
    <3> QED BY <2>3, <2>4, <3>1
  <2> QED BY <2>2, <2>5
<1> HIDE DEF Fits
<1>4. \A i \in 1..n : Descending(A)[i] \in Ranks(A) /\ Fits(i, Descending(A)[i])
  BY <1>2, <1>3
<1>5. Descending(A) \in [1..n -> Ranks(A)]
  BY <1>2, <1>4
<1>6. ASSUME NEW i \in 1..n
      PROVE  /\ Above(A, Descending(A)[i]) < i /\ i <= AtLeast(A, Descending(A)[i])
             /\ Descending(A)[i] \in 2..14
  <2>1. Descending(A)[i] \in 2..14 /\ Descending(A)[i] \in Int
    BY <1>1, <1>4
  <2>2. AtLeast(A, Descending(A)[i]) \in Nat
    BY <2>1, AboveAtLeast
  <2> QED BY <1>4, <2>1, <2>2 DEF Fits, Above, AtLeast
<1>7. Descending(A) \in Seq(Nat) /\ Len(Descending(A)) = n
  <2>1. Ranks(A) \in SUBSET Nat
    BY <1>1
  <2>2. Descending(A) \in [1..n -> Nat]
    BY <1>5, <2>1
  <2> HIDE DEF n
  <2> QED BY <1>1, <2>2
<1> QED BY <1>5, <1>6, <1>7

\* Only one rank fits a place.
LEMMA DescendingOnly ==
  ASSUME NEW A \in SUBSET Deck, NEW i \in 1..Cardinality(A), NEW r \in Int,
         Above(A, r) < i, i <= AtLeast(A, r)
  PROVE  Descending(A)[i] = r
<1> DEFINE q == Descending(A)[i]
<1>1. q \in Int /\ Above(A, q) < i /\ i <= AtLeast(A, q)
  BY DescendingIs
<1> HIDE DEF q
<1>2. Cardinality(A) \in Nat
  BY CardsAre
<1>3. ~(q < r)
  BY <1>1, <1>2, AboveAtLeast
<1>4. ~(r < q)
  BY <1>1, <1>2, AboveAtLeast
<1> QED BY <1>1, <1>3, <1>4 DEF q

\* Ranks descend, and more cards make none of them lower.
LEMMA DescendingOrder ==
  ASSUME NEW A \in SUBSET Deck, NEW B \in SUBSET A
  PROVE  /\ \A i, j \in 1..Cardinality(A) : i <= j => Descending(A)[j] <= Descending(A)[i]
         /\ \A i \in 1..Cardinality(B) : Descending(B)[i] <= Descending(A)[i]
<1>1. Cardinality(A) \in Nat /\ Cardinality(B) \in Nat /\ Cardinality(B) <= Cardinality(A)
  BY CardsAre, PartOf
<1>2. ASSUME NEW i \in 1..Cardinality(A), NEW j \in 1..Cardinality(A), i <= j
      PROVE  Descending(A)[j] <= Descending(A)[i]
  <2> DEFINE r == Descending(A)[i]
             q == Descending(A)[j]
  <2>1. r \in Int /\ q \in Int /\ Above(A, r) < i /\ j <= AtLeast(A, q)
    BY DescendingIs
  <2> HIDE DEF r, q
  <2>2. ~(r < q)
    BY <1>1, <1>2, <2>1, AboveAtLeast
  <2> QED BY <2>1, <2>2 DEF r, q
<1>3. ASSUME NEW i \in 1..Cardinality(B)
      PROVE  Descending(B)[i] <= Descending(A)[i]
  <2> DEFINE r == Descending(A)[i]
             q == Descending(B)[i]
  <2>0. i \in 1..Cardinality(A) /\ B \in SUBSET Deck
    BY <1>1
  <2>1. r \in Int /\ q \in Int /\ Above(A, r) < i /\ i <= AtLeast(B, q)
    BY <2>0, DescendingIs
  <2> HIDE DEF r, q
  <2>2. AtLeast(B, q) \in Nat /\ Above(A, r) \in Nat
    BY <2>0, <2>1, AboveAtLeast
  <2>3. r < q => AtLeast(B, q) <= Above(A, r)
    BY <2>1, AboveAtLeast
  <2>4. ~(r < q)
    BY <1>1, <2>1, <2>2, <2>3
  <2> QED BY <2>1, <2>4 DEF r, q
<1> QED BY <1>2, <1>3

-----------------------------------------------------------------------------
(* The highest cards of a set.                                             *)

\* K is the n highest cards of A.
Top(A, n, K) ==
  /\ K \in SUBSET A /\ Cardinality(K) = n
  /\ \A c \in K, d \in A \ K : RankOf(d) <= RankOf(c)

\* There are n highest cards in every hand of at least n.
LEMMA TopExists ==
  ASSUME NEW A \in SUBSET Deck, NEW n \in 0..Cardinality(A)
  PROVE  \E K : Top(A, n, K)
<1> DEFINE T == {k \in 0..n : \E K : Top(A, k, K)}
<1>1. IsFiniteSet(A) /\ Cardinality(A) \in Nat /\ n \in Nat
  BY CardsAre
<1>2. 0 \in T
  <2>1. Top(A, 0, {})
    BY FS_EmptySet DEF Top
  <2> QED BY <1>1, <2>1
<1>3. ASSUME NEW k \in 1..n, k - 1 \in T PROVE k \in T
  <2>1. PICK K : Top(A, k - 1, K)
    BY <1>3
  <2>2. /\ K \in SUBSET A /\ IsFiniteSet(K) /\ Cardinality(K) = k - 1
        /\ \A c \in K, d \in A \ K : RankOf(d) <= RankOf(c)
    BY <1>1, <2>1, PartOf DEF Top
  <2> DEFINE ranks == {RankOf(c) : c \in A \ K}
  <2>3. ranks \in SUBSET Nat /\ \A r \in ranks : r <= 14
    BY CardsAre
  <2>4. ranks # {}
    <3>1. Cardinality(K) # Cardinality(A)
      BY <1>1, <2>2
    <3> QED BY <2>2, <3>1
  <2>5. Max(ranks) \in ranks /\ \A r \in ranks : r <= Max(ranks)
    <3> DEFINE u == 14
    <3>1. u \in Nat /\ \A r \in ranks : r <= u
      BY <2>3
    <3> HIDE DEF ranks, u
    <3> QED BY <2>3, <2>4, <3>1, MaxNat
  <2>6. PICK c \in A \ K : \A d \in A \ K : RankOf(d) <= RankOf(c)
    <3> DEFINE m == Max(ranks)
    <3> HIDE DEF m
    <3>1. m \in ranks /\ \A r \in ranks : r <= m
      BY <2>5 DEF m
    <3> QED BY <3>1
  <2>7. Cardinality(K \cup {c}) = k /\ K \cup {c} \in SUBSET A
    <3>1. Cardinality(K \cup {c}) = Cardinality(K) + 1
      BY <2>2, <2>6, FS_AddElement
    <3> QED BY <2>2, <3>1
  <2>8. \A d \in K \cup {c}, e \in A \ (K \cup {c}) : RankOf(e) <= RankOf(d)
    BY <2>2, <2>6
  <2>9. Top(A, k, K \cup {c})
    BY <2>7, <2>8 DEF Top
  <2> QED BY <2>9
<1>4. n \in T
  <2>1. n \in 0..n
    BY <1>1
  <2> HIDE DEF T
  <2> QED BY <1>1, <1>2, <1>3, <2>1, IndexInduction
<1> QED BY <1>4

\* They are the first of the descending ranks.
LEMMA TopDescends ==
  ASSUME NEW A \in SUBSET Deck, NEW n \in 0..Cardinality(A), NEW K, Top(A, n, K)
  PROVE  /\ K \in SUBSET Deck
         /\ \A i \in 1..n : Descending(K)[i] = Descending(A)[i]
         /\ Descending(K) = SubSeq(Descending(A), 1, n)
<1>1. /\ K \in SUBSET A /\ K \in SUBSET Deck /\ Cardinality(K) = n
      /\ \A c \in K, d \in A \ K : RankOf(d) <= RankOf(c)
      /\ IsFiniteSet(A) /\ Cardinality(A) \in Nat /\ n \in Nat /\ n <= Cardinality(A)
  BY CardsAre DEF Top
<1>2. ASSUME NEW i \in 1..n PROVE Descending(K)[i] = Descending(A)[i]
  <2> DEFINE r == Descending(A)[i]
  <2>1. r \in Int /\ Above(A, r) < i /\ i <= AtLeast(A, r)
    <3>1. i \in 1..Cardinality(A)
      BY <1>1
    <3> QED BY <3>1, DescendingIs
  <2> HIDE DEF r
  <2>2. /\ Above(K, r) \in Nat /\ Above(A, r) \in Nat /\ Above(K, r) <= Above(A, r)
        /\ AtLeast(A, r) \in Nat
    BY <1>1, <2>1, AboveAtLeast
  <2>3. i <= AtLeast(K, r)
    <3>1. CASE \A c \in K : RankOf(c) >= r
      <4>1. {c \in K : RankOf(c) >= r} = K
        BY <3>1
      <4> QED BY <1>1, <4>1 DEF AtLeast
    <3>2. CASE \E c \in K : ~(RankOf(c) >= r)
      <4>1. PICK c \in K : ~(RankOf(c) >= r)
        BY <3>2
      <4>2. ASSUME NEW d \in A, RankOf(d) >= r PROVE d \in K
        <5>1. RankOf(d) \in Int /\ RankOf(c) \in Int
          BY <1>1, CardsAre
        <5>2. ~(RankOf(d) <= RankOf(c))
          BY <2>1, <4>1, <4>2, <5>1
        <5> QED BY <1>1, <5>2
      <4>3. {d \in A : RankOf(d) >= r} = {d \in K : RankOf(d) >= r}
        BY <1>1, <4>2
      <4> QED BY <2>1, <4>3 DEF AtLeast
    <3> QED BY <3>1, <3>2
  <2>4. i \in 1..Cardinality(K) /\ Above(K, r) < i
    BY <1>1, <2>1, <2>2
  <2>5. Descending(K)[i] = r
    BY <1>1, <2>1, <2>3, <2>4, DescendingOnly
  <2> QED BY <2>5 DEF r
<1>3. Descending(K) = SubSeq(Descending(A), 1, n)
  <2> DEFINE a == Descending(A)
             k == Descending(K)
  <2>1. a \in Seq(Nat) /\ Len(a) = Cardinality(A) /\ k \in Seq(Nat) /\ Len(k) = n
    BY <1>1, DescendingIs
  <2>2. \A i \in 1..n : k[i] = a[i]
    BY <1>2
  <2> HIDE DEF a, k
  <2>3. SubSeq(a, 1, n) = [i \in 1..n |-> a[i]]
    BY <1>1, <2>1
  <2>4. k = [i \in 1..n |-> k[i]]
    BY <2>1
  <2>5. k = SubSeq(a, 1, n)
    BY <2>2, <2>3, <2>4
  <2> QED BY <2>5 DEF a, k
<1> QED BY <1>1, <1>2, <1>3

\* The cards of none of these ranks.
Rest(A, ranks) == {c \in A : RankOf(c) \notin ranks}

\* Kickers are the ranks of such cards.
LEMMA KickersAre ==
  ASSUME NEW A \in SUBSET Deck, NEW ranks, NEW n \in Nat,
         n <= Cardinality(Rest(A, ranks))
  PROVE  \E K : /\ Top(Rest(A, ranks), n, K)
                /\ K \in SUBSET A /\ K \in SUBSET Deck /\ Cardinality(K) = n
                /\ Kickers(A, ranks, n) = Descending(K)
<1> DEFINE rest == Rest(A, ranks)
           m == Min({n, Cardinality(rest)})
<1>1. rest \in SUBSET Deck /\ rest \in SUBSET A /\ n <= Cardinality(rest)
  BY DEF Rest
<1>2. Kickers(A, ranks, n) = SubSeq(Descending(rest), 1, m)
  BY DEF Kickers, Rest
<1> HIDE DEF rest
<1>3. Cardinality(rest) \in Nat /\ n \in 0..Cardinality(rest)
  BY <1>1, CardsAre
<1>4. m = n
  <2>1. n \in Int /\ Cardinality(rest) \in Int
    BY <1>3
  <2>2. m <= n /\ m <= Cardinality(rest) /\ (m = n \/ m = Cardinality(rest))
    BY <2>1, MinPair, Zenon
  <2> QED BY <1>1, <1>3, <2>2
<1> HIDE DEF m
<1>5. PICK K : Top(rest, n, K)
  BY <1>1, <1>3, TopExists
<1>6. Descending(K) = SubSeq(Descending(rest), 1, n)
  BY <1>1, <1>3, <1>5, TopDescends
<1> QED BY <1>1, <1>2, <1>4, <1>5, <1>6 DEF Top, rest

\* .max().unwrap_or(0)
LEMMA HighestIs ==
  ASSUME NEW S \in SUBSET (2..14)
  PROVE  /\ Highest(S) \in Nat /\ \A x \in S : x <= Highest(S)
         /\ S # {} => Highest(S) \in S
<1> DEFINE T == {0} \cup S
           u == 14
<1>1. T \in SUBSET Nat /\ T # {} /\ u \in Nat /\ \A x \in T : x <= u
  OBVIOUS
<1>2. Highest(S) = Max(T)
  BY DEF Highest
<1>3. S \subseteq T /\ \A x \in T : x = 0 \/ x \in S
  OBVIOUS
<1> HIDE DEF T, u
<1>4. Max(T) \in T /\ \A x \in T : x <= Max(T)
  BY <1>1, MaxNat
<1>5. ASSUME NEW x \in S PROVE Max(T) \in S
  <2> DEFINE m == Max(T)
  <2>1. m \in T /\ \A y \in T : y <= m
    BY <1>4
  <2> HIDE DEF m
  <2>2. m \in S
    <3>1. x \in T /\ x \in 2..14
      BY <1>3
    <3>2. x <= m /\ (m = 0 \/ m \in S)
      BY <1>3, <2>1, <3>1
    <3> QED BY <3>1, <3>2
  <2> QED BY <2>2 DEF m
<1> QED BY <1>1, <1>2, <1>3, <1>4, <1>5

\* Max and Min of ranks.
LEMMA MaxRank ==
  ASSUME NEW S \in SUBSET (2..14), S # {}
  PROVE  Max(S) \in S /\ \A x \in S : x <= Max(S)
<1> DEFINE u == 14
<1>1. S \in SUBSET Nat /\ u \in Nat /\ \A x \in S : x <= u
  OBVIOUS
<1> HIDE DEF u
<1> QED BY <1>1, MaxNat

-----------------------------------------------------------------------------
(* Ranks by how often they occur.                                          *)

\* A heavier rank occurs more often, or as often and is higher.
LEMMA WeightIs ==
  ASSUME NEW F \in SUBSET Deck, NEW r \in Ranks(F), NEW q \in Ranks(F)
  PROVE  /\ Weight(F, r) \in 0..100
         /\ Weight(F, q) < Weight(F, r) <=>
              \/ Count(F, q) < Count(F, r)
              \/ Count(F, q) = Count(F, r) /\ q < r
         /\ Weight(F, r) = Weight(F, q) => r = q
<1>1. r \in 2..14 /\ q \in 2..14 /\ Count(F, r) \in 0..4 /\ Count(F, q) \in 0..4
  BY CardsAre, CountIs
<1> QED BY <1>1 DEF Weight

\* The groups list every rank once, by falling weight.
LEMMA GroupsAre ==
  ASSUME NEW F \in SUBSET Deck
  PROVE  LET n == Cardinality(Ranks(F))
         IN  /\ n \in Nat /\ Groups(F) \in [1..n -> Ranks(F)]
             /\ Groups(F) \in Seq(Nat) /\ Len(Groups(F)) = n
             /\ \A i, j \in 1..n : i < j => Weight(F, Groups(F)[j]) < Weight(F, Groups(F)[i])
             /\ \A r \in Ranks(F) : \E i \in 1..n : Groups(F)[i] = r
             /\ \A i \in 1..n : Cardinality({q \in Ranks(F) :
                                   Weight(F, q) > Weight(F, Groups(F)[i])}) = i - 1
<1> DEFINE R == Ranks(F)
           n == Cardinality(R)
           Heavier(r) == {q \in R : Weight(F, q) > Weight(F, r)}
           G == Groups(F)
<1>1. IsFiniteSet(R) /\ R \in SUBSET (2..14) /\ n \in Nat
  BY CardsAre, FS_CardinalityType
<1>2. G = [i \in 1..n |-> CHOOSE r \in R : Cardinality(Heavier(r)) = i - 1]
  BY DEF Groups
<1>3. ASSUME NEW i \in 1..n PROVE \E r \in R : Cardinality(Heavier(r)) = i - 1
  <2> DEFINE u == 100
             f == [r \in R |-> Weight(F, r)]
  <2>1. u \in Nat /\ f \in [R -> 0..u]
    BY WeightIs
  <2>2. \A r \in R : f[r] = Weight(F, r)
    OBVIOUS
  <2>3. \A r, q \in R : f[r] = f[q] => r = q
    BY WeightIs
  <2> HIDE DEF u, f, R
  <2>4. PICK a \in R : /\ Cardinality({b \in R : f[b] > f[a]}) < i
                       /\ i <= Cardinality({b \in R : f[b] >= f[a]})
    BY ZenonT(30), <1>1, <2>1, PlaceTaken
  <2> DEFINE above == {b \in R : f[b] > f[a]}
  <2>5. {b \in R : f[b] >= f[a]} = above \cup {a} /\ a \notin above /\ above \in SUBSET R
    <3>1. \A b \in R : f[b] \in Int
      BY <2>1
    <3> QED BY <2>3, <3>1
  <2>6. above = Heavier(a)
    BY <2>2
  <2> HIDE DEF above
  <2>7. IsFiniteSet(above) /\ Cardinality(above) \in Nat
    BY <1>1, <2>5, PartOf
  <2>8. Cardinality(above \cup {a}) = Cardinality(above) + 1
    BY <2>5, <2>7, FS_AddElement
  <2>9. Cardinality(above) = i - 1
    BY <2>4, <2>5, <2>7, <2>8 DEF above
  <2> QED BY <2>6, <2>9
<1>4. \A i \in 1..n : G[i] \in R /\ Cardinality(Heavier(G[i])) = i - 1
  <2> HIDE DEF R, n, G
  <2> QED BY <1>2, <1>3
<1>5. G \in [1..n -> R]
  BY <1>2, <1>4
<1>6. ASSUME NEW i \in 1..n, NEW j \in 1..n, i < j
      PROVE  Weight(F, G[j]) < Weight(F, G[i])
  <2>1. G[i] \in R /\ G[j] \in R
    BY <1>4
  <2>2. Weight(F, G[i]) \in Int /\ Weight(F, G[j]) \in Int
    BY <2>1, WeightIs
  <2>3. SUFFICES ASSUME Weight(F, G[j]) >= Weight(F, G[i]) PROVE FALSE
    BY <2>2
  <2>4. Heavier(G[j]) \in SUBSET Heavier(G[i])
    <3>1. ASSUME NEW q \in R, Weight(F, q) > Weight(F, G[j])
          PROVE  Weight(F, q) > Weight(F, G[i])
      <4>1. Weight(F, q) \in Int
        BY WeightIs
      <4> QED BY <2>2, <2>3, <3>1, <4>1
    <3> QED BY <3>1
  <2>5. IsFiniteSet(Heavier(G[i]))
    <3>1. Heavier(G[i]) \in SUBSET R
      OBVIOUS
    <3> HIDE DEF Heavier, R
    <3> QED BY <1>1, <3>1, PartOf
  <2> HIDE DEF Heavier
  <2>6. Cardinality(Heavier(G[j])) <= Cardinality(Heavier(G[i]))
    BY <2>4, <2>5, PartOf
  <2> QED BY <1>4, <1>6, <2>6
<1>7. ASSUME NEW r \in R PROVE \E i \in 1..n : G[i] = r
  <2> DEFINE one == 1
  <2>1. G \in Injection(1..n, R)
    <3>1. ASSUME NEW i \in 1..n, NEW j \in 1..n, G[i] = G[j] PROVE i = j
      <4>1. Weight(F, G[i]) \in Int
        <5>1. \A q \in R : Weight(F, q) \in Int
          BY WeightIs
        <5> HIDE DEF G, R, n
        <5> QED BY <1>4, <5>1
      <4>2. ~(Weight(F, G[i]) < Weight(F, G[i]))
        BY <4>1
      <4>3. ~(i < j) /\ ~(j < i)
        BY <1>6, <3>1, <4>2
      <4> QED BY <4>3
    <3> HIDE DEF G, R, n
    <3> QED BY <1>5, <3>1 DEF Injection, IsInjective
  <2>2. Cardinality(1..n) = n
    <3> HIDE DEF n
    <3>1. one \in Int /\ n \in Int
      BY <1>1
    <3> HIDE DEF one
    <3>2. Cardinality(one..n) = IF one > n THEN 0 ELSE n - one + 1
      BY <3>1, FS_Interval
    <3> QED BY <1>1, <3>2 DEF one
  <2> HIDE DEF G, R
  <2>3. G \in Surjection(1..n, R)
    BY <1>1, <2>1, <2>2, FS_Injection
  <2> QED BY <2>3 DEF Surjection
<1>8. G \in Seq(Nat) /\ Len(G) = n
  <2>1. R \in SUBSET Nat
    BY <1>1
  <2>2. G \in [1..n -> Nat]
    BY <1>5, <2>1
  <2> HIDE DEF n, G
  <2> QED BY <1>1, <2>2
<1> QED BY <1>1, <1>4, <1>5, <1>6, <1>7, <1>8

-----------------------------------------------------------------------------
(* The shapes of five cards.                                               *)

Times(F, i) == Count(F, Groups(F)[i])

\* Along the groups a rank occurs no more often than the one before it, and of two
\* that occur equally often the higher is first.
LEMMA TimesFall ==
  ASSUME NEW F \in SUBSET Deck
  PROVE  LET n == Cardinality(Ranks(F))
         IN  /\ \A i \in 1..n : Times(F, i) \in 1..4 /\ Groups(F)[i] \in 2..14
             /\ \A i, j \in 1..n : i < j =>
                  /\ Times(F, j) <= Times(F, i)
                  /\ Times(F, j) = Times(F, i) => Groups(F)[j] < Groups(F)[i]
                  /\ Groups(F)[i] # Groups(F)[j]
<1> DEFINE n == Cardinality(Ranks(F))
           G == Groups(F)
<1>1. \A i \in 1..n : G[i] \in Ranks(F)
  BY GroupsAre
<1>2. \A i, j \in 1..n : i < j => Weight(F, G[j]) < Weight(F, G[i])
  BY GroupsAre
<1> HIDE DEF n, G
<1>3. \A i \in 1..n : Count(F, G[i]) \in 1..4 /\ G[i] \in 2..14
  <2>1. \A r \in Ranks(F) : Count(F, r) \in 1..4 /\ r \in 2..14
    BY CountIs, CardsAre
  <2> QED BY <1>1, <2>1
<1>4. ASSUME NEW i \in 1..n, NEW j \in 1..n, i < j
      PROVE  /\ Count(F, G[j]) <= Count(F, G[i])
             /\ Count(F, G[j]) = Count(F, G[i]) => G[j] < G[i]
             /\ G[i] # G[j]
  <2>1. \/ Count(F, G[j]) < Count(F, G[i])
        \/ Count(F, G[j]) = Count(F, G[i]) /\ G[j] < G[i]
    BY <1>1, <1>2, <1>4, WeightIs
  <2>2. G[i] # G[j]
    BY <1>3, <2>1
  <2> QED BY <1>3, <2>1, <2>2
<1> QED BY <1>3, <1>4 DEF Times, n, G

\* F without the cards of a rank.
Others(F, r) == {c \in F : RankOf(c) # r}

\* Five cards are counted by their ranks.
LEMMA TimesSum ==
  ASSUME NEW F \in SUBSET Deck, Cardinality(F) = 5
  PROVE  LET n == Cardinality(Ranks(F))
         IN  \/ n = 2 /\ Times(F, 1) + Times(F, 2) = 5
             \/ n = 3 /\ Times(F, 1) + Times(F, 2) + Times(F, 3) = 5
             \/ n = 4 /\ Times(F, 1) + Times(F, 2) + Times(F, 3) + Times(F, 4) = 5
             \/ n = 5 /\ \A i \in 1..5 : Times(F, i) = 1
<1> DEFINE n == Cardinality(Ranks(F))
           G == Groups(F)
           F1 == Others(F, G[1])
           F2 == Others(F1, G[2])
           F3 == Others(F2, G[3])
           F4 == Others(F3, G[4])
           F5 == Others(F4, G[5])
           t == [i \in 1..n |-> Times(F, i)]
<1>1. /\ n \in Nat /\ \A i \in 1..n : G[i] \in Ranks(F)
      /\ \A i, j \in 1..n : i < j => G[i] # G[j]
      /\ \A r \in Ranks(F) : \E i \in 1..n : G[i] = r
      /\ \A i \in 1..n : t[i] \in 1..4 /\ t[i] = Count(F, G[i])
  <2>1. /\ n \in Nat /\ Groups(F) \in [1..n -> Ranks(F)]
        /\ \A r \in Ranks(F) : \E i \in 1..n : Groups(F)[i] = r
    BY GroupsAre
  <2>2. /\ \A i \in 1..n : Times(F, i) \in 1..4
        /\ \A i, j \in 1..n : i < j => Groups(F)[i] # Groups(F)[j]
    BY TimesFall
  <2> QED BY <2>1, <2>2 DEF Times
<1>2. ASSUME NEW A \in SUBSET Deck, NEW r
      PROVE  /\ Others(A, r) \in SUBSET Deck
             /\ Cardinality(Others(A, r)) = Cardinality(A) - Count(A, r)
             /\ \A q : q # r => Count(Others(A, r), q) = Count(A, q)
             /\ Ranks(Others(A, r)) = Ranks(A) \ {r}
  BY CountOthers DEF Others
<1>3. ASSUME NEW A \in SUBSET Deck
      PROVE  /\ Cardinality(A) \in Nat
             /\ Ranks(A) = {} => Cardinality(A) = 0
             /\ Cardinality(A) <= 0 => Ranks(A) = {}
  <2>1. Ranks(A) = {} <=> A = {}
    BY DEF Ranks
  <2> QED BY <2>1, CardsAre, FS_EmptySet
<1> HIDE DEF G, n, t
<1>4. F1 \in SUBSET Deck /\ F2 \in SUBSET Deck /\ F3 \in SUBSET Deck
      /\ F4 \in SUBSET Deck /\ F5 \in SUBSET Deck
  BY <1>2
<1>5. /\ Ranks(F1) = Ranks(F) \ {G[1]} /\ Ranks(F2) = Ranks(F) \ {G[1], G[2]}
      /\ Ranks(F3) = Ranks(F) \ {G[1], G[2], G[3]}
      /\ Ranks(F4) = Ranks(F) \ {G[1], G[2], G[3], G[4]}
      /\ Ranks(F5) = Ranks(F) \ {G[1], G[2], G[3], G[4], G[5]}
  <2>1. /\ Ranks(F1) = Ranks(F) \ {G[1]} /\ Ranks(F2) = Ranks(F1) \ {G[2]}
        /\ Ranks(F3) = Ranks(F2) \ {G[3]} /\ Ranks(F4) = Ranks(F3) \ {G[4]}
        /\ Ranks(F5) = Ranks(F4) \ {G[5]}
    BY <1>2, <1>4
  <2> HIDE DEF F1, F2, F3, F4, F5
  <2> QED BY <2>1
<1>6. /\ n >= 1 => Cardinality(F1) = 5 - t[1]
      /\ n >= 2 => Cardinality(F2) = 5 - t[1] - t[2]
      /\ n >= 3 => Cardinality(F3) = 5 - t[1] - t[2] - t[3]
      /\ n >= 4 => Cardinality(F4) = 5 - t[1] - t[2] - t[3] - t[4]
      /\ n >= 5 => Cardinality(F5) = 5 - t[1] - t[2] - t[3] - t[4] - t[5]
  <2>1. /\ Cardinality(F1) = 5 - Count(F, G[1])
        /\ Cardinality(F2) = Cardinality(F1) - Count(F1, G[2])
        /\ Cardinality(F3) = Cardinality(F2) - Count(F2, G[3])
        /\ Cardinality(F4) = Cardinality(F3) - Count(F3, G[4])
        /\ Cardinality(F5) = Cardinality(F4) - Count(F4, G[5])
    BY <1>2, <1>4
  <2>2. /\ \A q : q # G[1] => Count(F1, q) = Count(F, q)
        /\ \A q : q # G[2] => Count(F2, q) = Count(F1, q)
        /\ \A q : q # G[3] => Count(F3, q) = Count(F2, q)
        /\ \A q : q # G[4] => Count(F4, q) = Count(F3, q)
    BY <1>2, <1>4
  <2> HIDE DEF F1, F2, F3, F4, F5
  <2>3. /\ n >= 1 => t[1] = Count(F, G[1])
        /\ n >= 2 => t[2] = Count(F1, G[2])
        /\ n >= 3 => t[3] = Count(F2, G[3])
        /\ n >= 4 => t[4] = Count(F3, G[4])
        /\ n >= 5 => t[5] = Count(F4, G[5])
    <3>1. n >= 1 => t[1] = Count(F, G[1])
      BY <1>1
    <3>2. n >= 2 => t[2] = Count(F1, G[2])
      BY <1>1, <2>2
    <3>3. n >= 3 => t[3] = Count(F2, G[3])
      BY <1>1, <2>2
    <3>4. n >= 4 => t[4] = Count(F3, G[4])
      BY <1>1, <2>2
    <3>5. n >= 5 => t[5] = Count(F4, G[5])
      BY <1>1, <2>2
    <3> QED BY <3>1, <3>2, <3>3, <3>4, <3>5
  <2>4. /\ n >= 1 => t[1] \in Int
        /\ n >= 2 => t[2] \in Int
        /\ n >= 3 => t[3] \in Int
        /\ n >= 4 => t[4] \in Int
        /\ n >= 5 => t[5] \in Int
    BY <1>1
  <2> QED BY <1>1, <2>1, <2>3, <2>4
<1> HIDE DEF F1, F2, F3, F4, F5
<1>7. Cardinality(F) = 5 /\ F \in SUBSET Deck
  OBVIOUS
<1>8. n # 0
  <2>1. n = 0 => Ranks(F) = {}
    BY <1>1
  <2> QED BY <1>3, <1>7, <2>1
<1>9. n # 1
  <2>1. n = 1 => Ranks(F1) = {}
    BY <1>1, <1>5
  <2>2. n = 1 => 5 - t[1] = 0 /\ t[1] \in 1..4
    BY <1>1, <1>3, <1>4, <1>6, <2>1
  <2> QED BY <2>2
<1>10. n = 2 => t[1] + t[2] = 5
  <2>1. n = 2 => Ranks(F2) = {}
    BY <1>1, <1>5
  <2>2. n = 2 => 5 - t[1] - t[2] = 0 /\ t[1] \in 1..4 /\ t[2] \in 1..4
    BY <1>1, <1>3, <1>4, <1>6, <2>1
  <2> QED BY <2>2
<1>11. n = 3 => t[1] + t[2] + t[3] = 5
  <2>1. n = 3 => Ranks(F3) = {}
    BY <1>1, <1>5
  <2>2. n = 3 => 5 - t[1] - t[2] - t[3] = 0
                 /\ t[1] \in 1..4 /\ t[2] \in 1..4 /\ t[3] \in 1..4
    BY <1>1, <1>3, <1>4, <1>6, <2>1
  <2> QED BY <2>2
<1>12. n = 4 => t[1] + t[2] + t[3] + t[4] = 5
  <2>1. n = 4 => Ranks(F4) = {}
    BY <1>1, <1>5
  <2>2. n = 4 => 5 - t[1] - t[2] - t[3] - t[4] = 0
                 /\ t[1] \in 1..4 /\ t[2] \in 1..4 /\ t[3] \in 1..4 /\ t[4] \in 1..4
    BY <1>1, <1>3, <1>4, <1>6, <2>1
  <2> QED BY <2>2
<1>13. n >= 5 => /\ t[1] = 1 /\ t[2] = 1 /\ t[3] = 1 /\ t[4] = 1 /\ t[5] = 1
                 /\ Cardinality(F5) = 0
  <2>1. Cardinality(F5) \in Nat
    BY <1>3, <1>4
  <2>2. n >= 5 => t[1] \in 1..4 /\ t[2] \in 1..4 /\ t[3] \in 1..4 /\ t[4] \in 1..4
                  /\ t[5] \in 1..4
    BY <1>1
  <2> QED BY <1>6, <2>1, <2>2
<1>14. ~(n >= 6)
  <2>1. SUFFICES ASSUME n >= 6 PROVE FALSE
    OBVIOUS
  <2>2. G[6] \in Ranks(F5)
    BY <1>1, <1>5, <2>1
  <2>3. Cardinality(F5) = 0
    BY <1>1, <1>13, <2>1
  <2>4. Ranks(F5) = {}
    BY <1>3, <1>4, <2>3
  <2> QED BY <2>2, <2>4
<1>15. n \in 2..5
  BY <1>1, <1>8, <1>9, <1>14
<1>16. \A i \in 1..n : t[i] = Times(F, i)
  BY DEF t
<1>17. n = 5 => \A i \in 1..5 : t[i] = 1
  BY <1>13
<1> HIDE DEF G
<1>18. \/ n = 2 /\ Times(F, 1) + Times(F, 2) = 5
       \/ n = 3 /\ Times(F, 1) + Times(F, 2) + Times(F, 3) = 5
       \/ n = 4 /\ Times(F, 1) + Times(F, 2) + Times(F, 3) + Times(F, 4) = 5
       \/ n = 5 /\ \A i \in 1..5 : Times(F, i) = 1
  BY <1>10, <1>11, <1>12, <1>15, <1>16, <1>17
<1> QED BY <1>18 DEF n

\* F has so many ranks, which occur so often.
Shaped(F, n, times) ==
  Cardinality(Ranks(F)) = n /\ \A i \in 1..n : Times(F, i) = times[i]

FourShape(F) == Shaped(F, 2, <<4, 1>>)
FullShape(F) == Shaped(F, 2, <<3, 2>>)
ThreeShape(F) == Shaped(F, 3, <<3, 1, 1>>)
TwoPairShape(F) == Shaped(F, 3, <<2, 2, 1>>)
PairShape(F) == Shaped(F, 4, <<2, 1, 1, 1>>)
NoPairShape(F) == Shaped(F, 5, <<1, 1, 1, 1, 1>>)

\* Five cards have one of these shapes.
LEMMA Shapes ==
  ASSUME NEW F \in SUBSET Deck, Cardinality(F) = 5
  PROVE  \/ FourShape(F) \/ FullShape(F) \/ ThreeShape(F)
         \/ TwoPairShape(F) \/ PairShape(F) \/ NoPairShape(F)
<1> DEFINE n == Cardinality(Ranks(F))
           t == [i \in 1..n |-> Times(F, i)]
<1>1. /\ \A i \in 1..n : t[i] \in 1..4
      /\ \A i, j \in 1..n : i < j => t[j] <= t[i]
      /\ \A i \in 1..n : t[i] = Times(F, i)
  BY TimesFall
<1>2. \/ n = 2 /\ Times(F, 1) + Times(F, 2) = 5
      \/ n = 3 /\ Times(F, 1) + Times(F, 2) + Times(F, 3) = 5
      \/ n = 4 /\ Times(F, 1) + Times(F, 2) + Times(F, 3) + Times(F, 4) = 5
      \/ n = 5 /\ \A i \in 1..5 : Times(F, i) = 1
  BY TimesSum
<1> HIDE DEF n, t
<1>3. CASE n = 2
  <2>1. t[1] \in 1..4 /\ t[2] \in 1..4 /\ t[2] <= t[1] /\ t[1] + t[2] = 5
    BY <1>1, <1>2, <1>3
  <2>2. \/ t[1] = 4 /\ t[2] = 1
        \/ t[1] = 3 /\ t[2] = 2
    BY <2>1
  <2>3. \A i \in 1..2 : i = 1 \/ i = 2
    OBVIOUS
  <2> QED BY <1>1, <1>3, <2>2, <2>3 DEF n, Shaped, FourShape, FullShape
<1>4. CASE n = 3
  <2>1. /\ t[1] \in 1..4 /\ t[2] \in 1..4 /\ t[3] \in 1..4
        /\ t[2] <= t[1] /\ t[3] <= t[2] /\ t[1] + t[2] + t[3] = 5
    BY <1>1, <1>2, <1>4
  <2>2. \/ t[1] = 3 /\ t[2] = 1 /\ t[3] = 1
        \/ t[1] = 2 /\ t[2] = 2 /\ t[3] = 1
    BY <2>1
  <2>3. \A i \in 1..3 : i = 1 \/ i = 2 \/ i = 3
    OBVIOUS
  <2> QED BY <1>1, <1>4, <2>2, <2>3 DEF n, Shaped, ThreeShape, TwoPairShape
<1>5. CASE n = 4
  <2>1. /\ t[1] \in 1..4 /\ t[2] \in 1..4 /\ t[3] \in 1..4 /\ t[4] \in 1..4
        /\ t[2] <= t[1] /\ t[3] <= t[2] /\ t[4] <= t[3]
        /\ t[1] + t[2] + t[3] + t[4] = 5
    BY <1>1, <1>2, <1>5
  <2>2. t[1] = 2 /\ t[2] = 1 /\ t[3] = 1 /\ t[4] = 1
    BY <2>1
  <2>3. \A i \in 1..4 : i = 1 \/ i = 2 \/ i = 3 \/ i = 4
    OBVIOUS
  <2> QED BY <1>1, <1>5, <2>2, <2>3 DEF n, Shaped, PairShape
<1>6. CASE n = 5
  <2>1. \A i \in 1..5 : <<1, 1, 1, 1, 1>>[i] = 1
    OBVIOUS
  <2> QED BY <1>2, <1>6, <2>1 DEF n, Shaped, NoPairShape
<1> QED BY <1>2, <1>3, <1>4, <1>5, <1>6

\* All of one suit.
Suited(F) == Cardinality({SuitOf(c) : c \in F}) = 1

\* One suit in all: every card has it.
LEMMA SuitedIs ==
  ASSUME NEW F \in SUBSET Deck
  PROVE  Suited(F) <=> \E suit \in Suits : F # {} /\ \A c \in F : SuitOf(c) = suit
<1> DEFINE suits == {SuitOf(c) : c \in F}
<1>1. suits \in SUBSET Suits
  BY CardsAre
<1>2. \A x : suits = {x} <=> F # {} /\ \A c \in F : SuitOf(c) = x
  OBVIOUS
<1> HIDE DEF suits
<1>3. IsFiniteSet(suits)
  BY <1>1, DeckAssumption, FS_Subset
<1>4. Cardinality(suits) = 1 <=> \E x : suits = {x}
  BY <1>3, FS_Singleton
<1>5. \A x : suits = {x} => x \in Suits
  BY <1>1
<1> QED BY <1>2, <1>4, <1>5 DEF Suited, suits

\* Cards of one suit are of different ranks.
LEMMA SuitedDiffer ==
  ASSUME NEW F \in SUBSET Deck, Suited(F), NEW r
  PROVE  Count(F, r) <= 1
<1>1. PICK suit \in Suits : \A c \in F : SuitOf(c) = suit
  BY SuitedIs
<1> DEFINE those == {c \in F : RankOf(c) = r}
<1>2. CASE those = {}
  BY <1>2, FS_EmptySet DEF Count
<1>3. CASE those # {}
  <2>1. PICK d \in those : TRUE
    BY <1>3
  <2>2. \A c \in those : c = d
    BY <1>1, <2>1, CardsAre
  <2>3. those = {d}
    BY <2>1, <2>2
  <2>4. Cardinality(those) = 1
    BY <2>3, FS_Singleton
  <2> QED BY <2>4 DEF Count
<1> QED BY <1>2, <1>3

\* A run of five, or the wheel.
IsStraight(F) ==
  /\ Cardinality(Ranks(F)) = 5
  /\ Ranks(F) = Wheel \/ Max(Ranks(F)) - Min(Ranks(F)) = 4

\* The category of five cards that are not a straight.
Category(F) ==
  CASE Times(F, 1) = 4 -> FourOfAKind
    [] Times(F, 1) = 3 /\ Cardinality(Ranks(F)) = 2 -> FullHouse
    [] Suited(F) -> Flush
    [] Times(F, 1) = 3 /\ Cardinality(Ranks(F)) = 3 -> ThreeOfAKind
    [] Times(F, 1) = 2 /\ Cardinality(Ranks(F)) = 3 -> TwoPair
    [] Times(F, 1) = 2 /\ Cardinality(Ranks(F)) = 4 -> Pair
    [] OTHER -> HighCard

\* The rule of five cards, place by place.
LEMMA RuleIs ==
  ASSUME NEW F \in SUBSET Deck, Cardinality(F) = 5
  PROVE  LET n == Cardinality(Ranks(F))
             rule == RuleOf(F)
         IN  /\ rule \in Seq(Nat)
             /\ IsStraight(F) =>
                  /\ Len(rule) = 2
                  /\ rule[1] = IF Suited(F) THEN StraightFlush ELSE Straight
                  /\ rule[2] = IF Ranks(F) = Wheel THEN 5 ELSE Groups(F)[1]
             /\ ~IsStraight(F) =>
                  /\ Len(rule) = n + 1 /\ rule[1] = Category(F)
                  /\ \A i \in 1..n : rule[i+1] = Groups(F)[i]
<1> DEFINE n == Cardinality(Ranks(F))
           G == Groups(F)
           top == IF Ranks(F) = Wheel THEN 5 ELSE G[1]
           kind == IF Suited(F) THEN StraightFlush ELSE Straight
<1>1. G \in Seq(Nat) /\ Len(G) = n /\ n \in Nat
  BY GroupsAre
<1>2. RuleOf(F) = IF IsStraight(F) THEN <<kind, top>> ELSE <<Category(F)>> \o G
  BY <1>1 DEF RuleOf, IsStraight, Category, Suited, Times
<1>3. Category(F) \in Nat /\ kind \in Nat
  BY DEF Category, FourOfAKind, FullHouse, Flush, ThreeOfAKind, TwoPair, Pair, HighCard,
         StraightFlush, Straight
<1>4. CASE IsStraight(F)
  <2>1. n = 5
    BY <1>4 DEF IsStraight
  <2> HIDE DEF n, G
  <2>2. top \in Nat
    <3>1. 1 \in 1..Len(G)
      BY <1>1, <2>1
    <3>2. G[1] \in Nat
      BY <1>1, <3>1
    <3> QED BY <3>2
  <2> HIDE DEF top, kind
  <2>3. <<kind, top>> \in Seq(Nat) /\ Len(<<kind, top>>) = 2
        /\ <<kind, top>>[1] = kind /\ <<kind, top>>[2] = top
    BY <1>3, <2>2
  <2> QED BY <1>2, <1>4, <2>3 DEF kind, top, G
<1>5. CASE ~IsStraight(F)
  <2> DEFINE category == Category(F)
  <2> HIDE DEF category, G, n
  <2>1. category \in Nat
    BY <1>3 DEF category
  <2>2. /\ <<category>> \o G \in Seq(Nat) /\ Len(<<category>> \o G) = n + 1
        /\ (<<category>> \o G)[1] = category
        /\ \A i \in 1..n : (<<category>> \o G)[i+1] = G[i]
    BY <1>1, <2>1
  <2>3. RuleOf(F) = <<category>> \o G
    BY <1>2, <1>5 DEF category
  <2> QED BY <1>5, <2>2, <2>3 DEF category, G, n
<1> QED BY <1>4, <1>5

-----------------------------------------------------------------------------
(* Evaluations and rules as sequences.                                     *)

\* HandRank as numbers.
LEMMA RankNumbers ==
  /\ HighCard = 0 /\ Pair = 1 /\ TwoPair = 2 /\ ThreeOfAKind = 3 /\ Straight = 4
  /\ Flush = 5 /\ FullHouse = 6 /\ FourOfAKind = 7 /\ StraightFlush = 8
BY DEF HighCard, Pair, TwoPair, ThreeOfAKind, Straight, Flush, FullHouse, FourOfAKind,
       StraightFlush

\* No less: at the first difference, if there is one, s is greater.
LEMMA NotLess ==
  ASSUME NEW s \in Seq(Nat), NEW t \in Seq(Nat), Len(t) <= Len(s),
         \A i \in 1..Len(t) : (\A j \in 1..(i-1) : s[j] = t[j]) => t[i] <= s[i]
  PROVE  ~SeqLess(s, t)
<1>1. /\ Len(s) \in Nat /\ Len(t) \in Nat
      /\ \A i \in 1..Len(s) : s[i] \in Nat
      /\ \A i \in 1..Len(t) : t[i] \in Nat
  OBVIOUS
<1>2. ASSUME NEW i \in 1..Len(t), LessAt(s, t, i) PROVE FALSE
  <2>1. /\ \A j \in 1..(i-1) : s[j] = t[j]
        /\ i = Len(s) + 1 \/ (i <= Len(s) /\ s[i] < t[i])
    BY <1>2 DEF LessAt
  <2>2. t[i] <= s[i] /\ i <= Len(s) /\ i \in 1..Len(s)
    BY <1>1, <2>1
  <2> QED BY <1>1, <2>1, <2>2
<1> QED BY <1>2, SeqLessAt

\* A sequence with the greater first element is not less.
LEMMA NotLessFirst ==
  ASSUME NEW s \in Seq(Nat), NEW t \in Seq(Nat), Len(s) >= 1, Len(t) >= 1, t[1] < s[1]
  PROVE  ~SeqLess(s, t)
<1>1. Len(s) \in Nat /\ Len(t) \in Nat /\ s[1] \in Nat /\ t[1] \in Nat
  <2>1. Len(s) \in Nat /\ Len(t) \in Nat
    OBVIOUS
  <2>2. 1 \in 1..Len(s) /\ 1 \in 1..Len(t)
    BY <2>1
  <2> QED BY <2>1, <2>2
<1>2. ASSUME NEW i \in 1..Len(t), LessAt(s, t, i) PROVE FALSE
  <2>1. /\ \A j \in 1..(i-1) : s[j] = t[j]
        /\ i = Len(s) + 1 \/ (i <= Len(s) /\ s[i] < t[i])
    BY <1>2 DEF LessAt
  <2>2. CASE i = 1
    BY <1>1, <2>1, <2>2
  <2>3. CASE i # 1
    <3>1. 1 \in 1..(i-1)
      BY <2>3
    <3> QED BY <1>1, <2>1, <3>1
  <2> QED BY <2>2, <2>3
<1> QED BY <1>2, SeqLessAt

\* The same, place by place.
LEMMA SameSequence ==
  ASSUME NEW s \in Seq(Nat), NEW t \in Seq(Nat), Len(s) = Len(t),
         \A i \in 1..Len(s) : s[i] = t[i]
  PROVE  s = t
OBVIOUS

\* An evaluation that says its category, its rank and its tiebreakers.
SaysGroup(e) ==
  /\ Meaning(e) \in Seq(Nat) /\ Len(Meaning(e)) = Len(e.tiebreakers) + 2
  /\ Meaning(e)[1] = e.rank /\ Meaning(e)[2] = e.primary_rank
  /\ \A i \in 1..Len(e.tiebreakers) : Meaning(e)[i+2] = e.tiebreakers[i]

\* The three ways to read an evaluation, place by place.
LEMMA MeaningGrouped ==
  ASSUME NEW e, e.rank \in {Pair, TwoPair, ThreeOfAKind, FullHouse, FourOfAKind},
         e.primary_rank \in Nat, e.tiebreakers \in Seq(Nat)
  PROVE  SaysGroup(e)
<1> DEFINE rank == e.rank
           primary == e.primary_rank
           ties == e.tiebreakers
<1>2. rank \in Nat /\ rank \notin {Straight, StraightFlush} /\ rank \notin {HighCard, Flush}
  BY RankNumbers
<1>3. Meaning(e) = <<rank, primary>> \o ties
  BY <1>2 DEF Meaning
<1>4. primary \in Nat /\ ties \in Seq(Nat)
  OBVIOUS
<1> HIDE DEF rank, primary, ties
<1>5. /\ <<rank, primary>> \o ties \in Seq(Nat)
      /\ Len(<<rank, primary>> \o ties) = Len(ties) + 2
      /\ (<<rank, primary>> \o ties)[1] = rank /\ (<<rank, primary>> \o ties)[2] = primary
      /\ \A i \in 1..Len(ties) : (<<rank, primary>> \o ties)[i+2] = ties[i]
  BY <1>2, <1>4
<1> QED BY <1>3, <1>5 DEF SaysGroup, rank, primary, ties

\* A high card or a flush says its category and its five ranks.
LEMMA MeaningListed ==
  ASSUME NEW e, e.rank \in {HighCard, Flush}, e.tiebreakers \in Seq(Nat)
  PROVE  /\ Meaning(e) \in Seq(Nat) /\ Len(Meaning(e)) = Len(e.tiebreakers) + 1
         /\ Meaning(e)[1] = e.rank
         /\ \A i \in 1..Len(e.tiebreakers) : Meaning(e)[i+1] = e.tiebreakers[i]
<1> DEFINE rank == e.rank
           ties == e.tiebreakers
<1>2. rank \in Nat /\ rank \notin {Straight, StraightFlush}
  BY RankNumbers
<1>3. Meaning(e) = <<rank>> \o ties
  BY <1>2 DEF Meaning
<1>4. ties \in Seq(Nat)
  OBVIOUS
<1> HIDE DEF rank, ties
<1>5. /\ <<rank>> \o ties \in Seq(Nat) /\ Len(<<rank>> \o ties) = Len(ties) + 1
      /\ (<<rank>> \o ties)[1] = rank
      /\ \A i \in 1..Len(ties) : (<<rank>> \o ties)[i+1] = ties[i]
  BY <1>2, <1>4
<1> QED BY <1>3, <1>5 DEF rank, ties

\* A straight says its category and its highest rank.
LEMMA MeaningRun ==
  ASSUME NEW e, e.rank \in {Straight, StraightFlush}, e.primary_rank \in Nat
  PROVE  /\ Meaning(e) \in Seq(Nat) /\ Len(Meaning(e)) = 2
         /\ Meaning(e)[1] = e.rank /\ Meaning(e)[2] = e.primary_rank
<1> DEFINE rank == e.rank
           primary == e.primary_rank
<1>2. rank \in Nat /\ rank \notin {HighCard, Flush}
  BY RankNumbers
<1>3. Meaning(e) = <<rank, primary>>
  BY <1>2 DEF Meaning
<1>4. primary \in Nat
  OBVIOUS
<1> HIDE DEF rank, primary
<1>5. /\ <<rank, primary>> \in Seq(Nat) /\ Len(<<rank, primary>>) = 2
      /\ <<rank, primary>>[1] = rank /\ <<rank, primary>>[2] = primary
  BY <1>2, <1>4
<1> QED BY <1>3, <1>5 DEF rank, primary

\* The checks in their order, each with those before it that found nothing.
LEMMA EvaluateIs ==
  ASSUME NEW C, C # {}, NEW e \in Evaluate(C)
  PROVE  \/ e \in StraightFlushes(C)
         \/ /\ StraightFlushes(C) = {}
            /\ \/ e \in Fours(C)
               \/ /\ Fours(C) = {}
                  /\ \/ e \in FullHouses(C)
                     \/ /\ FullHouses(C) = {}
                        /\ \/ e \in Flushes(C)
                           \/ /\ Flushes(C) = {}
                              /\ \/ e \in Straights(Ranks(C))
                                 \/ /\ Straights(Ranks(C)) = {}
                                    /\ \/ e \in Threes(C)
                                       \/ /\ Threes(C) = {}
                                          /\ \/ e \in TwoPairs(C)
                                             \/ /\ TwoPairs(C) = {}
                                                /\ \/ e \in Pairs(C)
                                                   \/ Pairs(C) = {} /\ e \in HighCards(C)
<1> DEFINE checks == <<StraightFlushes(C), Fours(C), FullHouses(C),
                       Flushes(C), Straights(Ranks(C)), Threes(C),
                       TwoPairs(C), Pairs(C), HighCards(C)>>
           found == {i \in 1..9 : checks[i] # {}}
           first == Min(found)
<1>1. e \in checks[first]
  BY DEF Evaluate
<1>2. checks[9] # {}
  BY DEF HighCards
<1>3. first \in found /\ \A i \in found : first <= i
  <2>1. found \in SUBSET Nat /\ found # {}
    BY <1>2
  <2> HIDE DEF found
  <2>2. \E x \in found : \A y \in found : x <= y
    BY <2>1, LeastNat
  <2> QED BY <2>2 DEF Min
<1> HIDE DEF first
<1>4. first \in 1..9 /\ \A i \in 1..9 : i < first => checks[i] = {}
  <2>1. \A i \in 1..9 : checks[i] # {} => i \in found
    OBVIOUS
  <2>2. first \in 1..9
    BY <1>3
  <2> HIDE DEF found, checks
  <2>3. \A i \in 1..9 : i < first => ~(first <= i)
    BY <2>2
  <2> QED BY <1>3, <2>1, <2>2, <2>3
<1>5. /\ checks[1] = StraightFlushes(C) /\ checks[2] = Fours(C)
      /\ checks[3] = FullHouses(C) /\ checks[4] = Flushes(C)
      /\ checks[5] = Straights(Ranks(C)) /\ checks[6] = Threes(C)
      /\ checks[7] = TwoPairs(C) /\ checks[8] = Pairs(C) /\ checks[9] = HighCards(C)
  OBVIOUS
<1> HIDE DEF checks, found
<1>6. /\ first > 1 => checks[1] = {}
      /\ first > 2 => checks[2] = {}
      /\ first > 3 => checks[3] = {}
      /\ first > 4 => checks[4] = {}
      /\ first > 5 => checks[5] = {}
      /\ first > 6 => checks[6] = {}
      /\ first > 7 => checks[7] = {}
      /\ first > 8 => checks[8] = {}
  BY <1>4
<1>7. \/ first = 1 \/ first = 2 \/ first = 3 \/ first = 4 \/ first = 5
      \/ first = 6 \/ first = 7 \/ first = 8 \/ first = 9
  BY <1>4
<1> QED BY <1>1, <1>5, <1>6, <1>7

-----------------------------------------------------------------------------
(* Choosing five cards.                                                    *)

\* The rule is its category and then the groups.
Lists(F) ==
  /\ Len(RuleOf(F)) = Cardinality(Ranks(F)) + 1
  /\ \A i \in 1..Cardinality(Ranks(F)) : RuleOf(F)[i+1] = Groups(F)[i]

\* What the shape says of the times.
LEMMA ShapeTimes ==
  ASSUME NEW F
  PROVE  /\ FourShape(F) => Cardinality(Ranks(F)) = 2 /\ Times(F, 1) = 4 /\ Times(F, 2) = 1
         /\ FullShape(F) => Cardinality(Ranks(F)) = 2 /\ Times(F, 1) = 3 /\ Times(F, 2) = 2
         /\ ThreeShape(F) => /\ Cardinality(Ranks(F)) = 3
                            /\ Times(F, 1) = 3 /\ Times(F, 2) = 1 /\ Times(F, 3) = 1
         /\ TwoPairShape(F) => /\ Cardinality(Ranks(F)) = 3
                              /\ Times(F, 1) = 2 /\ Times(F, 2) = 2 /\ Times(F, 3) = 1
         /\ PairShape(F) => /\ Cardinality(Ranks(F)) = 4 /\ Times(F, 1) = 2
                           /\ Times(F, 2) = 1 /\ Times(F, 3) = 1 /\ Times(F, 4) = 1
         /\ NoPairShape(F) => /\ Cardinality(Ranks(F)) = 5
                             /\ Times(F, 1) = 1 /\ Times(F, 2) = 1 /\ Times(F, 3) = 1
                             /\ Times(F, 4) = 1 /\ Times(F, 5) = 1
<1>1. FourShape(F) => Cardinality(Ranks(F)) = 2 /\ Times(F, 1) = 4 /\ Times(F, 2) = 1
  BY DEF FourShape, Shaped
<1>2. FullShape(F) => Cardinality(Ranks(F)) = 2 /\ Times(F, 1) = 3 /\ Times(F, 2) = 2
  BY DEF FullShape, Shaped
<1>3. ThreeShape(F) => /\ Cardinality(Ranks(F)) = 3
                       /\ Times(F, 1) = 3 /\ Times(F, 2) = 1 /\ Times(F, 3) = 1
  BY DEF ThreeShape, Shaped
<1>4. TwoPairShape(F) => /\ Cardinality(Ranks(F)) = 3
                         /\ Times(F, 1) = 2 /\ Times(F, 2) = 2 /\ Times(F, 3) = 1
  BY DEF TwoPairShape, Shaped
<1>5. PairShape(F) => /\ Cardinality(Ranks(F)) = 4 /\ Times(F, 1) = 2
                      /\ Times(F, 2) = 1 /\ Times(F, 3) = 1 /\ Times(F, 4) = 1
  BY DEF PairShape, Shaped
<1>6. NoPairShape(F) => /\ Cardinality(Ranks(F)) = 5
                        /\ Times(F, 1) = 1 /\ Times(F, 2) = 1 /\ Times(F, 3) = 1
                        /\ Times(F, 4) = 1 /\ Times(F, 5) = 1
  BY DEF NoPairShape, Shaped
<1> QED BY <1>1, <1>2, <1>3, <1>4, <1>5, <1>6

\* The rule of five cards, shape by shape.
LEMMA RuleShapes ==
  ASSUME NEW F \in SUBSET Deck, Cardinality(F) = 5
  PROVE  LET rule == RuleOf(F)
         IN  /\ rule \in Seq(Nat) /\ Len(rule) >= 1
             /\ FourShape(F) => rule[1] = 7 /\ Lists(F)
             /\ FullShape(F) => rule[1] = 6 /\ Lists(F)
             /\ ThreeShape(F) => rule[1] = 3 /\ Lists(F)
             /\ TwoPairShape(F) => rule[1] = 2 /\ Lists(F)
             /\ PairShape(F) => rule[1] = 1 /\ Lists(F)
             /\ NoPairShape(F) /\ ~IsStraight(F) =>
                  rule[1] = (IF Suited(F) THEN 5 ELSE 0) /\ Lists(F)
             /\ IsStraight(F) =>
                  /\ NoPairShape(F) /\ Len(rule) = 2
                  /\ rule[1] = IF Suited(F) THEN 8 ELSE 4
                  /\ rule[2] = IF Ranks(F) = Wheel THEN 5 ELSE Groups(F)[1]
             /\ Suited(F) => NoPairShape(F)
<1> DEFINE n == Cardinality(Ranks(F))
           rule == RuleOf(F)
<1>1. /\ rule \in Seq(Nat)
      /\ IsStraight(F) => /\ Len(rule) = 2
                          /\ rule[1] = IF Suited(F) THEN StraightFlush ELSE Straight
                          /\ rule[2] = IF Ranks(F) = Wheel THEN 5 ELSE Groups(F)[1]
      /\ ~IsStraight(F) => Lists(F) /\ rule[1] = Category(F)
  BY RuleIs DEF Lists
<1>2. Suited(F) => Times(F, 1) <= 1
  BY SuitedDiffer DEF Times
<1>3. Suited(F) => NoPairShape(F)
  BY <1>2, Shapes, ShapeTimes
<1>4. IsStraight(F) => n = 5
  BY DEF IsStraight
<1>5. IsStraight(F) => NoPairShape(F)
  BY <1>4, Shapes, ShapeTimes
<1>6. Len(rule) >= 1
  <2>1. n \in Nat
    BY GroupsAre
  <2> HIDE DEF rule
  <2> QED BY <1>1, <2>1 DEF Lists, rule
<1> HIDE DEF rule
<1>7. FourShape(F) => rule[1] = 7 /\ Lists(F)
  BY <1>1, <1>2, <1>4, ShapeTimes, RankNumbers DEF Category
<1>8. FullShape(F) => rule[1] = 6 /\ Lists(F)
  BY <1>1, <1>2, <1>4, ShapeTimes, RankNumbers DEF Category
<1>9. ThreeShape(F) => rule[1] = 3 /\ Lists(F)
  BY <1>1, <1>2, <1>4, ShapeTimes, RankNumbers DEF Category
<1>10. TwoPairShape(F) => rule[1] = 2 /\ Lists(F)
  BY <1>1, <1>2, <1>4, ShapeTimes, RankNumbers DEF Category
<1>11. PairShape(F) => rule[1] = 1 /\ Lists(F)
  BY <1>1, <1>2, <1>4, ShapeTimes, RankNumbers DEF Category
<1>12. NoPairShape(F) /\ ~IsStraight(F) => rule[1] = (IF Suited(F) THEN 5 ELSE 0) /\ Lists(F)
  BY <1>1, ShapeTimes, RankNumbers DEF Category
<1> QED BY <1>1, <1>3, <1>5, <1>6, <1>7, <1>8, <1>9, <1>10, <1>11, <1>12, RankNumbers DEF rule

\* The cards of a rank.
OfRank(A, r) == {c \in A : RankOf(c) = r}

\* Some k cards of a rank.
LEMMA SomeOfRank ==
  ASSUME NEW A \in SUBSET Deck, NEW r, NEW k \in Nat, k <= Count(A, r)
  PROVE  \E T \in SUBSET OfRank(A, r) : Cardinality(T) = k
<1> DEFINE those == OfRank(A, r)
<1>1. those \in SUBSET Deck /\ Cardinality(those) = Count(A, r)
  BY DEF Count, OfRank
<1> HIDE DEF those
<1>2. Cardinality(those) \in Nat
  BY <1>1, CardsAre
<1>3. k \in 0..Cardinality(those)
  BY <1>1, <1>2
<1>4. PICK T : Top(those, k, T)
  BY <1>1, <1>3, TopExists
<1> QED BY <1>4 DEF Top, those

\* Cards of a rank and cards of other ranks.
Parts(A, r, T, K) == T \in SUBSET OfRank(A, r) /\ K \in SUBSET Others(A, r)

\* Some cards of a rank and some of the others, counted together.
LEMMA Joined ==
  ASSUME NEW A \in SUBSET Deck, NEW r, NEW T, NEW K, Parts(A, r, T, K)
  PROVE  /\ Cardinality(T \cup K) = Cardinality(T) + Cardinality(K)
         /\ Count(T \cup K, r) = Cardinality(T) /\ Others(T \cup K, r) = K
<1>1. T \in SUBSET Deck /\ K \in SUBSET Deck /\ T \cap K = {}
  BY DEF Parts, OfRank, Others
<1>2. IsFiniteSet(T) /\ IsFiniteSet(K) /\ Cardinality(T) \in Nat /\ Cardinality(K) \in Nat
  BY <1>1, CardsAre
<1>3. Cardinality(T \cup K) = Cardinality(T) + Cardinality(K)
  <2>1. Cardinality(T \cup K) = Cardinality(T) + Cardinality(K) - Cardinality(T \cap K)
    BY <1>2, FS_Union
  <2>2. Cardinality(T \cap K) = 0
    BY <1>1, FS_EmptySet
  <2> QED BY <1>2, <2>1, <2>2
<1>4. {c \in T \cup K : RankOf(c) = r} = T /\ Others(T \cup K, r) = K
  BY DEF Parts, OfRank, Others
<1> QED BY <1>3, <1>4 DEF Count

\* One card of each of these ranks.
LEMMA OneOfEach ==
  ASSUME NEW A \in SUBSET Deck, NEW S \in SUBSET Ranks(A)
  PROVE  \E F \in SUBSET A : Cardinality(F) = Cardinality(S) /\ Ranks(F) = S
<1> DEFINE one == [r \in S |-> CHOOSE c \in A : RankOf(c) = r]
           F == {one[r] : r \in S}
<1>1. \A r \in S : one[r] \in A /\ RankOf(one[r]) = r
  BY DEF Ranks
<1>2. IsFiniteSet(S)
  BY CardsAre, FS_Subset
<1>3. one \in Bijection(S, F)
  <2>1. one \in [S -> F]
    OBVIOUS
  <2>2. \A r, q \in S : one[r] = one[q] => r = q
    BY <1>1
  <2>3. \A c \in F : \E r \in S : one[r] = c
    OBVIOUS
  <2> HIDE DEF one, F
  <2> QED BY <2>1, <2>2, <2>3 DEF Bijection, Injection, Surjection, IsInjective
<1>4. F \in SUBSET A /\ Ranks(F) = S
  <2>1. \A r \in S : one[r] \in A /\ RankOf(one[r]) = r
    BY <1>1
  <2> HIDE DEF one
  <2> QED BY <2>1 DEF Ranks
<1> HIDE DEF one, F
<1>5. Cardinality(F) = Cardinality(S)
  <2>1. ExistsBijection(S, F)
    BY <1>3 DEF ExistsBijection
  <2> QED BY <1>2, <2>1, FS_Bijection
<1> QED BY <1>4, <1>5

\* Ranks that fall, one for each card, are the descending ranks.
LEMMA FallingDescends ==
  ASSUME NEW K \in SUBSET Deck, NEW g \in [1..Cardinality(K) -> Ranks(K)],
         \A i, j \in 1..Cardinality(K) : i < j => g[j] < g[i]
  PROVE  \A i \in 1..Cardinality(K) : Descending(K)[i] = g[i]
<1> DEFINE m == Cardinality(K)
           one == [i \in 1..m |-> CHOOSE c \in K : RankOf(c) = g[i]]
<1>1. m \in Nat /\ IsFiniteSet(K) /\ \A c \in K : RankOf(c) \in Int
  BY CardsAre
<1>2. \A i \in 1..m : g[i] \in Ranks(K) /\ g[i] \in Int
  BY CardsAre
<1>3. \A i, j \in 1..m : i # j => g[i] # g[j]
  <2> HIDE DEF m
  <2>1. \A i, j \in 1..m : i < j => g[j] # g[i]
    BY <1>2 DEF m
  <2>2. \A i, j \in 1..m : i # j => i < j \/ j < i
    OBVIOUS
  <2> QED BY <2>1, <2>2
<1>4. \A i \in 1..m : one[i] \in K /\ RankOf(one[i]) = g[i]
  BY <1>2 DEF Ranks
<1> HIDE DEF one, m
\* as many cards as places in an interval
<1>5. ASSUME NEW a \in 1..m, NEW b \in 1..m, a <= b, NEW S \in SUBSET K,
             \A i \in a..b : one[i] \in S
      PROVE  b - a + 1 <= Cardinality(S) /\ Cardinality(S) \in Nat
  <2> DEFINE f == [i \in a..b |-> one[i]]
  <2>1. a \in Int /\ b \in Int /\ \A i \in a..b : i \in 1..m
    BY <1>1
  <2>2. f \in [a..b -> S]
    BY <1>5
  <2>3. \A i, j \in a..b : f[i] = f[j] => i = j
    BY <1>3, <1>4, <2>1
  <2> HIDE DEF f
  <2>4. f \in Injection(a..b, S)
    BY <2>2, <2>3 DEF Injection, IsInjective
  <2>5. IsFiniteSet(S) /\ Cardinality(S) \in Nat
    BY <1>1, PartOf
  <2>6. Cardinality(a..b) <= Cardinality(S)
    BY <2>4, <2>5, FS_Injection
  <2>7. Cardinality(a..b) = b - a + 1
    BY <1>5, <2>1, FS_Interval
  <2> QED BY <2>5, <2>6, <2>7
<1>6. ASSUME NEW i \in 1..m PROVE Descending(K)[i] = g[i]
  <2> DEFINE least == {c \in K : RankOf(c) >= g[i]}
             above == {c \in K : RankOf(c) > g[i]}
             most == {c \in K : RankOf(c) <= g[i]}
             first == 1
  <2>1. \A k \in 1..m : (k < i => g[i] < g[k]) /\ (i < k => g[k] < g[i])
    BY DEF m
  <2>2. i <= Cardinality(least)
    <3>1. \A k \in first..i : one[k] \in least
      BY <1>1, <1>2, <1>4, <2>1
    <3>2. first \in 1..m /\ first <= i /\ least \in SUBSET K /\ i - first + 1 = i
      BY <1>1
    <3> HIDE DEF first, least
    <3>3. i - first + 1 <= Cardinality(least)
      BY <1>5, <3>1, <3>2
    <3> QED BY <3>2, <3>3
  <2>3. m - i + 1 <= Cardinality(most) /\ Cardinality(most) \in Nat
    <3>1. \A k \in i..m : one[k] \in most
      BY <1>1, <1>2, <1>4, <2>1
    <3>2. m \in 1..m /\ i <= m /\ most \in SUBSET K
      BY <1>1
    <3> HIDE DEF most
    <3> QED BY <1>5, <3>1, <3>2
  <2>4. Cardinality(above) + Cardinality(most) = m /\ Cardinality(above) \in Nat
    <3>1. above = K \ most /\ K \cap most = most /\ above \in SUBSET K
      BY <1>1, <1>2
    <3> HIDE DEF above, most
    <3>2. Cardinality(above) = Cardinality(K) - Cardinality(most)
      BY ZenonT(30), <1>1, <3>1, FS_Difference
    <3> QED BY <1>1, <2>3, <3>1, <3>2, PartOf DEF m
  <2> HIDE DEF above, most, least
  <2>5. Cardinality(above) < i
    BY <1>1, <2>3, <2>4
  <2>6. Above(K, g[i]) < i /\ i <= AtLeast(K, g[i]) /\ g[i] \in Int /\ i \in 1..Cardinality(K)
    BY <1>2, <2>2, <2>5 DEF Above, AtLeast, above, least, m
  <2> QED BY <2>6, DescendingOnly
<1> QED BY <1>6 DEF m

\* A rank that occurs so often is in its place.
LEMMA ShapeByCount ==
  ASSUME NEW F \in SUBSET Deck, Cardinality(F) = 5, NEW r
  PROVE  /\ r \in Ranks(F) => \E i \in 1..Cardinality(Ranks(F)) :
                                Groups(F)[i] = r /\ Times(F, i) = Count(F, r)
         /\ Count(F, r) = 4 => FourShape(F) /\ Groups(F)[1] = r
         /\ Count(F, r) = 3 => (FullShape(F) \/ ThreeShape(F)) /\ Groups(F)[1] = r
         /\ Count(F, r) = 2 => \/ FullShape(F) /\ Groups(F)[2] = r
                               \/ TwoPairShape(F) /\ r \in {Groups(F)[1], Groups(F)[2]}
                               \/ PairShape(F) /\ Groups(F)[1] = r
<1> DEFINE n == Cardinality(Ranks(F))
           G == Groups(F)
<1>1. ASSUME r \in Ranks(F)
      PROVE  \E i \in 1..n : G[i] = r /\ Times(F, i) = Count(F, r)
  <2>1. PICK i \in 1..n : G[i] = r
    BY <1>1, GroupsAre
  <2> QED BY <2>1 DEF Times
<1>2. Count(F, r) \in {2, 3, 4} => r \in Ranks(F)
  BY CountIs
<1>3. ASSUME Count(F, r) \in {2, 3, 4}
      PROVE  \/ FourShape(F) /\ Count(F, r) = 4 /\ G[1] = r
             \/ FullShape(F) /\ Count(F, r) = 3 /\ G[1] = r
             \/ FullShape(F) /\ Count(F, r) = 2 /\ G[2] = r
             \/ ThreeShape(F) /\ Count(F, r) = 3 /\ G[1] = r
             \/ TwoPairShape(F) /\ Count(F, r) = 2 /\ r \in {G[1], G[2]}
             \/ PairShape(F) /\ Count(F, r) = 2 /\ G[1] = r
  <2>1. PICK i \in 1..n : G[i] = r /\ Times(F, i) = Count(F, r)
    BY <1>1, <1>2, <1>3
  <2> HIDE DEF G
  <2>2. CASE FourShape(F)
    <3>1. n = 2 /\ Times(F, 1) = 4 /\ Times(F, 2) = 1
      BY <2>2, ShapeTimes
    <3>2. i = 1 \/ i = 2
      BY <2>1, <3>1
    <3> QED BY <1>3, <2>1, <2>2, <3>1, <3>2
  <2>3. CASE FullShape(F)
    <3>1. n = 2 /\ Times(F, 1) = 3 /\ Times(F, 2) = 2
      BY <2>3, ShapeTimes
    <3>2. i = 1 \/ i = 2
      BY <2>1, <3>1
    <3> QED BY <1>3, <2>1, <2>3, <3>1, <3>2
  <2>4. CASE ThreeShape(F)
    <3>1. n = 3 /\ Times(F, 1) = 3 /\ Times(F, 2) = 1 /\ Times(F, 3) = 1
      BY <2>4, ShapeTimes
    <3>2. i = 1 \/ i = 2 \/ i = 3
      BY <2>1, <3>1
    <3> QED BY <1>3, <2>1, <2>4, <3>1, <3>2
  <2>5. CASE TwoPairShape(F)
    <3>1. n = 3 /\ Times(F, 1) = 2 /\ Times(F, 2) = 2 /\ Times(F, 3) = 1
      BY <2>5, ShapeTimes
    <3>2. i = 1 \/ i = 2 \/ i = 3
      BY <2>1, <3>1
    <3> QED BY <1>3, <2>1, <2>5, <3>1, <3>2
  <2>6. CASE PairShape(F)
    <3>1. n = 4 /\ Times(F, 1) = 2 /\ Times(F, 2) = 1 /\ Times(F, 3) = 1 /\ Times(F, 4) = 1
      BY <2>6, ShapeTimes
    <3>2. i = 1 \/ i = 2 \/ i = 3 \/ i = 4
      BY <2>1, <3>1
    <3> QED BY <1>3, <2>1, <2>6, <3>1, <3>2
  <2>7. CASE NoPairShape(F)
    <3>1. /\ n = 5 /\ Times(F, 1) = 1 /\ Times(F, 2) = 1 /\ Times(F, 3) = 1
          /\ Times(F, 4) = 1 /\ Times(F, 5) = 1
      BY <2>7, ShapeTimes
    <3>2. i = 1 \/ i = 2 \/ i = 3 \/ i = 4 \/ i = 5
      BY <2>1, <3>1
    <3> QED BY <1>3, <2>1, <3>1, <3>2
  <2> QED BY <2>2, <2>3, <2>4, <2>5, <2>6, <2>7, Shapes
<1> QED BY <1>1, <1>3

-----------------------------------------------------------------------------
(* What each check says of the cards.                                      *)

\* A hand at the showdown.
Seven(C) == C \in SUBSET Deck /\ Cardinality(C) = 7

\* The cards of one suit.
OfSuit(C, suit) == {c \in C : SuitOf(c) = suit}

\* A part of the hand has no more of anything.
LEMMA PartCounts ==
  ASSUME NEW C \in SUBSET Deck, NEW F \in SUBSET C
  PROVE  /\ F \in SUBSET Deck /\ IsFiniteSet(F) /\ Cardinality(F) <= Cardinality(C)
         /\ Ranks(F) \in SUBSET Ranks(C) /\ Ranks(C) \in SUBSET (2..14)
         /\ \A r : Count(F, r) <= Count(C, r)
<1>1. \A r : Count(F, r) <= Count(C, r)
  BY CountIs
<1>2. IsFiniteSet(F) /\ Cardinality(F) <= Cardinality(C)
  BY CardsAre, PartOf
<1> QED BY <1>1, <1>2, CardsAre DEF Ranks

\* A rank of four cards, and the highest of the others.
FourRead(C, e, r, k) ==
  /\ Count(C, r) = 4 /\ r \in Nat
  /\ k \in Ranks(C) \ {r} /\ k \in Nat /\ \A q \in Ranks(C) \ {r} : q <= k
  /\ Meaning(e) \in Seq(Nat) /\ Len(Meaning(e)) = 3 /\ Meaning(e)[1] = 7
  /\ Meaning(e)[2] = r /\ Meaning(e)[3] = k

\* check_four_of_a_kind
LEMMA FourReads ==
  ASSUME NEW C, Seven(C), NEW e \in Fours(C)
  PROVE  \E r, k \in Ranks(C) : FourRead(C, e, r, k)
<1>1. PICK r \in RanksCounted(C, 4) : e = Evaluation(FourOfAKind, r, <<Highest(Ranks(C) \ {r})>>)
  BY DEF Fours
<1>2. C \in SUBSET Deck /\ Cardinality(C) = 7
  BY DEF Seven
<1>3. r \in Ranks(C) /\ Count(C, r) = 4 /\ r \in Nat
  <2>1. r \in Ranks(C) /\ Count(C, r) >= 4
    BY DEF RanksCounted
  <2> QED BY <1>2, <2>1, CardsAre, CountIs
<1> DEFINE k == Highest(Ranks(C) \ {r})
<1>4. k \in Ranks(C) \ {r} /\ k \in Nat /\ \A q \in Ranks(C) \ {r} : q <= k
  <2>1. {c \in C : RankOf(c) # r} # {}
    <3>1. Cardinality({c \in C : RankOf(c) # r}) = 3
      BY <1>2, <1>3, CountOthers
    <3>2. 3 # 0
      OBVIOUS
    <3> QED BY <3>1, <3>2, FS_EmptySet
  <2>2. Ranks(C) \ {r} # {}
    BY <1>2, <2>1, CountOthers DEF Ranks
  <2>3. Ranks(C) \ {r} \in SUBSET (2..14)
    BY <1>2, CardsAre
  <2>4. k \in Ranks(C) \ {r} /\ \A q \in Ranks(C) \ {r} : q <= k
    BY <2>2, <2>3, HighestIs
  <2> HIDE DEF k
  <2> QED BY <2>3, <2>4
<1> HIDE DEF k
<1>5. e.rank = FourOfAKind /\ e.primary_rank = r /\ e.tiebreakers = <<k>>
  BY <1>1 DEF Evaluation, k
<1>6. /\ Meaning(e) \in Seq(Nat) /\ Len(Meaning(e)) = 3
      /\ Meaning(e)[1] = 7 /\ Meaning(e)[2] = r /\ Meaning(e)[3] = k
  <2>1. /\ e.rank \in {Pair, TwoPair, ThreeOfAKind, FullHouse, FourOfAKind}
        /\ e.primary_rank \in Nat
    BY <1>3, <1>5
  <2>0. e.tiebreakers \in Seq(Nat)
    BY <1>3, <1>4, <1>5
  <2>2. Len(e.tiebreakers) = 1 /\ e.tiebreakers[1] = k
    BY <1>4, <1>5
  <2>3. /\ Meaning(e) \in Seq(Nat) /\ Len(Meaning(e)) = Len(e.tiebreakers) + 2
        /\ Meaning(e)[1] = e.rank /\ Meaning(e)[2] = e.primary_rank
        /\ \A i \in 1..Len(e.tiebreakers) : Meaning(e)[i+2] = e.tiebreakers[i]
    <3>1. SaysGroup(e)
      BY <2>0, <2>1, MeaningGrouped
    <3> QED BY <3>1 DEF SaysGroup
  <2>4. 1 \in 1..Len(e.tiebreakers) /\ 1 + 2 = 3
    BY <2>2
  <2> QED BY <1>5, <2>2, <2>3, <2>4, RankNumbers
<1>7. FourRead(C, e, r, k)
  BY <1>3, <1>4, <1>6 DEF FourRead
<1> QED BY <1>3, <1>4, <1>7

\* A rank of three cards, and one of two.
FullHouseRead(C, e, r, q) ==
  /\ r # q /\ Count(C, r) >= 3 /\ Count(C, q) >= 2 /\ r \in Nat /\ q \in Nat
  /\ e = Evaluation(FullHouse, r, <<q>>)
  /\ Meaning(e) \in Seq(Nat) /\ Len(Meaning(e)) = 3 /\ Meaning(e)[1] = 6
  /\ Meaning(e)[2] = r /\ Meaning(e)[3] = q

\* check_full_house
LEMMA FullHouseReads ==
  ASSUME NEW C, Seven(C), NEW e \in FullHouses(C)
  PROVE  \E r, q \in Ranks(C) : FullHouseRead(C, e, r, q)
<1>1. PICK tp \in RanksCounted(C, 3) \X RanksCounted(C, 2) :
        tp[1] # tp[2] /\ e = Evaluation(FullHouse, tp[1], <<tp[2]>>)
  BY DEF FullHouses
<1> DEFINE r == tp[1]
           q == tp[2]
<1>2. /\ r \in Ranks(C) /\ q \in Ranks(C) /\ r # q /\ Count(C, r) >= 3 /\ Count(C, q) >= 2
      /\ e = Evaluation(FullHouse, r, <<q>>)
  BY <1>1 DEF RanksCounted
<1>3. e.rank = FullHouse /\ e.primary_rank = r /\ e.tiebreakers = <<q>>
  BY <1>1 DEF Evaluation
<1> HIDE DEF r, q
<1>4. r \in Nat /\ q \in Nat
  BY <1>2, CardsAre DEF Seven
<1>6. /\ Meaning(e) \in Seq(Nat) /\ Len(Meaning(e)) = 3
      /\ Meaning(e)[1] = 6 /\ Meaning(e)[2] = r /\ Meaning(e)[3] = q
  <2>1. /\ e.rank \in {Pair, TwoPair, ThreeOfAKind, FullHouse, FourOfAKind}
        /\ e.primary_rank \in Nat
    BY <1>3, <1>4
  <2>0. e.tiebreakers \in Seq(Nat)
    BY <1>3, <1>4
  <2>2. Len(e.tiebreakers) = 1 /\ e.tiebreakers[1] = q
    BY <1>3, <1>4
  <2>3. /\ Meaning(e) \in Seq(Nat) /\ Len(Meaning(e)) = Len(e.tiebreakers) + 2
        /\ Meaning(e)[1] = e.rank /\ Meaning(e)[2] = e.primary_rank
        /\ \A i \in 1..Len(e.tiebreakers) : Meaning(e)[i+2] = e.tiebreakers[i]
    <3>1. SaysGroup(e)
      BY <2>0, <2>1, MeaningGrouped
    <3> QED BY <3>1 DEF SaysGroup
  <2>4. 1 \in 1..Len(e.tiebreakers) /\ 1 + 2 = 3
    BY <2>2
  <2> QED BY <1>3, <2>2, <2>3, <2>4, RankNumbers
<1>7. FullHouseRead(C, e, r, q)
  BY <1>2, <1>4, <1>6 DEF FullHouseRead
<1> QED BY <1>2, <1>7

\* An evaluation of one of these ranks names its groups.
Grouped(e) == e.rank \in {Pair, TwoPair, ThreeOfAKind, FullHouse, FourOfAKind}

\* e names a rank and n kickers.
Kicks(C, e, n) ==
  /\ n \in Nat /\ n <= 3 /\ e.primary_rank \in Ranks(C)
  /\ e.tiebreakers = Kickers(C, {e.primary_rank}, n)

\* A rank and the n highest of the others.
Kicked(C, e, r, n, K) ==
  /\ r \in Ranks(C) /\ r \in Nat
  /\ Top(Others(C, r), n, K) /\ K \in SUBSET Deck
  /\ Meaning(e) \in Seq(Nat) /\ Len(Meaning(e)) = n + 2
  /\ Meaning(e)[1] = e.rank /\ Meaning(e)[2] = r
  /\ \A i \in 1..n : Meaning(e)[i+2] = Descending(K)[i]

\* A check that finds a rank takes the n highest cards beside it.
LEMMA KickedReads ==
  ASSUME NEW C, Seven(C), NEW e, Grouped(e), NEW n, Kicks(C, e, n)
  PROVE  \E K : Kicked(C, e, e.primary_rank, n, K)
<1> DEFINE r == e.primary_rank
           rs == {r}
<1>1. C \in SUBSET Deck /\ Cardinality(C) = 7 /\ r \in Nat /\ n \in Nat
  BY CardsAre DEF Seven, Kicks
<1>2. Others(C, r) = Rest(C, {r}) /\ Others(C, r) = {c \in C : RankOf(c) # r}
  BY DEF Others, Rest
<1>3. n <= Cardinality(Rest(C, {r}))
  <2>1. Cardinality(Others(C, r)) = 7 - Count(C, r)
    BY <1>1, <1>2, CountOthers
  <2>2. Count(C, r) \in 0..4
    BY <1>1, CountIs
  <2>3. n <= Cardinality(Others(C, r))
    BY <1>1, <2>1, <2>2 DEF Kicks
  <2> QED BY <1>2, <2>3
<1>9. n <= Cardinality(Rest(C, rs))
  BY <1>3
<1>13. e.tiebreakers = Kickers(C, rs, n)
  BY DEF Kicks
<1>6. e.primary_rank \in Nat
  BY <1>1 DEF r
<1>15. C \in SUBSET Deck /\ n \in Nat
  BY <1>1
<1>16. e.rank \in {Pair, TwoPair, ThreeOfAKind, FullHouse, FourOfAKind}
  BY DEF Grouped
<1> HIDE DEF r, rs
<1>4. PICK K : /\ Top(Rest(C, rs), n, K)
               /\ K \in SUBSET C /\ K \in SUBSET Deck /\ Cardinality(K) = n
               /\ Kickers(C, rs, n) = Descending(K)
  BY <1>15, <1>9, KickersAre
<1>5. e.tiebreakers \in Seq(Nat)
  BY <1>4, <1>13, DescendingIs
<1>10. e.tiebreakers = Descending(K) /\ Len(e.tiebreakers) = n
  BY <1>4, <1>13, DescendingIs
<1>7. /\ Meaning(e) \in Seq(Nat) /\ Len(Meaning(e)) = Len(e.tiebreakers) + 2
      /\ Meaning(e)[1] = e.rank /\ Meaning(e)[2] = e.primary_rank
      /\ \A i \in 1..Len(e.tiebreakers) : Meaning(e)[i+2] = e.tiebreakers[i]
  <2>1. e.rank \in {Pair, TwoPair, ThreeOfAKind, FullHouse, FourOfAKind}
    BY <1>16
  <2>2. e.primary_rank \in Nat
    BY <1>6
  <2>3. SaysGroup(e)
    BY <1>5, <2>1, <2>2, MeaningGrouped
  <2> QED BY <2>3 DEF SaysGroup
<1>8. Top(Others(C, r), n, K)
  BY <1>2, <1>4 DEF rs
<1>11. /\ Meaning(e)[2] = r /\ Len(Meaning(e)) = n + 2
       /\ \A i \in 1..n : Meaning(e)[i+2] = Descending(K)[i]
  BY <1>7, <1>10 DEF r
<1>14. r \in Ranks(C)
  BY DEF r, Kicks
<1>12. Kicked(C, e, r, n, K)
  BY <1>1, <1>4, <1>7, <1>8, <1>11, <1>14 DEF Kicked
<1> QED BY <1>12 DEF r

\* check_three_of_a_kind
LEMMA ThreeReads ==
  ASSUME NEW C, Seven(C), NEW e \in Threes(C)
  PROVE  \E r \in Ranks(C), K \in SUBSET Deck :
           Count(C, r) >= 3 /\ Kicked(C, e, r, 2, K) /\ e.rank = 3
<1>1. PICK r \in RanksCounted(C, 3) : e = Evaluation(ThreeOfAKind, r, Kickers(C, {r}, 2))
  BY DEF Threes
<1>2. r \in Ranks(C) /\ Count(C, r) >= 3
  BY DEF RanksCounted
<1>3. e.rank = ThreeOfAKind /\ e.primary_rank = r /\ e.tiebreakers = Kickers(C, {r}, 2)
  BY <1>1 DEF Evaluation
<1>4. Grouped(e)
  BY <1>3 DEF Grouped
<1> DEFINE n == 2
<1>5. n \in Nat /\ n <= 3 /\ e.tiebreakers = Kickers(C, {r}, n)
  BY <1>3
<1> HIDE DEF n
<1>6. PICK K : Kicked(C, e, r, n, K)
  BY <1>2, <1>3, <1>4, <1>5, KickedReads DEF Kicks
<1>7. K \in SUBSET Deck
  BY <1>6 DEF Kicked
<1> QED BY <1>2, <1>3, <1>6, <1>7, RankNumbers DEF n

\* check_pair
LEMMA PairReads ==
  ASSUME NEW C, Seven(C), NEW e \in Pairs(C)
  PROVE  \E r \in Ranks(C), K \in SUBSET Deck :
           Count(C, r) >= 2 /\ Kicked(C, e, r, 3, K) /\ e.rank = 1
<1>1. PICK r \in RanksCounted(C, 2) : e = Evaluation(Pair, r, Kickers(C, {r}, 3))
  BY DEF Pairs
<1>2. r \in Ranks(C) /\ Count(C, r) >= 2
  BY DEF RanksCounted
<1>3. e.rank = Pair /\ e.primary_rank = r /\ e.tiebreakers = Kickers(C, {r}, 3)
  BY <1>1 DEF Evaluation
<1>4. Grouped(e)
  BY <1>3 DEF Grouped
<1> DEFINE n == 3
<1>5. n \in Nat /\ n <= 3 /\ e.tiebreakers = Kickers(C, {r}, n)
  BY <1>3
<1> HIDE DEF n
<1>6. PICK K : Kicked(C, e, r, n, K)
  BY <1>2, <1>3, <1>4, <1>5, KickedReads DEF Kicks
<1>7. K \in SUBSET Deck
  BY <1>6 DEF Kicked
<1> QED BY <1>2, <1>3, <1>6, <1>7, RankNumbers DEF n

\* The five highest of a set of cards, listed.
Listed(A, e, K) ==
  /\ Top(A, 5, K) /\ K \in SUBSET Deck /\ Cardinality(K) = 5
  /\ Meaning(e) \in Seq(Nat) /\ Len(Meaning(e)) = 6 /\ Meaning(e)[1] = e.rank
  /\ \A i \in 1..5 : Meaning(e)[i+1] = Descending(K)[i]

\* The five highest of some cards, as a check that lists them reads them.
LEMMA ListedReads ==
  ASSUME NEW A \in SUBSET Deck, 5 <= Cardinality(A),
         NEW e, e.rank \in {HighCard, Flush}, e.tiebreakers = Kickers(A, {}, 5)
  PROVE  \E K \in SUBSET A : Listed(A, e, K)
<1> DEFINE n == 5
           none == {}
<1>1. n \in Nat /\ Rest(A, none) = A
  BY DEF Rest
<1>2. e.tiebreakers = Kickers(A, none, n)
  OBVIOUS
<1>3. n <= Cardinality(Rest(A, none))
  BY <1>1
<1> HIDE DEF n, none
<1>4. PICK K : /\ Top(Rest(A, none), n, K)
               /\ K \in SUBSET A /\ K \in SUBSET Deck /\ Cardinality(K) = n
               /\ Kickers(A, none, n) = Descending(K)
  BY <1>1, <1>3, KickersAre
<1>5. /\ e.tiebreakers = Descending(K) /\ e.tiebreakers \in Seq(Nat)
      /\ Len(e.tiebreakers) = n
  BY <1>2, <1>4, DescendingIs
<1>7. /\ Meaning(e) \in Seq(Nat) /\ Len(Meaning(e)) = Len(e.tiebreakers) + 1
      /\ Meaning(e)[1] = e.rank
      /\ \A i \in 1..Len(e.tiebreakers) : Meaning(e)[i+1] = e.tiebreakers[i]
  BY <1>5, MeaningListed
<1>8. /\ Len(Meaning(e)) = n + 1
      /\ \A i \in 1..n : Meaning(e)[i+1] = Descending(K)[i]
  BY <1>5, <1>7
<1>9. Top(A, n, K) /\ K \in SUBSET A
  <2>1. Top(A, n, K)
    BY <1>1, <1>4
  <2> QED BY <2>1 DEF Top
<1>11. /\ Top(A, 5, K) /\ Cardinality(K) = 5 /\ Len(Meaning(e)) = 6
       /\ \A i \in 1..5 : Meaning(e)[i+1] = Descending(K)[i]
  BY <1>4, <1>8, <1>9 DEF n
<1>10. Listed(A, e, K)
  BY <1>4, <1>7, <1>11 DEF Listed
<1> QED BY <1>9, <1>10

\* check_high_card
LEMMA HighCardReads ==
  ASSUME NEW C, Seven(C), NEW e \in HighCards(C)
  PROVE  \E K \in SUBSET C : Listed(C, e, K) /\ e.rank = 0
<1>1. e.rank = HighCard /\ e.tiebreakers = Kickers(C, {}, 5)
  BY DEF HighCards, Evaluation
<1>2. e.rank \in {HighCard, Flush}
  BY <1>1
<1>3. C \in SUBSET Deck /\ 5 <= Cardinality(C)
  BY DEF Seven
<1>4. PICK K \in SUBSET C : Listed(C, e, K)
  BY <1>1, <1>2, <1>3, ListedReads
<1> QED BY <1>1, <1>4, RankNumbers

\* The ranks of a flush are the five highest of a suit.
LEMMA FlushRanksAre ==
  ASSUME NEW C, Seven(C), NEW ranks \in FlushRanks(C)
  PROVE  \E suit \in Suits : /\ 5 <= Cardinality(OfSuit(C, suit))
                             /\ ranks = Kickers(OfSuit(C, suit), {}, 5)
<1>1. PICK suited \in {s \in {{c \in C : SuitOf(c) = suit} : suit \in {SuitOf(c) : c \in C}} :
                         Cardinality(s) >= 5} : ranks = Kickers(suited, {}, 5)
  BY DEF FlushRanks
<1>2. PICK suit \in {SuitOf(c) : c \in C} : suited = {c \in C : SuitOf(c) = suit}
  BY <1>1
<1>3. suit \in Suits
  BY CardsAre DEF Seven
<1>4. Cardinality(suited) \in Nat /\ Cardinality(suited) >= 5
  BY <1>1, <1>2, CardsAre, PartOf DEF Seven
<1>5. suited = OfSuit(C, suit)
  BY <1>2 DEF OfSuit
<1> QED BY <1>1, <1>3, <1>4, <1>5

\* check_flush
LEMMA FlushReads ==
  ASSUME NEW C, Seven(C), NEW e \in Flushes(C)
  PROVE  \E suit \in Suits, K \in SUBSET C :
           /\ K \in SUBSET OfSuit(C, suit) /\ Listed(OfSuit(C, suit), e, K) /\ e.rank = 5
<1>1. PICK ranks \in FlushRanks(C) : e = Evaluation(Flush, ranks[1], ranks)
  BY DEF Flushes
<1>2. PICK suit \in Suits : /\ 5 <= Cardinality(OfSuit(C, suit))
                            /\ ranks = Kickers(OfSuit(C, suit), {}, 5)
  BY FlushRanksAre
<1>3. e.rank = Flush /\ e.tiebreakers = Kickers(OfSuit(C, suit), {}, 5)
  BY <1>1, <1>2 DEF Evaluation
<1>4. e.rank \in {HighCard, Flush}
  BY <1>3
<1>5. OfSuit(C, suit) \in SUBSET Deck /\ OfSuit(C, suit) \in SUBSET C
  BY DEF Seven, OfSuit
<1>6. PICK K \in SUBSET OfSuit(C, suit) : Listed(OfSuit(C, suit), e, K)
  BY <1>2, <1>3, <1>4, <1>5, ListedReads
<1>7. K \in SUBSET C
  BY <1>5
<1> QED BY <1>3, <1>6, <1>7, RankNumbers

\* The two highest ranks of at least two cards, and the highest of the others.
TwoPairRead(C, e, h, l, k) ==
  /\ h \in Nat /\ l \in Nat /\ l < h /\ Count(C, h) >= 2 /\ Count(C, l) >= 2
  /\ \A r \in Ranks(C) : Count(C, r) >= 2 => r <= h /\ (r # h => r <= l)
  /\ k \in Ranks(C) \ {h, l} /\ k \in Nat
  /\ \A r \in Ranks(C) \ {h, l} : r <= k
  /\ Meaning(e) \in Seq(Nat) /\ Len(Meaning(e)) = 4 /\ Meaning(e)[1] = 2
  /\ Meaning(e)[2] = h /\ Meaning(e)[3] = l /\ Meaning(e)[4] = k
  /\ e.primary_rank \in Nat /\ e.tiebreakers \in Seq(Nat)

\* check_two_pair
LEMMA TwoPairReads ==
  ASSUME NEW C, Seven(C), Fours(C) = {}, NEW e \in TwoPairs(C)
  PROVE  \E h, l, k \in Ranks(C) : TwoPairRead(C, e, h, l, k)
<1> DEFINE pairs == RanksCounted(C, 2)
           h == Max(pairs)
           l == Max(pairs \ {h})
           k == Highest(Ranks(C) \ {h, l})
<1>1. C \in SUBSET Deck /\ Cardinality(C) = 7 /\ Ranks(C) \in SUBSET (2..14)
  BY CardsAre DEF Seven
<1>2. ~(Cardinality(pairs) < 2) /\ e = Evaluation(TwoPair, h, <<l, k>>)
  BY DEF TwoPairs
<1>3. /\ pairs \in SUBSET (2..14) /\ pairs \in SUBSET Ranks(C)
      /\ \A r \in Ranks(C) : r \in pairs <=> Count(C, r) >= 2
  BY <1>1 DEF RanksCounted
<1>4. e.rank = TwoPair /\ e.primary_rank = h /\ e.tiebreakers = <<l, k>>
  BY <1>2 DEF Evaluation
<1> HIDE DEF pairs
<1>5. pairs # {} /\ pairs \ {h} # {}
  <2>1. ASSUME pairs = {} PROVE FALSE
    <3>1. Cardinality(pairs) = 0
      BY <2>1, FS_EmptySet
    <3> QED BY <1>2, <3>1
  <2>2. ASSUME NEW x, pairs = {x} PROVE FALSE
    <3>1. Cardinality(pairs) = 1
      BY <2>2, FS_Singleton
    <3> QED BY <1>2, <3>1
  <2>3. pairs # {} /\ \A x : pairs # {x}
    BY <2>1, <2>2
  <2> HIDE DEF h
  <2> QED BY <2>3
<1>6. h \in pairs /\ \A x \in pairs : x <= h
  BY <1>3, <1>5, MaxRank
<1> HIDE DEF h
<1>7. l \in pairs \ {h} /\ \A x \in pairs \ {h} : x <= l
  <2>1. pairs \ {h} \in SUBSET (2..14)
    BY <1>3
  <2> QED BY <1>5, <2>1, MaxRank
<1> HIDE DEF l
<1>8. /\ h \in Ranks(C) /\ l \in Ranks(C) /\ h \in Nat /\ l \in Nat /\ l < h
      /\ Count(C, h) >= 2 /\ Count(C, l) >= 2
  <2>1. h \in 2..14 /\ l \in 2..14 /\ l <= h /\ l # h
    BY <1>3, <1>6, <1>7
  <2> QED BY <1>3, <1>6, <1>7, <2>1
<1>9. Ranks(C) \ {h, l} # {}
  <2>1. \A r \in Ranks(C) : Count(C, r) \in 0..3
    <3>1. \A r \in Ranks(C) : ~(Count(C, r) >= 4)
      BY DEF Fours, RanksCounted
    <3> QED BY <1>1, <3>1, CountIs
  <2> DEFINE A == {c \in C : RankOf(c) # h}
             B == {c \in A : RankOf(c) # l}
  <2>2. /\ A \in SUBSET Deck /\ Cardinality(A) = 7 - Count(C, h)
        /\ Count(A, l) = Count(C, l) /\ Ranks(A) = Ranks(C) \ {h}
    BY <1>1, <1>8, CountOthers
  <2> HIDE DEF A
  <2>3. /\ Cardinality(B) = Cardinality(A) - Count(A, l)
        /\ Ranks(B) = Ranks(A) \ {l}
    BY <2>2, CountOthers
  <2>4. Count(C, h) \in 0..3 /\ Count(C, l) \in 0..3
    BY <1>8, <2>1
  <2> HIDE DEF B
  <2>5. Cardinality(B) # 0
    BY <2>2, <2>3, <2>4
  <2>6. B # {}
    BY <2>5, FS_EmptySet
  <2>7. Ranks(B) # {}
    BY <2>6 DEF Ranks
  <2> QED BY <2>2, <2>3, <2>7
<1>10. /\ k \in Ranks(C) \ {h, l} /\ k \in Nat
       /\ \A r \in Ranks(C) \ {h, l} : r <= k
  <2>1. Ranks(C) \ {h, l} \in SUBSET (2..14)
    BY <1>1
  <2>2. k \in Ranks(C) \ {h, l} /\ \A r \in Ranks(C) \ {h, l} : r <= k
    BY <1>9, <2>1, HighestIs
  <2> HIDE DEF k
  <2> QED BY <2>1, <2>2
<1> HIDE DEF k
<1>11. e.rank \in {Pair, TwoPair, ThreeOfAKind, FullHouse, FourOfAKind}
  BY <1>4
<1>12. e.primary_rank \in Nat
  BY <1>4, <1>8
<1>13. e.tiebreakers \in Seq(Nat)
  BY <1>4, <1>8, <1>10
<1>14. /\ Meaning(e) \in Seq(Nat) /\ Len(Meaning(e)) = Len(e.tiebreakers) + 2
       /\ Meaning(e)[1] = e.rank /\ Meaning(e)[2] = e.primary_rank
       /\ \A i \in 1..Len(e.tiebreakers) : Meaning(e)[i+2] = e.tiebreakers[i]
  <2>1. SaysGroup(e)
    BY <1>11, <1>12, <1>13, MeaningGrouped
  <2> QED BY <2>1 DEF SaysGroup
<1>15. Len(e.tiebreakers) = 2 /\ e.tiebreakers[1] = l /\ e.tiebreakers[2] = k
  BY <1>4
<1>16. 1 \in 1..Len(e.tiebreakers) /\ 2 \in 1..Len(e.tiebreakers) /\ 1 + 2 = 3 /\ 2 + 2 = 4
  BY <1>15
<1>17. /\ Meaning(e) \in Seq(Nat) /\ Len(Meaning(e)) = 4 /\ Meaning(e)[1] = 2
       /\ Meaning(e)[2] = h /\ Meaning(e)[3] = l /\ Meaning(e)[4] = k
  BY <1>4, <1>14, <1>15, <1>16, RankNumbers
<1>18. \A r \in Ranks(C) : Count(C, r) >= 2 => r <= h /\ (r # h => r <= l)
  BY <1>3, <1>6, <1>7
<1>19. TwoPairRead(C, e, h, l, k)
  BY <1>8, <1>10, <1>12, <1>13, <1>17, <1>18 DEF TwoPairRead
<1> QED BY <1>8, <1>10, <1>19

\* The wheel, or the highest of the runs.
RunOf(S, m) ==
  \/ Wheel \subseteq S /\ m = 5
  \/ /\ ~(Wheel \subseteq S) /\ m \in S /\ \A i \in 1..4 : m - i \in S
     /\ \A t \in S : (\A i \in 1..4 : t - i \in S) => t <= m

\* check_straight_from_cards: the ranks hold a run up to the rank it says.
LEMMA StraightsRead ==
  ASSUME NEW S \in SUBSET (2..14), NEW e \in Straights(S)
  PROVE  e.rank = Straight /\ e.primary_rank \in Nat /\ RunOf(S, e.primary_rank)
<1> DEFINE tops == {r \in S : \A i \in 1..4 : r - i \in S}
           top == Max(tops)
<1>1. CASE Wheel \subseteq S
  <2>1. e = Evaluation(Straight, 5, <<5, 4, 3, 2, 1>>)
    BY <1>1 DEF Straights
  <2>2. e.rank = Straight /\ e.primary_rank = 5
    BY <2>1 DEF Evaluation
  <2> QED BY <1>1, <2>2 DEF RunOf
<1>2. CASE ~(Wheel \subseteq S)
  <2>1. tops # {} /\ e = Evaluation(Straight, top, <<top>>)
    BY <1>2 DEF Straights
  <2>2. e.rank = Straight /\ e.primary_rank = top
    BY <2>1 DEF Evaluation
  <2>3. top \in tops /\ \A x \in tops : x <= top
    <3>1. tops \in SUBSET (2..14)
      OBVIOUS
    <3> HIDE DEF tops
    <3> QED BY <2>1, <3>1, MaxRank
  <2> HIDE DEF top
  <2>4. top \in S /\ top \in Nat
    BY <2>3
  <2> QED BY <1>2, <2>2, <2>3, <2>4 DEF RunOf
<1> QED BY <1>1, <1>2

\* check_straight
LEMMA StraightReads ==
  ASSUME NEW C, Seven(C), NEW e \in Straights(Ranks(C))
  PROVE  \E m \in Nat :
           /\ RunOf(Ranks(C), m)
           /\ Meaning(e) \in Seq(Nat) /\ Len(Meaning(e)) = 2
           /\ Meaning(e)[1] = 4 /\ Meaning(e)[2] = m
<1>1. Ranks(C) \in SUBSET (2..14)
  BY CardsAre DEF Seven
<1>2. /\ e.rank = Straight /\ e.primary_rank \in Nat /\ RunOf(Ranks(C), e.primary_rank)
  BY <1>1, StraightsRead
<1>3. e.rank \in {Straight, StraightFlush}
  BY <1>2
<1>4. /\ Meaning(e) \in Seq(Nat) /\ Len(Meaning(e)) = 2
      /\ Meaning(e)[1] = e.rank /\ Meaning(e)[2] = e.primary_rank
  BY <1>2, <1>3, MeaningRun
<1> QED BY <1>2, <1>4, RankNumbers

\* Every rank has its place.
LEMMA DescendingTakesAll ==
  ASSUME NEW A \in SUBSET Deck
  PROVE  {Descending(A)[i] : i \in 1..Cardinality(A)} = Ranks(A)
<1>1. \A i \in 1..Cardinality(A) : Descending(A)[i] \in Ranks(A)
  BY DescendingIs
<1>2. ASSUME NEW r \in Ranks(A)
      PROVE  \E i \in 1..Cardinality(A) : Descending(A)[i] = r
  <2> DEFINE i == AtLeast(A, r)
  <2>1. r \in Int /\ Count(A, r) >= 1 /\ Count(A, r) \in 0..4
    BY <1>2, CardsAre, CountIs
  <2>2. Above(A, r) \in Nat /\ i \in Nat /\ i = Above(A, r) + Count(A, r)
    BY <2>1, AboveAtLeast
  <2>3. i <= Cardinality(A)
    <3>1. {c \in A : RankOf(c) >= r} \in SUBSET A
      OBVIOUS
    <3> QED BY <3>1, CardsAre, PartOf DEF AtLeast
  <2> HIDE DEF i
  <2>4. i \in 1..Cardinality(A) /\ Above(A, r) < i
    BY <2>1, <2>2, <2>3, CardsAre
  <2>5. i <= AtLeast(A, r)
    BY <2>2 DEF i
  <2> QED BY <2>1, <2>4, <2>5, DescendingOnly
<1> QED BY <1>1, <1>2

\* A run of the five highest cards of a suit.
LEMMA StraightFlushReads ==
  ASSUME NEW C, Seven(C), NEW e \in StraightFlushes(C)
  PROVE  \E suit \in Suits, K \in SUBSET C, m \in Nat :
           /\ K \in SUBSET OfSuit(C, suit) /\ Top(OfSuit(C, suit), 5, K)
           /\ 5 <= Cardinality(OfSuit(C, suit))
           /\ K \in SUBSET Deck /\ Cardinality(K) = 5 /\ RunOf(Ranks(K), m)
           /\ Meaning(e) \in Seq(Nat) /\ Len(Meaning(e)) = 2
           /\ Meaning(e)[1] = 8 /\ Meaning(e)[2] = m
<1>1. PICK ranks \in FlushRanks(C) : \E f \in Straights({ranks[i] : i \in 1..5}) :
        e = Evaluation(StraightFlush, f.primary_rank, <<f.primary_rank>>)
  BY DEF StraightFlushes
<1>2. PICK f \in Straights({ranks[i] : i \in 1..5}) :
        e = Evaluation(StraightFlush, f.primary_rank, <<f.primary_rank>>)
  BY <1>1
<1>3. PICK suit \in Suits : /\ 5 <= Cardinality(OfSuit(C, suit))
                            /\ ranks = Kickers(OfSuit(C, suit), {}, 5)
  BY FlushRanksAre
<1> DEFINE n == 5
           none == {}
           A == OfSuit(C, suit)
<1>4. A \in SUBSET Deck /\ A \in SUBSET C /\ Rest(A, none) = A
  BY DEF Seven, OfSuit, Rest
<1>5. n \in Nat /\ n <= Cardinality(Rest(A, none)) /\ ranks = Kickers(A, none, n)
  BY <1>3, <1>4
<1> HIDE DEF n, none, A
<1>6. PICK K : /\ Top(Rest(A, none), n, K)
               /\ K \in SUBSET A /\ K \in SUBSET Deck /\ Cardinality(K) = n
               /\ Kickers(A, none, n) = Descending(K)
  BY <1>4, <1>5, KickersAre
<1>7. ranks = Descending(K)
  BY <1>5, <1>6
<1>8. {Descending(K)[i] : i \in 1..Cardinality(K)} = Ranks(K) /\ Ranks(K) \in SUBSET (2..14)
  BY <1>6, DescendingTakesAll, CardsAre
<1>9. f \in Straights(Ranks(K))
  <2>1. {ranks[i] : i \in 1..5} = Ranks(K)
    BY <1>6, <1>7, <1>8 DEF n
  <2> QED BY <1>2, <2>1
<1>10. f.primary_rank \in Nat /\ RunOf(Ranks(K), f.primary_rank)
  BY <1>8, <1>9, StraightsRead
<1>11. e.rank = StraightFlush /\ e.primary_rank = f.primary_rank
  BY <1>2 DEF Evaluation
<1>12. e.rank \in {Straight, StraightFlush} /\ e.primary_rank \in Nat
  BY <1>10, <1>11
<1>13. /\ Meaning(e) \in Seq(Nat) /\ Len(Meaning(e)) = 2
       /\ Meaning(e)[1] = e.rank /\ Meaning(e)[2] = e.primary_rank
  BY <1>12, MeaningRun
<1>14. /\ Meaning(e)[1] = 8 /\ Meaning(e)[2] = f.primary_rank
  BY <1>11, <1>13, RankNumbers
<1>15. /\ Top(OfSuit(C, suit), 5, K) /\ Cardinality(K) = 5
       /\ K \in SUBSET OfSuit(C, suit) /\ K \in SUBSET C
  BY <1>4, <1>6 DEF n, A
<1> QED BY <1>3, <1>6, <1>10, <1>13, <1>14, <1>15

-----------------------------------------------------------------------------
(* What the rules say of five cards.                                       *)

\* Ranks that occur once follow each other downwards.
LEMMA RestDescends ==
  ASSUME NEW F \in SUBSET Deck, Cardinality(F) = 5,
         \A i \in 2..Cardinality(Ranks(F)) : Times(F, i) = 1
  PROVE  LET n == Cardinality(Ranks(F))
             K == Others(F, Groups(F)[1])
         IN  /\ n \in 2..5 /\ K \in SUBSET Deck /\ Cardinality(K) = n - 1
             /\ \A i \in 1..(n-1) : Descending(K)[i] = Groups(F)[i+1]
<1> DEFINE n == Cardinality(Ranks(F))
           r == Groups(F)[1]
           K == Others(F, r)
           g == [i \in 1..(n-1) |-> Groups(F)[i+1]]
<1>1. n \in 2..5 /\ Times(F, 1) = 6 - n
  <2>1. \A i \in 2..n : Times(F, i) = 1
    OBVIOUS
  <2>2. \/ n = 2 /\ Times(F, 1) + Times(F, 2) = 5
        \/ n = 3 /\ Times(F, 1) + Times(F, 2) + Times(F, 3) = 5
        \/ n = 4 /\ Times(F, 1) + Times(F, 2) + Times(F, 3) + Times(F, 4) = 5
        \/ n = 5 /\ \A i \in 1..5 : Times(F, i) = 1
    BY TimesSum
  <2> HIDE DEF n
  <2>3. CASE n = 2
    <3>1. Times(F, 2) = 1
      BY <2>1, <2>3
    <3>2. Times(F, 1) \in Int
      <4>1. 1 \in 1..n
        BY <2>3
      <4> QED BY <4>1, TimesFall DEF n
    <3> QED BY <2>2, <2>3, <3>1, <3>2
  <2>4. CASE n = 3
    <3>1. Times(F, 2) = 1 /\ Times(F, 3) = 1
      BY <2>1, <2>4
    <3>2. Times(F, 1) \in Int
      <4>1. 1 \in 1..n
        BY <2>4
      <4> QED BY <4>1, TimesFall DEF n
    <3> QED BY <2>2, <2>4, <3>1, <3>2
  <2>5. CASE n = 4
    <3>1. Times(F, 2) = 1 /\ Times(F, 3) = 1 /\ Times(F, 4) = 1
      BY <2>1, <2>5
    <3>2. Times(F, 1) \in Int
      <4>1. 1 \in 1..n
        BY <2>5
      <4> QED BY <4>1, TimesFall DEF n
    <3> QED BY <2>2, <2>5, <3>1, <3>2
  <2>6. CASE n = 5
    <3>1. Times(F, 1) = 1
      BY <2>2, <2>6
    <3> QED BY <2>6, <3>1
  <2> QED BY <2>2, <2>3, <2>4, <2>5, <2>6
<1>2. K \in SUBSET Deck /\ Cardinality(K) = n - 1 /\ Ranks(K) = Ranks(F) \ {r}
  <2>1. /\ K \in SUBSET Deck /\ Cardinality(K) = Cardinality(F) - Count(F, r)
        /\ Ranks(K) = Ranks(F) \ {r}
    BY CountOthers DEF Others
  <2>2. Count(F, r) = 6 - n
    BY <1>1 DEF Times
  <2> HIDE DEF K, n, r
  <2> QED BY <1>1, <2>1, <2>2
<1>3. \A i \in 1..n : Groups(F)[i] \in Ranks(F)
  BY GroupsAre
<1>4. \A i, j \in 1..n : i < j =>
        /\ Times(F, j) = Times(F, i) => Groups(F)[j] < Groups(F)[i]
        /\ Groups(F)[i] # Groups(F)[j]
  BY TimesFall
<1> HIDE DEF n, K
<1>5. \A i \in 1..(n-1) : i + 1 \in 2..n /\ i + 1 \in 1..n /\ 1 < i + 1 /\ 1 \in 1..n
  BY <1>1
<1>6. g \in [1..Cardinality(K) -> Ranks(K)]
  BY <1>2, <1>3, <1>4, <1>5
<1>7. \A i, j \in 1..(n-1) : i < j => g[j] < g[i]
  <2>1. \A i \in 1..(n-1) : Times(F, i+1) = 1
    BY <1>5 DEF n
  <2>2. \A i, j \in 1..(n-1) : i < j => i + 1 < j + 1
    BY <1>1
  <2> QED BY <1>4, <1>5, <2>1, <2>2
<1>8. \A i \in 1..(n-1) : g[i] = Groups(F)[i+1]
  OBVIOUS
<1> HIDE DEF g
<1>9. \A i \in 1..Cardinality(K) : Descending(K)[i] = g[i]
  <2>1. \A i, j \in 1..Cardinality(K) : i < j => g[j] < g[i]
    BY <1>2, <1>7
  <2> QED BY <1>2, <1>6, <2>1, FallingDescends
<1> QED BY <1>1, <1>2, <1>8, <1>9 DEF n, K

\* Five different ranks are the groups, downwards.
LEMMA AllDescend ==
  ASSUME NEW F \in SUBSET Deck, Cardinality(F) = 5, NoPairShape(F)
  PROVE  \A i \in 1..5 : Descending(F)[i] = Groups(F)[i]
<1> DEFINE g == Groups(F)
<1>1. Cardinality(Ranks(F)) = 5 /\ \A i \in 1..5 : Times(F, i) = 1
  <2>1. \A i \in 1..5 : i = 1 \/ i = 2 \/ i = 3 \/ i = 4 \/ i = 5
    OBVIOUS
  <2> QED BY <2>1, ShapeTimes
<1>2. g \in [1..Cardinality(F) -> Ranks(F)]
  BY <1>1, GroupsAre
<1>3. \A i, j \in 1..Cardinality(F) : i < j => g[j] < g[i]
  BY <1>1, TimesFall
<1> HIDE DEF g
<1>4. \A i \in 1..Cardinality(F) : Descending(F)[i] = g[i]
  BY <1>2, <1>3, FallingDescends
<1> QED BY <1>4 DEF g

\* The wheel is five ranks.
LEMMA WheelCounts ==
  Cardinality(Wheel) = 5
<1>1. Wheel = {14} \cup (2..5)
  BY DEF Wheel
<1> DEFINE low == 2
           high == 5
           ace == 14
           run == low..high
<1>2. low \in Int /\ high \in Int /\ high - low + 1 = 4 /\ low <= high
  OBVIOUS
<1>3. ace \notin run /\ Wheel = run \cup {ace}
  BY <1>1
<1> HIDE DEF low, high, ace
<1>4. IsFiniteSet(run) /\ Cardinality(run) = 4
  BY <1>2, FS_Interval
<1> HIDE DEF run
<1>5. Cardinality(run \cup {ace}) = Cardinality(run) + 1
  BY <1>3, <1>4, FS_AddElement
<1> QED BY <1>3, <1>4, <1>5

\* A run by its ranks.
LEMMA RunRule ==
  ASSUME NEW F \in SUBSET Deck, Cardinality(F) = 5
  PROVE  /\ Wheel \subseteq Ranks(F) => Ranks(F) = Wheel /\ IsStraight(F)
         /\ \A m \in Ranks(F) : (\A i \in 1..4 : m - i \in Ranks(F)) =>
              IsStraight(F) /\ Ranks(F) # Wheel /\ Groups(F)[1] = m
         /\ IsStraight(F) /\ Ranks(F) # Wheel =>
              /\ Groups(F)[1] \in Ranks(F)
              /\ \A i \in 1..4 : Groups(F)[1] - i \in Ranks(F)
<1>1. Ranks(F) \in SUBSET (2..14) /\ IsFiniteSet(Ranks(F)) /\ Cardinality(Ranks(F)) \in 2..5
  <2>1. Cardinality(Ranks(F)) \in 2..5
    BY TimesSum
  <2> QED BY <2>1, CardsAre
<1> DEFINE S == Ranks(F)
<1> HIDE DEF S
<1>2. \A A \in SUBSET S : Cardinality(A) = 5 => A = S /\ Cardinality(S) = 5
  <2> SUFFICES ASSUME NEW A \in SUBSET S, Cardinality(A) = 5 PROVE A = S /\ Cardinality(S) = 5
    OBVIOUS
  <2>1. Cardinality(A) <= Cardinality(S) /\ (Cardinality(S) = Cardinality(A) => A = S)
    BY <1>1, PartOf DEF S
  <2> QED BY <1>1, <2>1 DEF S
<1>3. Cardinality(Wheel) = 5
  BY WheelCounts
<1>4. ASSUME Wheel \subseteq S PROVE S = Wheel /\ IsStraight(F)
  <2>1. S = Wheel /\ Cardinality(S) = 5
    BY <1>2, <1>3, <1>4
  <2> QED BY <2>1 DEF S, IsStraight
<1>5. ASSUME IsStraight(F)
      PROVE  /\ Groups(F)[1] \in S /\ \A r \in S : r <= Groups(F)[1]
  <2>1. NoPairShape(F)
    BY <1>5, RuleShapes
  <2>2. Cardinality(S) = 5 /\ \A i \in 1..5 : Times(F, i) = 1
    <3>1. \A i \in 1..5 : i = 1 \/ i = 2 \/ i = 3 \/ i = 4 \/ i = 5
      OBVIOUS
    <3> QED BY <2>1, <3>1, ShapeTimes DEF S
  <2>3. 1 \in 1..Cardinality(S)
    BY <2>2
  <2>4. Groups(F)[1] \in S
    BY <2>3, GroupsAre DEF S
  <2>5. ASSUME NEW r \in S PROVE r <= Groups(F)[1]
    <3>1. PICK i \in 1..Cardinality(S) : Groups(F)[i] = r
      BY GroupsAre DEF S
    <3>2. CASE i = 1
      BY <1>1, <2>4, <3>1, <3>2 DEF S
    <3>3. CASE i # 1
      <4>1. 1 < i /\ i \in 1..5 /\ Times(F, i) = Times(F, 1)
        BY <2>2, <3>1, <3>3
      <4>2. Groups(F)[i] < Groups(F)[1]
        BY <2>3, <3>1, <4>1, TimesFall DEF S
      <4> QED BY <1>1, <2>4, <3>1, <4>2 DEF S
    <3> QED BY <3>2, <3>3
  <2> QED BY <2>4, <2>5
<1>6. ASSUME NEW m \in S, \A i \in 1..4 : m - i \in S
      PROVE  IsStraight(F) /\ S # Wheel /\ Groups(F)[1] = m
  <2>1. m \in 2..14
    BY <1>1 DEF S
  <2>2. (m-4)..m \in SUBSET S
    <3> SUFFICES ASSUME NEW x \in (m-4)..m PROVE x \in S
      OBVIOUS
    <3>1. x = m \/ m - x \in 1..4
      BY <2>1
    <3>2. m - (m - x) = x
      BY <2>1
    <3> QED BY <1>6, <3>1, <3>2
  <2>3. Cardinality((m-4)..m) = 5
    <3>1. m - 4 \in Int /\ m \in Int /\ m - 4 <= m
      BY <2>1
    <3>2. Cardinality((m-4)..m) = m - (m-4) + 1
      BY <3>1, FS_Interval
    <3> QED BY <2>1, <3>2
  <2>4. S = (m-4)..m /\ Cardinality(S) = 5
    BY <1>2, <2>2, <2>3
  <2>5. \E x \in S : \A y \in S : x >= y
    BY SMTT(30), <2>1, <2>4
  <2>6. Max(S) = m /\ Min(S) = m - 4
    <3>1. m \in S /\ m - 4 \in S /\ \A y \in S : y <= m /\ y >= m - 4
      BY <2>1, <2>4
    <3>2. \A x \in S : (\A y \in S : x >= y) => x = m
      BY <1>1, <3>1 DEF S
    <3>3. \A x \in S : (\A y \in S : x <= y) => x = m - 4
      BY <1>1, <2>1, <3>1 DEF S
    <3>4. Max(S) = m
      BY <3>1, <3>2 DEF Max
    <3>5. Min(S) = m - 4
      BY <3>1, <3>3 DEF Min
    <3> QED BY <3>4, <3>5
  <2>7. IsStraight(F)
    BY <2>1, <2>4, <2>6 DEF IsStraight, S
  <2>8. S # Wheel
    <3>1. ASSUME S = Wheel PROVE FALSE
      <4>1. 14 \in S /\ 2 \in S
        BY <3>1 DEF Wheel
      <4> QED BY <2>1, <2>4, <4>1
    <3> QED BY <3>1
  <2>9. Groups(F)[1] = m
    <3>1. Groups(F)[1] \in S /\ m <= Groups(F)[1]
      BY <1>5, <2>7
    <3> QED BY <2>1, <2>4, <3>1
  <2> QED BY <2>7, <2>8, <2>9
<1>7. ASSUME IsStraight(F), S # Wheel
      PROVE  /\ Groups(F)[1] \in S /\ \A i \in 1..4 : Groups(F)[1] - i \in S
  <2> DEFINE m == Groups(F)[1]
             low == Min(S)
  <2>1. m \in S /\ \A r \in S : r <= m
    BY <1>5, <1>7
  <2>2. Cardinality(S) = 5 /\ Max(S) - Min(S) = 4
    BY <1>7 DEF S, IsStraight
  <2> HIDE DEF m
  <2>3. Max(S) = m
    <3>1. \A x \in S : (\A y \in S : x >= y) => x = m
      BY <1>1, <2>1 DEF S
    <3> QED BY <1>1, <2>1, <3>1 DEF Max, S
  <2>4. low \in S /\ \A x \in S : low <= x
    <3>1. S \in SUBSET Nat /\ S # {}
      BY <1>1, <2>1 DEF S
    <3>2. \E x \in S : \A y \in S : x <= y
      BY <3>1, LeastNat
    <3> QED BY <3>2 DEF Min
  <2> HIDE DEF low
  <2>5. m \in 2..14 /\ low = m - 4
    <3>1. m \in 2..14 /\ low \in 2..14
      BY <1>1, <2>1, <2>4 DEF S
    <3>2. m - low = 4
      BY <2>2, <2>3 DEF low
    <3> QED BY <3>1, <3>2
  <2>6. S \in SUBSET ((m-4)..m)
    BY <1>1, <2>1, <2>4, <2>5 DEF S
  <2>7. IsFiniteSet((m-4)..m) /\ Cardinality((m-4)..m) = 5
    <3>1. m - 4 \in Int /\ m \in Int /\ m - 4 <= m
      BY <2>5
    <3>2. IsFiniteSet((m-4)..m) /\ Cardinality((m-4)..m) = m - (m-4) + 1
      BY <3>1, FS_Interval
    <3> QED BY <2>5, <3>2
  <2>8. S = (m-4)..m
    BY <2>2, <2>6, <2>7, PartOf
  <2>9. \A i \in 1..4 : m - i \in (m-4)..m
    BY <2>5
  <2> QED BY <2>1, <2>8, <2>9 DEF m
<1> QED BY <1>4, <1>6, <1>7 DEF S

-----------------------------------------------------------------------------
(* Every evaluation has five cards that make it, or more.                  *)

\* Some five of the cards are as good as e says, or of a higher category.
Made(C, e) ==
  \E F \in SUBSET C :
    /\ Cardinality(F) = 5
    /\ Meaning(e)[1] < RuleOf(F)[1] \/ RuleOf(F) = Meaning(e)

\* T of a rank and K of the others.
FiveParts(C, r, T, K) == Parts(C, r, T, K) /\ Cardinality(T) + Cardinality(K) = 5

\* Parts of five cards in all are five cards of the hand.
LEMMA FiveOf ==
  ASSUME NEW C, Seven(C), NEW r, NEW T, NEW K, FiveParts(C, r, T, K)
  PROVE  \E F \in SUBSET C :
           /\ F = T \cup K /\ F \in SUBSET Deck /\ Cardinality(F) = 5
           /\ Count(F, r) = Cardinality(T) /\ Others(F, r) = K
           /\ \A q : q # r => Count(F, q) = Count(K, q)
           /\ Ranks(K) \in SUBSET Ranks(F)
           /\ RuleOf(F) \in Seq(Nat) /\ Len(RuleOf(F)) >= 1
<1> DEFINE F == T \cup K
<1>1. C \in SUBSET Deck
  BY DEF Seven
<1>2. /\ Cardinality(F) = Cardinality(T) + Cardinality(K)
      /\ Count(F, r) = Cardinality(T) /\ Others(F, r) = K
  <2>1. Parts(C, r, T, K)
    BY DEF FiveParts
  <2> QED BY <1>1, <2>1, Joined
<1>7. F \in SUBSET C
  BY DEF FiveParts, Parts, OfRank, Others
<1>8. \A q : q # r => Count(F, q) = Count(K, q)
  <2>1. \A q : q # r => {c \in F : RankOf(c) = q} = {c \in K : RankOf(c) = q}
    BY DEF FiveParts, Parts, OfRank
  <2> QED BY <2>1 DEF Count
<1>3. Ranks(K) \in SUBSET Ranks(F)
  BY DEF Ranks
<1>4. F = T \cup K
  OBVIOUS
<1> HIDE DEF F
<1>5. F \in SUBSET Deck /\ Cardinality(F) = 5
  BY <1>1, <1>2, <1>7 DEF FiveParts
<1>6. RuleOf(F) \in Seq(Nat) /\ Len(RuleOf(F)) >= 1
  BY <1>5, RuleShapes
<1> QED BY <1>2, <1>3, <1>4, <1>5, <1>6, <1>7, <1>8

\* Three of the same numbers.
LEMMA SameThree ==
  ASSUME NEW s \in Seq(Nat), NEW t \in Seq(Nat), Len(s) = 3, Len(t) = 3,
         s[1] = t[1], s[2] = t[2], s[3] = t[3]
  PROVE  s = t
<1>1. \A i \in 1..3 : i = 1 \/ i = 2 \/ i = 3
  OBVIOUS
<1>2. \A i \in 1..Len(s) : s[i] = t[i]
  BY <1>1
<1> QED BY <1>2, SameSequence

\* Four of a kind with its kicker is made by five of the cards.
LEMMA FourMade ==
  ASSUME NEW C, Seven(C), NEW e \in Fours(C)
  PROVE  Made(C, e)
<1>0. PICK r, k \in Ranks(C) : FourRead(C, e, r, k)
  BY FourReads
<1>1. /\ Count(C, r) = 4 /\ r \in Nat /\ k \in Ranks(C) \ {r} /\ k \in Nat
      /\ Meaning(e) \in Seq(Nat) /\ Len(Meaning(e)) = 3 /\ Meaning(e)[1] = 7
      /\ Meaning(e)[2] = r /\ Meaning(e)[3] = k
  BY <1>0 DEF FourRead
<1> DEFINE T == OfRank(C, r)
<1>2. k \in Ranks(C) /\ k # r
  BY <1>1
<1>3. PICK d \in C : RankOf(d) = k
  BY <1>2 DEF Ranks
<1> DEFINE K == {d}
<1>4. Parts(C, r, T, K) /\ k \in Ranks(K)
  BY <1>2, <1>3 DEF Parts, Others, Ranks
<1>5. Cardinality(T) = 4 /\ Cardinality(K) = 1
  BY <1>1, FS_Singleton DEF Count, OfRank
<1> HIDE DEF T, K
<1>6. PICK F \in SUBSET C :
        /\ F \in SUBSET Deck /\ Cardinality(F) = 5 /\ Count(F, r) = 4
        /\ Ranks(K) \in SUBSET Ranks(F)
  <2>1. FiveParts(C, r, T, K)
    BY <1>4, <1>5 DEF FiveParts
  <2> QED BY <1>4, <1>5, <2>1, FiveOf
<1>7. FourShape(F) /\ Groups(F)[1] = r
  BY <1>6, ShapeByCount
<1>8. Groups(F)[2] = k
  <2>1. k \in Ranks(F)
    BY <1>4, <1>6
  <2>2. PICK i \in 1..Cardinality(Ranks(F)) : Groups(F)[i] = k
    BY <1>6, <2>1, GroupsAre
  <2>3. i = 1 \/ i = 2
    BY <1>7, <2>2, ShapeTimes
  <2> QED BY <1>2, <1>7, <2>2, <2>3
<1>9. /\ RuleOf(F) \in Seq(Nat) /\ Len(RuleOf(F)) = 3
      /\ RuleOf(F)[1] = 7 /\ RuleOf(F)[2] = r /\ RuleOf(F)[3] = k
  <2>1. RuleOf(F) \in Seq(Nat) /\ RuleOf(F)[1] = 7 /\ Lists(F)
    BY <1>6, <1>7, RuleShapes
  <2>2. Cardinality(Ranks(F)) = 2
    BY <1>7, ShapeTimes
  <2> QED BY <1>7, <1>8, <2>1, <2>2 DEF Lists
<1>10. RuleOf(F) = Meaning(e)
  BY <1>1, <1>9, SameThree
<1> QED BY <1>6, <1>10 DEF Made

\* A full house is made by five of the cards.
LEMMA FullHouseMade ==
  ASSUME NEW C, Seven(C), NEW e \in FullHouses(C)
  PROVE  Made(C, e)
<1>0. PICK r, q \in Ranks(C) : FullHouseRead(C, e, r, q)
  BY FullHouseReads
<1>1. /\ r # q /\ Count(C, r) >= 3 /\ Count(C, q) >= 2 /\ r \in Nat /\ q \in Nat
      /\ Meaning(e) \in Seq(Nat) /\ Len(Meaning(e)) = 3 /\ Meaning(e)[1] = 6
      /\ Meaning(e)[2] = r /\ Meaning(e)[3] = q
  BY <1>0 DEF FullHouseRead
<1> DEFINE three == 3
           two == 2
<1>2. C \in SUBSET Deck /\ three \in Nat /\ two \in Nat /\ three <= Count(C, r) /\ two <= Count(C, q)
  <2>1. Count(C, r) \in 0..4 /\ Count(C, q) \in 0..4
    BY CountIs DEF Seven
  <2> QED BY <1>1, <2>1 DEF Seven
<1> HIDE DEF three, two
<1>3. PICK T \in SUBSET OfRank(C, r) : Cardinality(T) = three
  BY <1>2, SomeOfRank
<1>4. PICK K \in SUBSET OfRank(C, q) : Cardinality(K) = two
  BY <1>2, SomeOfRank
<1>5. K \in SUBSET Others(C, r) /\ Count(K, q) = Cardinality(K)
  <2>1. K \in SUBSET Others(C, r)
    BY <1>1 DEF OfRank, Others
  <2>2. {c \in K : RankOf(c) = q} = K
    BY DEF OfRank
  <2> QED BY <2>1, <2>2 DEF Count
<1>6. PICK F \in SUBSET C :
        /\ F \in SUBSET Deck /\ Cardinality(F) = 5 /\ Count(F, r) = three
        /\ \A p : p # r => Count(F, p) = Count(K, p)
        /\ RuleOf(F) \in Seq(Nat) /\ Len(RuleOf(F)) >= 1
  <2>1. Cardinality(T) + Cardinality(K) = 5
    BY <1>3, <1>4 DEF three, two
  <2>2. FiveParts(C, r, T, K)
    BY <1>5, <2>1 DEF FiveParts, Parts
  <2> QED BY <1>3, <2>2, FiveOf
<1>7. Count(F, r) = 3 /\ Count(F, q) = 2
  BY <1>1, <1>4, <1>5, <1>6 DEF three, two
<1>8. FullShape(F) /\ Groups(F)[1] = r /\ Groups(F)[2] = q
  <2>1. (FullShape(F) \/ ThreeShape(F)) /\ Groups(F)[1] = r
    BY <1>6, <1>7, ShapeByCount
  <2>2. \/ FullShape(F) /\ Groups(F)[2] = q
        \/ TwoPairShape(F)
        \/ PairShape(F)
    BY <1>6, <1>7, ShapeByCount
  <2>3. ~TwoPairShape(F) /\ ~PairShape(F)
    BY <2>1, ShapeTimes
  <2> QED BY <2>1, <2>2, <2>3
<1>9. /\ RuleOf(F) \in Seq(Nat) /\ Len(RuleOf(F)) = 3
      /\ RuleOf(F)[1] = 6 /\ RuleOf(F)[2] = r /\ RuleOf(F)[3] = q
  <2>1. RuleOf(F) \in Seq(Nat) /\ RuleOf(F)[1] = 6 /\ Lists(F)
    BY <1>6, <1>8, RuleShapes
  <2>2. Cardinality(Ranks(F)) = 2
    BY <1>8, ShapeTimes
  <2> QED BY <1>8, <2>1, <2>2 DEF Lists
<1>10. RuleOf(F) = Meaning(e)
  BY <1>1, <1>9, SameThree
<1> QED BY <1>6, <1>10 DEF Made

\* A rank and its kickers, whose groups they are.
LEMMA KickedRule ==
  ASSUME NEW C, NEW e, NEW r, NEW n \in Nat, NEW K, Kicked(C, e, r, n, K),
         NEW F \in SUBSET Deck, Cardinality(F) = 5, Others(F, r) = K, Groups(F)[1] = r,
         Cardinality(Ranks(F)) = n + 1, \A i \in 2..Cardinality(Ranks(F)) : Times(F, i) = 1,
         Lists(F), RuleOf(F) \in Seq(Nat), RuleOf(F)[1] = e.rank
  PROVE  RuleOf(F) = Meaning(e)
<1>1. /\ Meaning(e) \in Seq(Nat) /\ Len(Meaning(e)) = n + 2
      /\ Meaning(e)[1] = e.rank /\ Meaning(e)[2] = r
      /\ \A i \in 1..n : Meaning(e)[i+2] = Descending(K)[i]
  BY DEF Kicked
<1>2. \A i \in 1..n : Descending(K)[i] = Groups(F)[i+1]
  <2>1. \A i \in 1..(Cardinality(Ranks(F)) - 1) :
          Descending(Others(F, Groups(F)[1]))[i] = Groups(F)[i+1]
    BY RestDescends
  <2> QED BY <2>1
<1>3. /\ Len(RuleOf(F)) = n + 2
      /\ \A i \in 1..(n+1) : RuleOf(F)[i+1] = Groups(F)[i]
  BY DEF Lists
<1>4. \A i \in 1..(n+2) : RuleOf(F)[i] = Meaning(e)[i]
  <2> SUFFICES ASSUME NEW i \in 1..(n+2) PROVE RuleOf(F)[i] = Meaning(e)[i]
    OBVIOUS
  <2>1. CASE i = 1
    BY <1>1, <2>1
  <2>2. CASE i = 2
    <3>1. 1 \in 1..(n+1) /\ 1 + 1 = 2
      OBVIOUS
    <3>2. RuleOf(F)[2] = Groups(F)[1]
      BY <1>3, <3>1
    <3> QED BY <1>1, <2>2, <3>2
  <2>3. CASE i > 2
    <3>1. /\ i - 2 \in 1..n /\ i - 1 \in 1..(n+1) /\ (i - 2) + 2 = i /\ (i - 1) + 1 = i
          /\ (i - 2) + 1 = i - 1
      BY <2>3
    <3>2. Meaning(e)[i] = Descending(K)[i-2]
      BY <1>1, <3>1
    <3>3. Descending(K)[i-2] = Groups(F)[i-1]
      BY <1>2, <3>1
    <3>4. RuleOf(F)[i] = Groups(F)[i-1]
      BY <1>3, <3>1
    <3> QED BY <3>2, <3>3, <3>4
  <2> QED BY <2>1, <2>2, <2>3
<1>5. RuleOf(F) \in Seq(Nat) /\ Len(RuleOf(F)) = Len(Meaning(e))
  BY <1>1, <1>3
<1>6. \A i \in 1..Len(RuleOf(F)) : RuleOf(F)[i] = Meaning(e)[i]
  BY <1>3, <1>4
<1> QED BY <1>1, <1>5, <1>6, SameSequence

\* Three of a kind with two kickers is made by five of the cards.
LEMMA ThreeMade ==
  ASSUME NEW C, Seven(C), NEW e \in Threes(C)
  PROVE  Made(C, e)
<1> DEFINE three == 3
           n == 2
<1>1. PICK r \in Ranks(C), K \in SUBSET Deck :
        Count(C, r) >= 3 /\ Kicked(C, e, r, n, K) /\ e.rank = 3
  BY ThreeReads
<1>2. three \in Nat /\ n \in Nat /\ three <= Count(C, r) /\ three + n = 5
  <2>1. Count(C, r) \in 0..4
    BY CountIs DEF Seven
  <2> QED BY <1>1, <2>1
<1> HIDE DEF three, n
<1>3. PICK T \in SUBSET OfRank(C, r) : Cardinality(T) = three
  BY <1>2, SomeOfRank DEF Seven
<1>4. K \in SUBSET Others(C, r) /\ Cardinality(K) = n
  BY <1>1 DEF Kicked, Top
<1>5. FiveParts(C, r, T, K)
  BY <1>2, <1>3, <1>4 DEF FiveParts, Parts
<1>6. PICK F \in SUBSET C :
        /\ F \in SUBSET Deck /\ Cardinality(F) = 5 /\ Count(F, r) = three /\ Others(F, r) = K
  BY <1>3, <1>5, FiveOf
<1>7. (FullShape(F) \/ ThreeShape(F)) /\ Groups(F)[1] = r
  BY <1>6, ShapeByCount DEF three
<1>8. CASE FullShape(F)
  <2>1. RuleOf(F)[1] = 6
    BY <1>6, <1>8, RuleShapes
  <2>2. Meaning(e)[1] = 3
    BY <1>1 DEF Kicked
  <2> QED BY <1>6, <2>1, <2>2 DEF Made
<1>9. CASE ThreeShape(F)
  <2>1. RuleOf(F) \in Seq(Nat) /\ RuleOf(F)[1] = e.rank /\ Lists(F)
    BY <1>1, <1>6, <1>9, RuleShapes
  <2>2. Cardinality(Ranks(F)) = 3 /\ Times(F, 2) = 1 /\ Times(F, 3) = 1
    BY <1>9, ShapeTimes
  <2>3. Cardinality(Ranks(F)) = n + 1 /\ \A i \in 2..Cardinality(Ranks(F)) : Times(F, i) = 1
    <3>1. \A i \in 2..3 : i = 2 \/ i = 3
      OBVIOUS
    <3> QED BY <2>2, <3>1 DEF n
  <2>4. RuleOf(F) = Meaning(e)
    BY <1>1, <1>2, <1>6, <1>7, <2>1, <2>3, KickedRule
  <2> QED BY <1>6, <2>4 DEF Made
<1> QED BY <1>7, <1>8, <1>9

\* A pair with three kickers is made by five of the cards.
LEMMA PairMade ==
  ASSUME NEW C, Seven(C), NEW e \in Pairs(C)
  PROVE  Made(C, e)
<1> DEFINE two == 2
           n == 3
<1>1. PICK r \in Ranks(C), K \in SUBSET Deck :
        Count(C, r) >= 2 /\ Kicked(C, e, r, n, K) /\ e.rank = 1
  BY PairReads
<1>2. two \in Nat /\ n \in Nat /\ two <= Count(C, r) /\ two + n = 5
  <2>1. Count(C, r) \in 0..4
    BY CountIs DEF Seven
  <2> QED BY <1>1, <2>1
<1> HIDE DEF two, n
<1>3. PICK T \in SUBSET OfRank(C, r) : Cardinality(T) = two
  BY <1>2, SomeOfRank DEF Seven
<1>4. K \in SUBSET Others(C, r) /\ Cardinality(K) = n
  BY <1>1 DEF Kicked, Top
<1>5. FiveParts(C, r, T, K)
  BY <1>2, <1>3, <1>4 DEF FiveParts, Parts
<1>6. PICK F \in SUBSET C :
        /\ F \in SUBSET Deck /\ Cardinality(F) = 5 /\ Count(F, r) = two /\ Others(F, r) = K
  BY <1>3, <1>5, FiveOf
<1>7. FullShape(F) \/ TwoPairShape(F) \/ (PairShape(F) /\ Groups(F)[1] = r)
  BY <1>6, ShapeByCount DEF two
<1>8. CASE FullShape(F) \/ TwoPairShape(F)
  <2>1. RuleOf(F)[1] = 6 \/ RuleOf(F)[1] = 2
    BY <1>6, <1>8, RuleShapes
  <2>2. Meaning(e)[1] = 1
    BY <1>1 DEF Kicked
  <2> QED BY <1>6, <2>1, <2>2 DEF Made
<1>9. CASE PairShape(F) /\ Groups(F)[1] = r
  <2>1. RuleOf(F) \in Seq(Nat) /\ RuleOf(F)[1] = e.rank /\ Lists(F)
    BY <1>1, <1>6, <1>9, RuleShapes
  <2>2. Cardinality(Ranks(F)) = 4 /\ Times(F, 2) = 1 /\ Times(F, 3) = 1 /\ Times(F, 4) = 1
    BY <1>9, ShapeTimes
  <2>3. Cardinality(Ranks(F)) = n + 1 /\ \A i \in 2..Cardinality(Ranks(F)) : Times(F, i) = 1
    <3>1. \A i \in 2..4 : i = 2 \/ i = 3 \/ i = 4
      OBVIOUS
    <3> QED BY <2>2, <3>1 DEF n
  <2>4. RuleOf(F) = Meaning(e)
    BY <1>1, <1>2, <1>6, <1>9, <2>1, <2>3, KickedRule
  <2> QED BY <1>6, <2>4 DEF Made
<1> QED BY <1>7, <1>8, <1>9

\* Five cards listed downwards, no two of them of a rank.
LEMMA ListedRule ==
  ASSUME NEW A, NEW e, NEW K \in SUBSET Deck, Listed(A, e, K), NoPairShape(K), ~IsStraight(K),
         RuleOf(K)[1] = e.rank
  PROVE  RuleOf(K) = Meaning(e)
<1>1. /\ Cardinality(K) = 5 /\ Meaning(e) \in Seq(Nat) /\ Len(Meaning(e)) = 6
      /\ Meaning(e)[1] = e.rank /\ \A i \in 1..5 : Meaning(e)[i+1] = Descending(K)[i]
  BY DEF Listed
<1>2. RuleOf(K) \in Seq(Nat) /\ Lists(K) /\ Cardinality(Ranks(K)) = 5
  BY <1>1, RuleShapes, ShapeTimes
<1>3. \A i \in 1..5 : Descending(K)[i] = Groups(K)[i]
  BY <1>1, AllDescend
<1>4. Len(RuleOf(K)) = 6 /\ \A i \in 1..5 : RuleOf(K)[i+1] = Groups(K)[i]
  BY <1>2 DEF Lists
<1>5. \A i \in 1..6 : RuleOf(K)[i] = Meaning(e)[i]
  <2> SUFFICES ASSUME NEW i \in 1..6 PROVE RuleOf(K)[i] = Meaning(e)[i]
    OBVIOUS
  <2>1. CASE i = 1
    BY <1>1, <2>1
  <2>2. CASE i # 1
    <3>1. i - 1 \in 1..5 /\ (i - 1) + 1 = i
      BY <2>2
    <3> QED BY <1>1, <1>3, <1>4, <3>1
  <2> QED BY <2>1, <2>2
<1>6. Len(RuleOf(K)) = Len(Meaning(e)) /\ \A i \in 1..Len(RuleOf(K)) : RuleOf(K)[i] = Meaning(e)[i]
  BY <1>1, <1>4, <1>5
<1> QED BY <1>1, <1>2, <1>6, SameSequence

\* The five highest cards make a high card, or more.
LEMMA HighCardMade ==
  ASSUME NEW C, Seven(C), NEW e \in HighCards(C)
  PROVE  Made(C, e)
<1>1. PICK K \in SUBSET C : Listed(C, e, K) /\ e.rank = 0
  BY HighCardReads
<1>2. K \in SUBSET Deck /\ Cardinality(K) = 5 /\ Meaning(e)[1] = 0
  BY <1>1 DEF Listed
<1>3. CASE NoPairShape(K) /\ ~IsStraight(K) /\ ~Suited(K)
  <2>1. RuleOf(K)[1] = e.rank
    BY <1>1, <1>2, <1>3, RuleShapes
  <2>2. RuleOf(K) = Meaning(e)
    BY <1>1, <1>2, <1>3, <2>1, ListedRule
  <2> QED BY <1>2, <2>2 DEF Made
<1>4. CASE ~(NoPairShape(K) /\ ~IsStraight(K) /\ ~Suited(K))
  <2>1. \/ FourShape(K) \/ FullShape(K) \/ ThreeShape(K) \/ TwoPairShape(K) \/ PairShape(K)
        \/ NoPairShape(K)
    BY <1>2, Shapes
  <2>2. RuleOf(K)[1] \in {1, 2, 3, 4, 5, 6, 7, 8}
    BY <1>2, <1>4, <2>1, RuleShapes
  <2> QED BY <1>2, <2>2 DEF Made
<1> QED BY <1>3, <1>4

\* All of the cards of a suit are of that suit.
LEMMA SuitedPart ==
  ASSUME NEW C \in SUBSET Deck, NEW suit \in Suits, NEW K \in SUBSET OfSuit(C, suit),
         Cardinality(K) = 5
  PROVE  Suited(K) /\ K \in SUBSET Deck /\ NoPairShape(K)
<1>1. K \in SUBSET Deck /\ \A c \in K : SuitOf(c) = suit
  BY DEF OfSuit
<1>2. K # {}
  <2>1. 5 # 0
    OBVIOUS
  <2> QED BY <2>1, FS_EmptySet
<1>3. Suited(K)
  BY <1>1, <1>2, SuitedIs
<1> QED BY <1>1, <1>3, RuleShapes

\* The five highest of a suit make a flush, or more.
LEMMA FlushMade ==
  ASSUME NEW C, Seven(C), NEW e \in Flushes(C)
  PROVE  Made(C, e)
<1>1. PICK suit \in Suits, K \in SUBSET C :
        K \in SUBSET OfSuit(C, suit) /\ Listed(OfSuit(C, suit), e, K) /\ e.rank = 5
  BY FlushReads
<1>2. Cardinality(K) = 5 /\ Meaning(e)[1] = 5
  BY <1>1 DEF Listed
<1>3. Suited(K) /\ K \in SUBSET Deck /\ NoPairShape(K)
  BY <1>1, <1>2, SuitedPart DEF Seven
<1>4. CASE IsStraight(K)
  <2>1. RuleOf(K)[1] = 8
    BY <1>2, <1>3, <1>4, RuleShapes
  <2> QED BY <1>2, <2>1 DEF Made
<1>5. CASE ~IsStraight(K)
  <2>1. RuleOf(K)[1] = e.rank
    BY <1>1, <1>2, <1>3, <1>5, RuleShapes
  <2>2. RuleOf(K) = Meaning(e)
    BY <1>1, <1>3, <1>5, <2>1, ListedRule
  <2> QED BY <1>2, <2>2 DEF Made
<1> QED BY <1>4, <1>5

\* Two pairs with a kicker are made by five of the cards.
LEMMA TwoPairMade ==
  ASSUME NEW C, Seven(C), Fours(C) = {}, NEW e \in TwoPairs(C)
  PROVE  Made(C, e)
<1>0. PICK h, l, k \in Ranks(C) : TwoPairRead(C, e, h, l, k)
  BY TwoPairReads
<1>1. /\ h \in Nat /\ l \in Nat /\ l < h /\ Count(C, h) >= 2 /\ Count(C, l) >= 2
      /\ k \in Ranks(C) \ {h, l} /\ k \in Nat
      /\ Meaning(e) \in Seq(Nat) /\ Len(Meaning(e)) = 4 /\ Meaning(e)[1] = 2
      /\ Meaning(e)[2] = h /\ Meaning(e)[3] = l /\ Meaning(e)[4] = k
  BY <1>0 DEF TwoPairRead
<1> DEFINE two == 2
<1>2. /\ k \in Ranks(C) /\ k # h /\ k # l /\ k \in Nat /\ h # l
      /\ two \in Nat /\ two <= Count(C, h) /\ two <= Count(C, l) /\ C \in SUBSET Deck
  <2>1. C \in SUBSET Deck
    BY DEF Seven
  <2>2. Count(C, h) \in 0..4 /\ Count(C, l) \in 0..4
    BY <2>1, CountIs
  <2> QED BY <1>1, <2>1, <2>2
<1>3. PICK d \in C : RankOf(d) = k
  BY <1>2 DEF Ranks
<1>4. /\ Meaning(e) \in Seq(Nat) /\ Len(Meaning(e)) = 4 /\ Meaning(e)[1] = 2
      /\ Meaning(e)[2] = h /\ Meaning(e)[3] = l /\ Meaning(e)[4] = k
  BY <1>1
<1> HIDE DEF two
<1>5. PICK T \in SUBSET OfRank(C, h) : Cardinality(T) = two
  BY <1>2, SomeOfRank
<1>6. PICK U \in SUBSET OfRank(C, l) : Cardinality(U) = two
  BY <1>2, SomeOfRank
<1> DEFINE D == {d}
           K == U \cup D
<1>7. /\ K \in SUBSET Others(C, h) /\ k \in Ranks(K)
      /\ Cardinality(K) = 3 /\ Count(K, l) = 2
  <2>1. Parts(C, l, U, D)
    BY <1>2, <1>3, <1>6 DEF Parts, Others
  <2>2. Cardinality(D) = 1
    BY FS_Singleton
  <2>3. K \in SUBSET Others(C, h) /\ k \in Ranks(K)
    BY <1>2, <1>3 DEF Others, OfRank, Ranks
  <2> HIDE DEF D
  <2>4. Cardinality(K) = Cardinality(U) + Cardinality(D) /\ Count(K, l) = Cardinality(U)
    BY <1>2, <2>1, Joined
  <2> HIDE DEF K
  <2> QED BY <1>6, <2>2, <2>3, <2>4 DEF two
<1> HIDE DEF D, K
<1>8. FiveParts(C, h, T, K)
  <2>1. Cardinality(T) + Cardinality(K) = 5
    BY <1>5, <1>7 DEF two
  <2> QED BY <1>7, <2>1 DEF FiveParts, Parts
<1>9. PICK F \in SUBSET C :
        /\ F \in SUBSET Deck /\ Cardinality(F) = 5 /\ Count(F, h) = two
        /\ \A q : q # h => Count(F, q) = Count(K, q)
        /\ Ranks(K) \in SUBSET Ranks(F)
  BY <1>5, <1>8, FiveOf
<1>10. Count(F, h) = 2 /\ Count(F, l) = 2 /\ k \in Ranks(F)
  BY <1>2, <1>7, <1>9 DEF two
<1>11. TwoPairShape(F) /\ h \in {Groups(F)[1], Groups(F)[2]} /\ l \in {Groups(F)[1], Groups(F)[2]}
  <2>1. \/ FullShape(F) /\ Groups(F)[2] = h
        \/ TwoPairShape(F) /\ h \in {Groups(F)[1], Groups(F)[2]}
        \/ PairShape(F) /\ Groups(F)[1] = h
    BY <1>9, <1>10, ShapeByCount
  <2>2. \/ FullShape(F) /\ Groups(F)[2] = l
        \/ TwoPairShape(F) /\ l \in {Groups(F)[1], Groups(F)[2]}
        \/ PairShape(F) /\ Groups(F)[1] = l
    BY <1>9, <1>10, ShapeByCount
  <2>3. /\ FullShape(F) => ~TwoPairShape(F) /\ ~PairShape(F)
        /\ TwoPairShape(F) => ~PairShape(F)
    BY ShapeTimes
  <2> QED BY <1>2, <2>1, <2>2, <2>3
<1>12. Cardinality(Ranks(F)) = 3 /\ Times(F, 1) = 2 /\ Times(F, 2) = 2 /\ Times(F, 3) = 1
  BY <1>11, ShapeTimes
<1>13. Groups(F)[1] = h /\ Groups(F)[2] = l
  <2>1. 1 \in 1..Cardinality(Ranks(F)) /\ 2 \in 1..Cardinality(Ranks(F)) /\ 1 < 2
    BY <1>12
  <2>2. Groups(F)[2] < Groups(F)[1]
    BY <1>9, <1>12, <2>1, TimesFall
  <2> QED BY <1>1, <1>11, <2>2
<1>14. Groups(F)[3] = k
  <2>1. PICK i \in 1..Cardinality(Ranks(F)) : Groups(F)[i] = k
    BY <1>9, <1>10, GroupsAre
  <2>2. i = 1 \/ i = 2 \/ i = 3
    BY <1>12, <2>1
  <2> QED BY <1>2, <1>13, <2>1, <2>2
<1>15. /\ RuleOf(F) \in Seq(Nat) /\ Len(RuleOf(F)) = 4 /\ RuleOf(F)[1] = 2
       /\ RuleOf(F)[2] = h /\ RuleOf(F)[3] = l /\ RuleOf(F)[4] = k
  <2>1. RuleOf(F) \in Seq(Nat) /\ RuleOf(F)[1] = 2 /\ Lists(F)
    BY <1>9, <1>11, RuleShapes
  <2> QED BY <1>12, <1>13, <1>14, <2>1 DEF Lists
<1>16. RuleOf(F) = Meaning(e)
  <2>1. \A i \in 1..4 : i = 1 \/ i = 2 \/ i = 3 \/ i = 4
    OBVIOUS
  <2>2. \A i \in 1..Len(RuleOf(F)) : RuleOf(F)[i] = Meaning(e)[i]
    BY <1>4, <1>15, <2>1
  <2> QED BY <1>4, <1>15, <2>2, SameSequence
<1> QED BY <1>9, <1>16 DEF Made

\* Five cards of a run say what the run does.
LEMMA RunMade ==
  ASSUME NEW F \in SUBSET Deck, Cardinality(F) = 5, NEW m \in Nat, RunOf(Ranks(F), m)
  PROVE  /\ IsStraight(F) /\ RuleOf(F) \in Seq(Nat) /\ Len(RuleOf(F)) = 2
         /\ RuleOf(F)[1] = IF Suited(F) THEN 8 ELSE 4
         /\ RuleOf(F)[2] = m
<1>1. /\ IsStraight(F)
      /\ m = IF Ranks(F) = Wheel THEN 5 ELSE Groups(F)[1]
  <2>1. CASE Wheel \subseteq Ranks(F)
    BY <2>1, RunRule DEF RunOf
  <2>2. CASE ~(Wheel \subseteq Ranks(F))
    <3>1. m \in Ranks(F) /\ \A i \in 1..4 : m - i \in Ranks(F)
      BY <2>2 DEF RunOf
    <3> QED BY <3>1, RunRule
  <2> QED BY <2>1, <2>2
<1> QED BY <1>1, RuleShapes

\* Two pairs of numbers.
LEMMA SameTwo ==
  ASSUME NEW s \in Seq(Nat), NEW t \in Seq(Nat), Len(s) = 2, Len(t) = 2,
         s[1] = t[1], s[2] = t[2]
  PROVE  s = t
<1>1. \A i \in 1..2 : i = 1 \/ i = 2
  OBVIOUS
<1>2. \A i \in 1..Len(s) : s[i] = t[i]
  BY <1>1
<1> QED BY <1>2, SameSequence

\* A run is made by five of the cards, of one suit or not.
LEMMA StraightMade ==
  ASSUME NEW C, Seven(C), NEW e \in Straights(Ranks(C))
  PROVE  Made(C, e)
<1>1. PICK m \in Nat :
        /\ RunOf(Ranks(C), m)
        /\ Meaning(e) \in Seq(Nat) /\ Len(Meaning(e)) = 2
        /\ Meaning(e)[1] = 4 /\ Meaning(e)[2] = m
  BY StraightReads
<1>2. PICK F \in SUBSET C : Cardinality(F) = 5 /\ RunOf(Ranks(F), m)
  <2>1. CASE Wheel \subseteq Ranks(C)
    <3>1. PICK F \in SUBSET C : Cardinality(F) = Cardinality(Wheel) /\ Ranks(F) = Wheel
      BY <2>1, OneOfEach DEF Seven
    <3>2. m = 5
      BY <1>1, <2>1 DEF RunOf
    <3> QED BY <3>1, <3>2, WheelCounts DEF RunOf
  <2>2. CASE ~(Wheel \subseteq Ranks(C))
    <3> DEFINE S == (m-4)..m
    <3>1. m \in Ranks(C) /\ \A i \in 1..4 : m - i \in Ranks(C)
      BY <1>1, <2>2 DEF RunOf
    <3>2. S \in SUBSET Ranks(C)
      <4> SUFFICES ASSUME NEW x \in S PROVE x \in Ranks(C)
        OBVIOUS
      <4>1. (x = m \/ m - x \in 1..4) /\ m - (m - x) = x
        OBVIOUS
      <4> QED BY <3>1, <4>1
    <3>3. Cardinality(S) = 5
      <4>1. m - 4 \in Int /\ m \in Int /\ m - 4 <= m
        OBVIOUS
      <4>2. Cardinality(S) = m - (m-4) + 1
        BY <4>1, FS_Interval
      <4> QED BY <4>2
    <3>4. m \in S /\ \A i \in 1..4 : m - i \in S
      OBVIOUS
    <3>5. \A t \in S : t <= m
      OBVIOUS
    <3> HIDE DEF S
    <3>6. PICK F \in SUBSET C : Cardinality(F) = Cardinality(S) /\ Ranks(F) = S
      BY <3>2, OneOfEach DEF Seven
    <3>7. RunOf(Ranks(F), m)
      BY <2>2, <3>2, <3>4, <3>5, <3>6 DEF RunOf
    <3> QED BY <3>3, <3>6, <3>7
  <2> QED BY <2>1, <2>2
<1>3. F \in SUBSET Deck
  BY DEF Seven
<1>4. /\ RuleOf(F) \in Seq(Nat) /\ Len(RuleOf(F)) = 2
      /\ RuleOf(F)[1] = (IF Suited(F) THEN 8 ELSE 4) /\ RuleOf(F)[2] = m
  BY <1>2, <1>3, RunMade
<1>5. CASE Suited(F)
  BY <1>1, <1>2, <1>4, <1>5 DEF Made
<1>6. CASE ~Suited(F)
  <2>1. RuleOf(F) = Meaning(e)
    BY <1>1, <1>4, <1>6, SameTwo
  <2> QED BY <1>2, <2>1 DEF Made
<1> QED BY <1>5, <1>6

\* A straight flush is made by the five cards it was found in.
LEMMA StraightFlushMade ==
  ASSUME NEW C, Seven(C), NEW e \in StraightFlushes(C)
  PROVE  Made(C, e)
<1>1. PICK suit \in Suits, K \in SUBSET C, m \in Nat :
        /\ K \in SUBSET OfSuit(C, suit)
        /\ K \in SUBSET Deck /\ Cardinality(K) = 5 /\ RunOf(Ranks(K), m)
        /\ Meaning(e) \in Seq(Nat) /\ Len(Meaning(e)) = 2
        /\ Meaning(e)[1] = 8 /\ Meaning(e)[2] = m
  BY StraightFlushReads
<1>2. Suited(K)
  BY <1>1, SuitedPart DEF Seven
<1>3. /\ RuleOf(K) \in Seq(Nat) /\ Len(RuleOf(K)) = 2
      /\ RuleOf(K)[1] = 8 /\ RuleOf(K)[2] = m
  BY <1>1, <1>2, RunMade
<1>4. RuleOf(K) = Meaning(e)
  BY <1>1, <1>3, SameTwo
<1> QED BY <1>1, <1>4 DEF Made

\* An evaluation found by one of the checks.
LEMMA ChecksAre ==
  ASSUME NEW C, Seven(C), NEW e \in Evaluate(C)
  PROVE  \/ e \in StraightFlushes(C)
         \/ e \in Fours(C)
         \/ e \in FullHouses(C)
         \/ e \in Flushes(C)
         \/ e \in Straights(Ranks(C))
         \/ e \in Threes(C)
         \/ Fours(C) = {} /\ e \in TwoPairs(C)
         \/ e \in Pairs(C)
         \/ e \in HighCards(C)
<1>1. C # {}
  <2>1. Cardinality(C) # 0
    BY DEF Seven
  <2> QED BY <2>1, FS_EmptySet
<1> QED BY <1>1, EvaluateIs

\* An evaluation says a sequence of numbers.
LEMMA MeaningIs ==
  ASSUME NEW C, Seven(C), NEW e \in Evaluate(C)
  PROVE  Meaning(e) \in Seq(Nat) /\ Len(Meaning(e)) >= 1
<1>1. CASE e \in StraightFlushes(C)
  BY <1>1, StraightFlushReads
<1>2. CASE e \in Fours(C)
  BY <1>2, FourReads DEF FourRead
<1>3. CASE e \in FullHouses(C)
  <2>1. PICK r, q \in Ranks(C) : FullHouseRead(C, e, r, q)
    BY <1>3, FullHouseReads
  <2>2. Meaning(e) \in Seq(Nat) /\ Len(Meaning(e)) = 3
    BY <2>1, Zenon DEF FullHouseRead
  <2> QED BY <2>2
<1>4. CASE e \in Flushes(C)
  BY <1>4, FlushReads DEF Listed
<1>5. CASE e \in Straights(Ranks(C))
  BY <1>5, StraightReads
<1>6. CASE e \in Threes(C)
  BY <1>6, ThreeReads DEF Kicked
<1>7. CASE Fours(C) = {} /\ e \in TwoPairs(C)
  BY <1>7, TwoPairReads DEF TwoPairRead
<1>8. CASE e \in Pairs(C)
  BY <1>8, PairReads DEF Kicked
<1>9. CASE e \in HighCards(C)
  BY <1>9, HighCardReads DEF Listed
<1> QED BY <1>1, <1>2, <1>3, <1>4, <1>5, <1>6, <1>7, <1>8, <1>9, ChecksAre

\* What evaluate_hand says is made by five of the cards.
LEMMA EvaluationMade ==
  ASSUME NEW C, Seven(C), NEW e \in Evaluate(C)
  PROVE  Made(C, e)
<1>1. \/ e \in StraightFlushes(C)
      \/ e \in Fours(C)
      \/ e \in FullHouses(C)
      \/ e \in Flushes(C)
      \/ e \in Straights(Ranks(C))
      \/ e \in Threes(C)
      \/ Fours(C) = {} /\ e \in TwoPairs(C)
      \/ e \in Pairs(C)
      \/ e \in HighCards(C)
  BY ChecksAre
<1> QED BY <1>1, StraightFlushMade, FourMade, FullHouseMade, FlushMade, StraightMade,
           ThreeMade, TwoPairMade, PairMade, HighCardMade

\* The best hand is one of the hands, and none of them is better.
LEMMA BestIs ==
  ASSUME NEW C, Seven(C)
  PROVE  /\ BestOf(C) \in Seq(Nat)
         /\ \E F \in SUBSET C : Cardinality(F) = 5 /\ BestOf(C) = RuleOf(F)
         /\ \A F \in SUBSET C : Cardinality(F) = 5 => ~SeqLess(BestOf(C), RuleOf(F))
<1> DEFINE fives == kSubset(5, C)
           rules == {RuleOf(F) : F \in fives}
           rule == [F \in fives |-> RuleOf(F)]
<1>1. fives = {F \in SUBSET C : Cardinality(F) = 5}
  BY DEF kSubset
<1>2. C \in SUBSET Deck /\ IsFiniteSet(C) /\ Cardinality(C) = 7
  BY CardsAre DEF Seven
<1>3. \A F \in fives : RuleOf(F) \in Seq(Nat)
  BY <1>1, <1>2, RuleShapes
<1>4. fives # {}
  <2> DEFINE n == 5
  <2>1. n \in 0..Cardinality(C)
    BY <1>2
  <2> HIDE DEF n
  <2>2. PICK K : Top(C, n, K)
    BY <1>2, <2>1, TopExists
  <2> QED BY <1>1, <2>2 DEF Top, n
<1>5. IsFiniteSet(fives)
  <2>1. IsFiniteSet(SUBSET C)
    BY <1>2, FS_SUBSET
  <2>2. fives \in SUBSET (SUBSET C)
    BY <1>1
  <2> HIDE DEF fives
  <2> QED BY <2>1, <2>2, PartOf
<1> HIDE DEF fives
<1>6. IsFiniteSet(rules)
  <2>1. rule \in [fives -> rules] /\ \A t \in rules : \E F \in fives : rule[F] = t
    OBVIOUS
  <2> HIDE DEF rule, rules
  <2>2. rule \in Surjection(fives, rules)
    BY <2>1 DEF Surjection
  <2> QED BY <1>5, <2>2, FS_Surjection
<1>7. rules \in SUBSET Seq(Nat) /\ rules # {}
  BY <1>3, <1>4
<1>8. BestOf(C) = CHOOSE r \in rules : \A s \in rules : ~SeqLess(r, s)
  BY DEF BestOf, fives
<1>9. \A F \in SUBSET C : Cardinality(F) = 5 => RuleOf(F) \in rules
  BY <1>1
<1>10. \A r \in rules : \E F \in SUBSET C : Cardinality(F) = 5 /\ r = RuleOf(F)
  BY <1>1
<1> HIDE DEF rules
<1>11. BestOf(C) \in rules /\ \A s \in rules : ~SeqLess(BestOf(C), s)
  <2>1. \E r \in rules : \A s \in rules : ~SeqLess(r, s)
    BY <1>6, <1>7, GreatestExists
  <2> QED BY <1>8, <2>1
<1> QED BY <1>7, <1>9, <1>10, <1>11

\* No evaluation is more than the best hand.
LEMMA NeverMore ==
  ASSUME NEW C, Seven(C), NEW e \in Evaluate(C)
  PROVE  ~SeqLess(BestOf(C), Meaning(e))
<1>1. PICK F \in SUBSET C :
        /\ Cardinality(F) = 5
        /\ Meaning(e)[1] < RuleOf(F)[1] \/ RuleOf(F) = Meaning(e)
  BY EvaluationMade DEF Made
<1>2. BestOf(C) \in Seq(Nat) /\ ~SeqLess(BestOf(C), RuleOf(F))
  BY <1>1, BestIs
<1>3. RuleOf(F) \in Seq(Nat) /\ Len(RuleOf(F)) >= 1
  BY <1>1, RuleShapes DEF Seven
<1>4. Meaning(e) \in Seq(Nat) /\ Len(Meaning(e)) >= 1
  BY MeaningIs
<1>5. CASE RuleOf(F) = Meaning(e)
  BY <1>2, <1>5
<1>6. CASE Meaning(e)[1] < RuleOf(F)[1]
  <2>1. SUFFICES ASSUME SeqLess(BestOf(C), Meaning(e)) PROVE FALSE
    OBVIOUS
  <2>2. SeqLess(Meaning(e), RuleOf(F))
    <3>1. 1 \in 1..Len(RuleOf(F)) /\ LessAt(Meaning(e), RuleOf(F), 1)
      BY <1>3, <1>4, <1>6 DEF LessAt
    <3> QED BY <1>3, <1>4, <3>1, SeqLessAt
  <2> QED BY <1>2, <1>3, <1>4, <2>1, <2>2, SeqLessTransitive
<1> QED BY <1>1, <1>5, <1>6

-----------------------------------------------------------------------------
(* No five cards are better than the evaluation says, outside three kinds. *)

\* The category of five cards, with the shape that makes it.
LEMMA Categories ==
  ASSUME NEW F \in SUBSET Deck, Cardinality(F) = 5
  PROVE  /\ RuleOf(F) \in Seq(Nat) /\ Len(RuleOf(F)) >= 1
         /\ \/ RuleOf(F)[1] = 8 /\ IsStraight(F) /\ Suited(F)
            \/ RuleOf(F)[1] = 7 /\ FourShape(F) /\ Lists(F)
            \/ RuleOf(F)[1] = 6 /\ FullShape(F) /\ Lists(F)
            \/ RuleOf(F)[1] = 5 /\ NoPairShape(F) /\ Suited(F) /\ Lists(F)
            \/ RuleOf(F)[1] = 4 /\ IsStraight(F)
            \/ RuleOf(F)[1] = 3 /\ ThreeShape(F) /\ Lists(F)
            \/ RuleOf(F)[1] = 2 /\ TwoPairShape(F) /\ Lists(F)
            \/ RuleOf(F)[1] = 1 /\ PairShape(F) /\ Lists(F)
            \/ RuleOf(F)[1] = 0 /\ NoPairShape(F) /\ Lists(F)
<1>1. CASE IsStraight(F)
  BY <1>1, RuleShapes
<1>2. CASE ~IsStraight(F)
  BY <1>2, RuleShapes, Shapes
<1> QED BY <1>1, <1>2

\* What the groups of some of the cards say of all of them.
LEMMA GroupsWithin ==
  ASSUME NEW C, Seven(C), NEW F \in SUBSET C, Cardinality(F) = 5,
         NEW i \in 1..Cardinality(Ranks(F))
  PROVE  /\ Groups(F)[i] \in Ranks(C) /\ Groups(F)[i] \in Nat
         /\ Times(F, i) \in Nat /\ Count(C, Groups(F)[i]) \in 0..4
         /\ Times(F, i) <= Count(C, Groups(F)[i])
<1>1. C \in SUBSET Deck /\ F \in SUBSET Deck
  BY DEF Seven
<1>2. Groups(F)[i] \in Ranks(F)
  BY <1>1, GroupsAre
<1>3. Groups(F)[i] \in Ranks(C)
  BY <1>2 DEF Ranks
<1>4. Groups(F)[i] \in Nat
  BY <1>1, <1>3, CardsAre
<1>5. Count(C, Groups(F)[i]) \in 0..4 /\ Count(F, Groups(F)[i]) <= Count(C, Groups(F)[i])
  BY <1>1, CountIs
<1>6. Times(F, i) \in Nat
  BY <1>1, TimesFall
<1> QED BY <1>3, <1>4, <1>5, <1>6 DEF Times

\* Four of a kind are found.
LEMMA FoursFound ==
  ASSUME NEW C, Seven(C), NEW F \in SUBSET C, Cardinality(F) = 5, FourShape(F)
  PROVE  Fours(C) # {} /\ Groups(F)[1] \in Ranks(C) /\ Count(C, Groups(F)[1]) = 4
<1>1. Times(F, 1) = 4 /\ 1 \in 1..Cardinality(Ranks(F))
  BY ShapeTimes
<1>2. Groups(F)[1] \in Ranks(C) /\ Count(C, Groups(F)[1]) = 4
  BY <1>1, GroupsWithin
<1>3. Groups(F)[1] \in RanksCounted(C, 4)
  BY <1>2 DEF RanksCounted
<1> QED BY <1>2, <1>3 DEF Fours

\* A full house is found, among others perhaps.
LEMMA FullHouseFound ==
  ASSUME NEW C, NEW r \in Ranks(C), NEW q \in Ranks(C), r # q, Count(C, r) >= 3, Count(C, q) >= 2
  PROVE  Evaluation(FullHouse, r, <<q>>) \in FullHouses(C)
<1> DEFINE tp == <<r, q>>
<1>1. tp \in RanksCounted(C, 3) \X RanksCounted(C, 2) /\ tp[1] # tp[2]
  BY DEF RanksCounted
<1>2. tp[1] = r /\ tp[2] = q
  OBVIOUS
<1> HIDE DEF tp
<1> QED BY <1>1, <1>2 DEF FullHouses

\* A full house among five of the cards is found.
LEMMA FullHousesFound ==
  ASSUME NEW C, Seven(C), NEW F \in SUBSET C, Cardinality(F) = 5, FullShape(F)
  PROVE  Evaluation(FullHouse, Groups(F)[1], <<Groups(F)[2]>>) \in FullHouses(C)
<1>1. /\ Times(F, 1) = 3 /\ Times(F, 2) = 2 /\ Cardinality(Ranks(F)) = 2
      /\ 1 \in 1..Cardinality(Ranks(F)) /\ 2 \in 1..Cardinality(Ranks(F)) /\ 1 < 2
  BY ShapeTimes
<1>2. F \in SUBSET Deck
  BY DEF Seven
<1>3. Groups(F)[1] # Groups(F)[2]
  BY <1>1, <1>2, TimesFall
<1>4. Groups(F)[1] \in Ranks(C) /\ Count(C, Groups(F)[1]) >= 3
  BY <1>1, GroupsWithin
<1>5. Groups(F)[2] \in Ranks(C) /\ Count(C, Groups(F)[2]) >= 2
  BY <1>1, GroupsWithin
<1> QED BY <1>3, <1>4, <1>5, FullHouseFound

\* Three of a kind among five of the cards is found.
LEMMA ThreesFound ==
  ASSUME NEW C, Seven(C), NEW F \in SUBSET C, Cardinality(F) = 5, ThreeShape(F)
  PROVE  Threes(C) # {} /\ Groups(F)[1] \in Ranks(C) /\ Count(C, Groups(F)[1]) >= 3
<1>1. Times(F, 1) = 3 /\ 1 \in 1..Cardinality(Ranks(F))
  BY ShapeTimes
<1>2. Groups(F)[1] \in Ranks(C) /\ Count(C, Groups(F)[1]) >= 3
  BY <1>1, GroupsWithin
<1>3. Groups(F)[1] \in RanksCounted(C, 3)
  BY <1>2 DEF RanksCounted
<1> QED BY <1>2, <1>3 DEF Threes

\* Two ranks of two cards are two pairs.
LEMMA TwoPairFound ==
  ASSUME NEW C, Seven(C), NEW r \in Ranks(C), NEW q \in Ranks(C), r # q,
         Count(C, r) >= 2, Count(C, q) >= 2
  PROVE  TwoPairs(C) # {}
<1> DEFINE pairs == RanksCounted(C, 2)
           those == {q} \cup {r}
<1>1. those \in SUBSET pairs /\ IsFiniteSet(pairs)
  <2>1. IsFiniteSet(Ranks(C))
    BY CardsAre DEF Seven
  <2>2. pairs \in SUBSET Ranks(C)
    BY DEF RanksCounted
  <2>3. those \in SUBSET pairs
    BY DEF RanksCounted
  <2> HIDE DEF pairs, those
  <2> QED BY <2>1, <2>2, <2>3, PartOf
<1>2. Cardinality(those) = 2
  <2>1. IsFiniteSet({q}) /\ Cardinality({q}) = 1
    BY FS_Singleton
  <2> DEFINE one == {q}
  <2>2. r \notin one
    OBVIOUS
  <2> HIDE DEF one
  <2>3. Cardinality(one \cup {r}) = Cardinality(one) + 1
    BY <2>1, <2>2, FS_AddElement DEF one
  <2> QED BY <2>1, <2>3 DEF one
<1> HIDE DEF those
<1>3. Cardinality(those) <= Cardinality(pairs) /\ Cardinality(pairs) \in Nat
  BY <1>1, PartOf
<1>4. ~(Cardinality(pairs) < 2)
  BY <1>2, <1>3
<1> QED BY <1>4 DEF TwoPairs

\* Two pairs among five of the cards are found.
LEMMA TwoPairsFound ==
  ASSUME NEW C, Seven(C), NEW F \in SUBSET C, Cardinality(F) = 5, TwoPairShape(F)
  PROVE  /\ TwoPairs(C) # {} /\ Groups(F)[2] < Groups(F)[1]
         /\ Groups(F)[1] \in Ranks(C) /\ Count(C, Groups(F)[1]) >= 2
         /\ Groups(F)[2] \in Ranks(C) /\ Count(C, Groups(F)[2]) >= 2
<1>1. /\ Times(F, 1) = 2 /\ Times(F, 2) = 2
      /\ 1 \in 1..Cardinality(Ranks(F)) /\ 2 \in 1..Cardinality(Ranks(F)) /\ 1 < 2
  BY ShapeTimes
<1>2. F \in SUBSET Deck
  BY DEF Seven
<1>3. Groups(F)[2] < Groups(F)[1]
  BY <1>1, <1>2, TimesFall
<1>4. Groups(F)[1] \in Ranks(C) /\ Groups(F)[1] \in Nat /\ Count(C, Groups(F)[1]) >= 2
  BY <1>1, GroupsWithin
<1>5. Groups(F)[2] \in Ranks(C) /\ Groups(F)[2] \in Nat /\ Count(C, Groups(F)[2]) >= 2
  BY <1>1, GroupsWithin
<1>6. Groups(F)[1] # Groups(F)[2]
  BY <1>3, <1>4, <1>5
<1> QED BY <1>3, <1>4, <1>5, <1>6, TwoPairFound

\* A pair among five of the cards is found.
LEMMA PairsFound ==
  ASSUME NEW C, Seven(C), NEW F \in SUBSET C, Cardinality(F) = 5, PairShape(F)
  PROVE  Pairs(C) # {} /\ Groups(F)[1] \in Ranks(C) /\ Count(C, Groups(F)[1]) >= 2
<1>1. Times(F, 1) = 2 /\ 1 \in 1..Cardinality(Ranks(F))
  BY ShapeTimes
<1>2. Groups(F)[1] \in Ranks(C) /\ Count(C, Groups(F)[1]) >= 2
  BY <1>1, GroupsWithin
<1>3. Groups(F)[1] \in RanksCounted(C, 2)
  BY <1>2 DEF RanksCounted
<1> QED BY <1>2, <1>3 DEF Pairs

\* Five cards of a suit are among the five or more of it.
LEMMA SuitFound ==
  ASSUME NEW C, Seven(C), NEW F \in SUBSET C, Cardinality(F) = 5, Suited(F)
  PROVE  \E suit \in Suits :
           /\ F \in SUBSET OfSuit(C, suit) /\ OfSuit(C, suit) \in SUBSET C
           /\ 5 <= Cardinality(OfSuit(C, suit)) /\ Cardinality(OfSuit(C, suit)) \in Nat
           /\ Kickers(OfSuit(C, suit), {}, 5) \in FlushRanks(C)
           /\ ~SixSuited(C) => OfSuit(C, suit) = F
<1>1. C \in SUBSET Deck /\ F \in SUBSET Deck
  BY DEF Seven
<1>2. PICK suit \in Suits : F # {} /\ \A c \in F : SuitOf(c) = suit
  BY <1>1, SuitedIs
<1> DEFINE A == OfSuit(C, suit)
<1>3. F \in SUBSET A /\ A \in SUBSET C /\ A = {d \in C : SuitOf(d) = suit}
  BY <1>2 DEF OfSuit
<1>4. PICK c \in F : SuitOf(c) = suit
  BY <1>2
<1> HIDE DEF A
<1>5. /\ IsFiniteSet(A) /\ 5 <= Cardinality(A) /\ Cardinality(A) \in Nat
      /\ Cardinality(F) = Cardinality(A) => F = A
  <2>1. IsFiniteSet(A)
    BY <1>1, <1>3, CardsAre
  <2> QED BY <1>3, <2>1, PartOf
<1>6. Kickers(A, {}, 5) \in FlushRanks(C)
  <2>1. A \in {{d \in C : SuitOf(d) = s} : s \in {SuitOf(d) : d \in C}}
    BY <1>3, <1>4
  <2>2. A \in {t \in {{d \in C : SuitOf(d) = s} : s \in {SuitOf(d) : d \in C}} : Cardinality(t) >= 5}
    BY <1>5, <2>1
  <2> QED BY <2>2 DEF FlushRanks
<1>7. ASSUME ~SixSuited(C) PROVE A = F
  <2>1. ~(Cardinality({d \in C : SuitOf(d) = SuitOf(c)}) >= 6)
    BY <1>4, <1>7 DEF SixSuited
  <2>2. ~(Cardinality(A) >= 6)
    BY <1>3, <1>4, <2>1
  <2> QED BY <1>5, <2>2
<1> QED BY <1>3, <1>5, <1>6, <1>7 DEF A

\* A flush among five of the cards is found.
LEMMA FlushFound ==
  ASSUME NEW C, Seven(C), NEW F \in SUBSET C, Cardinality(F) = 5, Suited(F)
  PROVE  Flushes(C) # {}
<1>1. FlushRanks(C) # {}
  BY SuitFound
<1> QED BY <1>1 DEF Flushes

\* A straight is found.
LEMMA RunFound ==
  ASSUME NEW S, NEW T \in SUBSET S,
         \/ Wheel \subseteq T
         \/ \E m \in T : \A i \in 1..4 : m - i \in T
  PROVE  Straights(S) # {}
<1> DEFINE tops == {r \in S : \A i \in 1..4 : r - i \in S}
<1>1. Wheel \subseteq S \/ tops # {}
  <2>1. CASE Wheel \subseteq T
    BY <2>1
  <2>2. CASE \E m \in T : \A i \in 1..4 : m - i \in T
    BY <2>2
  <2> QED BY <2>1, <2>2
<1> HIDE DEF tops
<1> QED BY <1>1 DEF Straights, tops

\* The ranks of a straight: the wheel, or five in a row.
LEMMA StraightRanks ==
  ASSUME NEW F \in SUBSET Deck, Cardinality(F) = 5, IsStraight(F)
  PROVE  \/ Wheel \subseteq Ranks(F)
         \/ \E m \in Ranks(F) : \A i \in 1..4 : m - i \in Ranks(F)
<1>1. CASE Ranks(F) = Wheel
  BY <1>1
<1>2. CASE Ranks(F) # Wheel
  <2>1. /\ Groups(F)[1] \in Ranks(F)
        /\ \A i \in 1..4 : Groups(F)[1] - i \in Ranks(F)
    BY <1>2, RunRule
  <2> QED BY <2>1
<1> QED BY <1>1, <1>2

\* A straight among five of the cards is found.
LEMMA StraightFound ==
  ASSUME NEW C, Seven(C), NEW F \in SUBSET C, Cardinality(F) = 5, IsStraight(F)
  PROVE  Straights(Ranks(C)) # {}
<1>1. Ranks(F) \in SUBSET Ranks(C) /\ F \in SUBSET Deck
  BY DEF Ranks, Seven
<1> QED BY <1>1, StraightRanks, RunFound

\* A straight flush among five of the cards is found, unless it lies below the
\* five highest of six or more of its suit.
LEMMA StraightFlushFound ==
  ASSUME NEW C, Seven(C), ~SixSuited(C), NEW F \in SUBSET C, Cardinality(F) = 5,
         Suited(F), IsStraight(F)
  PROVE  StraightFlushes(C) # {}
<1> DEFINE n == 5
           none == {}
<1>1. F \in SUBSET Deck /\ Kickers(F, none, n) \in FlushRanks(C)
  <2>1. F \in SUBSET Deck
    BY DEF Seven
  <2>2. Kickers(F, {}, 5) \in FlushRanks(C)
    BY SuitFound
  <2> QED BY <2>1, <2>2
<1>2. Rest(F, none) = F /\ n \in Nat /\ n <= Cardinality(F) /\ n = Cardinality(F)
  BY DEF Rest
<1> HIDE DEF n, none
<1>3. PICK K : Top(F, n, K) /\ Kickers(F, none, n) = Descending(K)
  <2>1. n <= Cardinality(Rest(F, none))
    BY <1>2
  <2>2. \E K : Top(Rest(F, none), n, K) /\ Kickers(F, none, n) = Descending(K)
    BY <1>1, <1>2, <2>1, KickersAre
  <2> QED BY <1>2, <2>2
<1>4. K = F
  <2>1. K \in SUBSET F /\ Cardinality(K) = Cardinality(F)
    BY <1>2, <1>3 DEF Top
  <2> QED BY <1>1, <2>1, CardsAre, PartOf
<1>5. Descending(F) \in FlushRanks(C)
  BY <1>1, <1>3, <1>4
<1>6. {Descending(F)[i] : i \in 1..5} = Ranks(F)
  <2>1. {Descending(F)[i] : i \in 1..Cardinality(F)} = Ranks(F)
    BY <1>1, DescendingTakesAll
  <2> QED BY <2>1
<1>7. PICK f : f \in Straights({Descending(F)[i] : i \in 1..5})
  <2>1. Straights(Ranks(F)) # {}
    BY <1>1, StraightRanks, RunFound
  <2> QED BY <1>6, <2>1
<1>8. Evaluation(StraightFlush, f.primary_rank, <<f.primary_rank>>) \in StraightFlushes(C)
  <2> DEFINE ranks == Descending(F)
             found == {Evaluation(StraightFlush, e.primary_rank, <<e.primary_rank>>) :
                         e \in Straights({ranks[i] : i \in 1..5})}
  <2>1. Evaluation(StraightFlush, f.primary_rank, <<f.primary_rank>>) \in found
    BY <1>7
  <2>2. ranks \in FlushRanks(C)
    BY <1>5
  <2> HIDE DEF ranks
  <2>3. found \in {{Evaluation(StraightFlush, e.primary_rank, <<e.primary_rank>>) :
                      e \in Straights({rs[i] : i \in 1..5})} : rs \in FlushRanks(C)}
    BY <2>2
  <2>4. found \in SUBSET StraightFlushes(C)
    BY <2>3 DEF StraightFlushes
  <2> HIDE DEF found
  <2> QED BY <2>1, <2>4
<1> QED BY <1>8

\* There is one suit of five cards at most.
LEMMA OneSuit ==
  ASSUME NEW C, Seven(C), NEW s, NEW t,
         5 <= Cardinality(OfSuit(C, s)), 5 <= Cardinality(OfSuit(C, t))
  PROVE  s = t
<1> SUFFICES ASSUME s # t PROVE FALSE
  OBVIOUS
<1> DEFINE A == OfSuit(C, s)
           B == OfSuit(C, t)
<1>1. C \in SUBSET Deck /\ Cardinality(C) = 7 /\ A \in SUBSET C /\ B \in SUBSET C /\ A \cap B = {}
  BY DEF Seven, OfSuit
<1>2. 5 <= Cardinality(A) /\ 5 <= Cardinality(B)
  OBVIOUS
<1> HIDE DEF A, B
<1>3. IsFiniteSet(C) /\ IsFiniteSet(A) /\ IsFiniteSet(B)
  BY <1>1, CardsAre
<1>4. Cardinality(A \cup B) = Cardinality(A) + Cardinality(B) - Cardinality(A \cap B)
  BY <1>3, FS_Union
<1>5. Cardinality(A \cap B) = 0
  BY <1>1, FS_EmptySet
<1>6. A \cup B \in SUBSET C
  BY <1>1
<1>7. Cardinality(A \cup B) <= Cardinality(C)
  BY <1>3, <1>6, PartOf
<1>8. Cardinality(A) \in Nat /\ Cardinality(B) \in Nat
  BY <1>1, <1>3, PartOf
<1> QED BY <1>1, <1>2, <1>4, <1>5, <1>7, <1>8

\* No less in any place.
LEMMA NotLessAnywhere ==
  ASSUME NEW s \in Seq(Nat), NEW t \in Seq(Nat), Len(t) <= Len(s),
         \A i \in 1..Len(t) : t[i] <= s[i]
  PROVE  ~SeqLess(s, t)
<1>1. \A i \in 1..Len(t) : (\A j \in 1..(i-1) : s[j] = t[j]) => t[i] <= s[i]
  OBVIOUS
<1> QED BY <1>1, NotLess

\* What five cards of the hand, F, do not exceed.
Unbeaten(e, F) == ~SeqLess(Meaning(e), RuleOf(F))

\* A lower category is beaten.
LEMMA LowerCategory ==
  ASSUME NEW e, NEW F, Meaning(e) \in Seq(Nat), Len(Meaning(e)) >= 1,
         RuleOf(F) \in Seq(Nat), Len(RuleOf(F)) >= 1, RuleOf(F)[1] < Meaning(e)[1]
  PROVE  Unbeaten(e, F)
BY NotLessFirst DEF Unbeaten

\* The same hand is not beaten.
LEMMA SameHand ==
  ASSUME NEW e, NEW F, RuleOf(F) \in Seq(Nat), RuleOf(F) = Meaning(e)
  PROVE  Unbeaten(e, F)
BY SeqLessIrreflexive DEF Unbeaten

\* No five cards exceed a straight flush that was found.
LEMMA StraightFlushUnbeaten ==
  ASSUME NEW C, Seven(C), ~SixSuited(C), NEW e \in StraightFlushes(C),
         NEW F \in SUBSET C, Cardinality(F) = 5
  PROVE  Unbeaten(e, F)
<1>1. PICK suit \in Suits, K \in SUBSET C, m \in Nat :
        /\ K \in SUBSET OfSuit(C, suit) /\ Top(OfSuit(C, suit), 5, K)
        /\ 5 <= Cardinality(OfSuit(C, suit))
        /\ K \in SUBSET Deck /\ Cardinality(K) = 5 /\ RunOf(Ranks(K), m)
        /\ Meaning(e) \in Seq(Nat) /\ Len(Meaning(e)) = 2
        /\ Meaning(e)[1] = 8 /\ Meaning(e)[2] = m
  BY StraightFlushReads
<1>2. F \in SUBSET Deck
  BY DEF Seven
<1>3. RuleOf(F) \in Seq(Nat) /\ Len(RuleOf(F)) >= 1 /\ RuleOf(F)[1] \in 0..8
  BY <1>2, Categories
<1>4. CASE RuleOf(F)[1] < 8
  <2>1. Meaning(e) \in Seq(Nat) /\ Len(Meaning(e)) >= 1 /\ RuleOf(F)[1] < Meaning(e)[1]
    BY <1>1, <1>4
  <2>2. RuleOf(F) \in Seq(Nat) /\ Len(RuleOf(F)) >= 1
    BY <1>3
  <2> QED BY <2>1, <2>2, LowerCategory
<1>5. CASE RuleOf(F)[1] = 8
  <2>1. Suited(F)
    BY <1>2, <1>5, Categories
  <2>2. PICK s \in Suits : 5 <= Cardinality(OfSuit(C, s)) /\ OfSuit(C, s) = F
    BY <2>1, SuitFound
  <2>3. s = suit
    BY <1>1, <2>2, OneSuit
  <2>4. K = F
    <3>1. K \in SUBSET F /\ Cardinality(K) = Cardinality(F)
      BY <1>1, <2>2, <2>3
    <3> QED BY <1>2, <3>1, CardsAre, PartOf
  <2>5. /\ RuleOf(F) \in Seq(Nat) /\ Len(RuleOf(F)) = 2
        /\ RuleOf(F)[2] = m
    BY <1>1, <1>2, <2>4, RunMade
  <2>6. RuleOf(F) = Meaning(e)
    BY <1>1, <1>5, <2>5, SameTwo
  <2> QED BY <2>5, <2>6, SameHand
<1> QED BY <1>3, <1>4, <1>5

\* No five cards exceed four of a kind, when there is no straight flush.
LEMMA FourUnbeaten ==
  ASSUME NEW C, Seven(C), ~SixSuited(C), StraightFlushes(C) = {}, NEW e \in Fours(C),
         NEW F \in SUBSET C, Cardinality(F) = 5
  PROVE  Unbeaten(e, F)
<1>1. PICK r, k \in Ranks(C) : FourRead(C, e, r, k)
  BY FourReads
<1>2. /\ Count(C, r) = 4 /\ r \in Nat
      /\ k \in Ranks(C) \ {r} /\ k \in Nat /\ \A q \in Ranks(C) \ {r} : q <= k
      /\ Meaning(e) \in Seq(Nat) /\ Len(Meaning(e)) = 3 /\ Meaning(e)[1] = 7
      /\ Meaning(e)[2] = r /\ Meaning(e)[3] = k
  BY <1>1 DEF FourRead
<1>3. C \in SUBSET Deck /\ F \in SUBSET Deck /\ Cardinality(C) = 7
  BY DEF Seven
<1>4. /\ RuleOf(F) \in Seq(Nat) /\ Len(RuleOf(F)) >= 1 /\ RuleOf(F)[1] \in 0..8
      /\ RuleOf(F)[1] # 8
  <2>1. ~(IsStraight(F) /\ Suited(F))
    BY StraightFlushFound
  <2> QED BY <1>3, <2>1, Categories
<1>5. CASE RuleOf(F)[1] < 7
  <2>1. Meaning(e) \in Seq(Nat) /\ Len(Meaning(e)) >= 1 /\ RuleOf(F)[1] < Meaning(e)[1]
    BY <1>2, <1>5
  <2> QED BY <1>4, <2>1, LowerCategory
<1>6. CASE RuleOf(F)[1] = 7
  <2>1. FourShape(F) /\ Lists(F)
    BY <1>3, <1>6, Categories
  <2>2. Groups(F)[1] \in Ranks(C) /\ Count(C, Groups(F)[1]) = 4
    BY <2>1, FoursFound
  <2>3. Groups(F)[1] = r
    <3> SUFFICES ASSUME Groups(F)[1] # r PROVE FALSE
      OBVIOUS
    <3> DEFINE q == Groups(F)[1]
               A == Others(C, r)
    <3>1. /\ A \in SUBSET Deck /\ Cardinality(A) = Cardinality(C) - Count(C, r)
          /\ \A p : p # r => Count(A, p) = Count(C, p)
      BY <1>3, CountOthers DEF Others
    <3>4. q # r
      OBVIOUS
    <3>2. {c \in A : RankOf(c) = q} \in SUBSET A
      OBVIOUS
    <3> HIDE DEF A, q
    <3>3. Count(A, q) <= Cardinality(A) /\ Count(A, q) = Count(C, q)
      BY ZenonT(30), <3>1, <3>2, <3>4, CardsAre, PartOf DEF Count
    <3> QED BY <1>2, <1>3, <2>2, <3>1, <3>3 DEF q
  <2>4. /\ Cardinality(Ranks(F)) = 2 /\ 1 \in 1..Cardinality(Ranks(F))
        /\ 2 \in 1..Cardinality(Ranks(F)) /\ 1 < 2
    BY <2>1, ShapeTimes
  <2>5. Groups(F)[2] <= k
    <3>1. Groups(F)[2] \in Ranks(C)
      BY <2>4, GroupsWithin
    <3>2. Groups(F)[1] # Groups(F)[2]
      BY <1>3, <2>4, TimesFall
    <3> QED BY <1>2, <2>3, <3>1, <3>2
  <2>6. Len(RuleOf(F)) = 3 /\ RuleOf(F)[2] = r /\ RuleOf(F)[3] <= k
    BY <2>1, <2>3, <2>4, <2>5 DEF Lists
  <2>7. \A i \in 1..Len(RuleOf(F)) : RuleOf(F)[i] <= Meaning(e)[i]
    <3>1. \A i \in 1..3 : i = 1 \/ i = 2 \/ i = 3
      OBVIOUS
    <3> QED BY <1>2, <1>6, <2>6, <3>1
  <2>8. Len(RuleOf(F)) <= Len(Meaning(e))
    BY <1>2, <2>6
  <2> QED BY <1>2, <1>4, <2>7, <2>8, NotLessAnywhere DEF Unbeaten
<1> QED BY <1>4, <1>5, <1>6

\* What has not been found is not there.
LEMMA NotFound ==
  ASSUME NEW C, Seven(C), ~SixSuited(C), NEW F \in SUBSET C, Cardinality(F) = 5
  PROVE  /\ F \in SUBSET Deck /\ RuleOf(F) \in Seq(Nat) /\ Len(RuleOf(F)) >= 1
         /\ RuleOf(F)[1] \in 0..8
         /\ StraightFlushes(C) = {} => RuleOf(F)[1] # 8
         /\ Fours(C) = {} => RuleOf(F)[1] # 7
         /\ FullHouses(C) = {} => RuleOf(F)[1] # 6
         /\ Flushes(C) = {} => RuleOf(F)[1] # 5
         /\ Straights(Ranks(C)) = {} => RuleOf(F)[1] # 4
         /\ Threes(C) = {} => RuleOf(F)[1] # 3
         /\ TwoPairs(C) = {} => RuleOf(F)[1] # 2
         /\ Pairs(C) = {} => RuleOf(F)[1] # 1
<1>1. F \in SUBSET Deck
  BY DEF Seven
<1>2. RuleOf(F) \in Seq(Nat) /\ Len(RuleOf(F)) >= 1 /\ RuleOf(F)[1] \in 0..8
  BY <1>1, Categories
<1>3. ASSUME StraightFlushes(C) = {} PROVE RuleOf(F)[1] # 8
  <2>1. ~(IsStraight(F) /\ Suited(F))
    BY <1>3, StraightFlushFound
  <2> QED BY <1>1, <2>1, Categories
<1>4. ASSUME Fours(C) = {} PROVE RuleOf(F)[1] # 7
  <2>1. ~FourShape(F)
    BY <1>4, FoursFound
  <2> QED BY <1>1, <2>1, Categories
<1>5. ASSUME FullHouses(C) = {} PROVE RuleOf(F)[1] # 6
  <2>1. ~FullShape(F)
    BY <1>5, FullHousesFound
  <2> QED BY <1>1, <2>1, Categories
<1>6. ASSUME Flushes(C) = {} PROVE RuleOf(F)[1] # 5
  <2>1. ~Suited(F)
    BY <1>6, FlushFound
  <2> QED BY <1>1, <2>1, Categories
<1>7. ASSUME Straights(Ranks(C)) = {} PROVE RuleOf(F)[1] # 4
  <2>1. ~IsStraight(F)
    BY <1>7, StraightFound
  <2> QED BY <1>1, <2>1, Categories
<1>8. ASSUME Threes(C) = {} PROVE RuleOf(F)[1] # 3
  <2>1. ~ThreeShape(F)
    BY <1>8, ThreesFound
  <2> QED BY <1>1, <2>1, Categories
<1>9. ASSUME TwoPairs(C) = {} PROVE RuleOf(F)[1] # 2
  <2>1. ~TwoPairShape(F)
    BY <1>9, TwoPairsFound
  <2> QED BY <1>1, <2>1, Categories
<1>10. ASSUME Pairs(C) = {} PROVE RuleOf(F)[1] # 1
  <2>1. ~PairShape(F)
    BY <1>10, PairsFound
  <2> QED BY <1>1, <2>1, Categories
<1> QED BY <1>1, <1>2, <1>3, <1>4, <1>5, <1>6, <1>7, <1>8, <1>9, <1>10

\* One full house at most, if not many.
LEMMA OneFullHouse ==
  ASSUME NEW C, Seven(C), ~ManyFullHouses(C), NEW e \in FullHouses(C), NEW f \in FullHouses(C)
  PROVE  e = f
<1> DEFINE pairs == {tp \in RanksCounted(C, 3) \X RanksCounted(C, 2) : tp[1] # tp[2]}
           houses == FullHouses(C)
           house == [tp \in pairs |-> Evaluation(FullHouse, tp[1], <<tp[2]>>)]
           both == {e} \cup {f}
<1>1. IsFiniteSet(pairs)
  <2> DEFINE R == Ranks(C)
             all == R \X R
  <2>1. IsFiniteSet(R)
    BY CardsAre DEF Seven
  <2>2. pairs \in SUBSET all
    BY DEF RanksCounted
  <2> HIDE DEF R, pairs
  <2>3. IsFiniteSet(all)
    BY <2>1, FS_Product
  <2> HIDE DEF all
  <2> QED BY <2>2, <2>3, PartOf
<1>2. house \in [pairs -> houses] /\ \A t \in houses : \E tp \in pairs : house[tp] = t
  BY DEF FullHouses
<1> HIDE DEF pairs, house
<1>3. both \in SUBSET houses
  OBVIOUS
<1>6. ~(Cardinality(houses) > 1)
  BY DEF ManyFullHouses
<1> HIDE DEF houses
<1>4. house \in Surjection(pairs, houses)
  BY <1>2 DEF Surjection
<1>5. IsFiniteSet(houses)
  BY <1>1, <1>4, FS_Surjection
<1>7. Cardinality(both) <= Cardinality(houses) /\ Cardinality(houses) \in Nat
  <2> HIDE DEF both
  <2> QED BY <1>3, <1>5, PartOf
<1> SUFFICES ASSUME e # f PROVE FALSE
  OBVIOUS
<1>8. Cardinality(both) = 2
  <2> DEFINE one == {e}
  <2>1. IsFiniteSet(one) /\ Cardinality(one) = 1
    BY FS_Singleton
  <2>2. f \notin one
    OBVIOUS
  <2> HIDE DEF one
  <2>3. Cardinality(one \cup {f}) = Cardinality(one) + 1
    BY <2>1, <2>2, FS_AddElement
  <2> QED BY <2>1, <2>3 DEF one
<1> HIDE DEF both
<1> QED BY <1>6, <1>7, <1>8

\* No five cards exceed the only full house, when there is nothing above it.
LEMMA FullHouseUnbeaten ==
  ASSUME NEW C, Seven(C), ~SixSuited(C), ~ManyFullHouses(C), StraightFlushes(C) = {},
         Fours(C) = {}, NEW e \in FullHouses(C), NEW F \in SUBSET C, Cardinality(F) = 5
  PROVE  Unbeaten(e, F)
<1>1. PICK r, q \in Ranks(C) : FullHouseRead(C, e, r, q)
  BY FullHouseReads
<1>2. /\ e = Evaluation(FullHouse, r, <<q>>) /\ r \in Nat /\ q \in Nat
      /\ Meaning(e) \in Seq(Nat) /\ Len(Meaning(e)) = 3 /\ Meaning(e)[1] = 6
      /\ Meaning(e)[2] = r /\ Meaning(e)[3] = q
  BY <1>1, Zenon DEF FullHouseRead
<1>3. F \in SUBSET Deck /\ RuleOf(F) \in Seq(Nat) /\ Len(RuleOf(F)) >= 1 /\ RuleOf(F)[1] \in 0..6
  <2>1. F \in SUBSET Deck /\ RuleOf(F) \in Seq(Nat) /\ Len(RuleOf(F)) >= 1 /\ RuleOf(F)[1] \in 0..8
    BY NotFound
  <2>2. RuleOf(F)[1] # 8 /\ RuleOf(F)[1] # 7
    BY NotFound
  <2> QED BY <2>1, <2>2
<1>5. CASE RuleOf(F)[1] < 6
  <2>1. Meaning(e) \in Seq(Nat) /\ Len(Meaning(e)) = 3 /\ Meaning(e)[1] = 6
    BY <1>1, Zenon DEF FullHouseRead
  <2>2. Meaning(e) \in Seq(Nat) /\ Len(Meaning(e)) >= 1 /\ RuleOf(F)[1] < Meaning(e)[1]
    BY <1>5, <2>1
  <2> QED BY <1>3, <2>2, LowerCategory
<1>6. CASE RuleOf(F)[1] = 6
  <2>1. FullShape(F) /\ Lists(F)
    BY <1>3, <1>6, Categories
  <2>2. Evaluation(FullHouse, Groups(F)[1], <<Groups(F)[2]>>) = e
    BY <2>1, FullHousesFound, OneFullHouse
  <2>3. r = Groups(F)[1] /\ q = Groups(F)[2]
    BY <1>2, <2>2 DEF Evaluation
  <2>4. Cardinality(Ranks(F)) = 2
    BY <2>1, ShapeTimes
  <2>5. Len(RuleOf(F)) = 3 /\ RuleOf(F)[2] = r /\ RuleOf(F)[3] = q
    BY <2>1, <2>3, <2>4 DEF Lists
  <2>6. RuleOf(F) = Meaning(e)
    BY <1>2, <1>3, <1>6, <2>5, SameThree
  <2> QED BY <1>3, <2>6, SameHand
<1> QED BY <1>3, <1>5, <1>6

\* Cards listed downwards are no lower than five of those listed.
LEMMA ListedUnbeaten ==
  ASSUME NEW A \in SUBSET Deck, 5 <= Cardinality(A), NEW e, NEW K, Listed(A, e, K),
         NEW F \in SUBSET A, Cardinality(F) = 5, NoPairShape(F), Lists(F), RuleOf(F) \in Seq(Nat),
         RuleOf(F)[1] = e.rank
  PROVE  Unbeaten(e, F)
<1> DEFINE n == 5
<1>1. /\ Top(A, n, K) /\ Meaning(e) \in Seq(Nat) /\ Len(Meaning(e)) = 6
      /\ Meaning(e)[1] = e.rank /\ \A i \in 1..5 : Meaning(e)[i+1] = Descending(K)[i]
  BY DEF Listed
<1>2. F \in SUBSET Deck /\ Cardinality(Ranks(F)) = 5
  BY ShapeTimes
<1>3. \A i \in 1..5 : Descending(F)[i] = Groups(F)[i]
  BY <1>2, AllDescend
<1>4. \A i \in 1..5 : Descending(F)[i] <= Descending(A)[i]
  <2>1. \A i \in 1..Cardinality(F) : Descending(F)[i] <= Descending(A)[i]
    BY DescendingOrder
  <2> QED BY <2>1
<1>5. \A i \in 1..5 : Descending(K)[i] = Descending(A)[i]
  <2>1. n \in 0..Cardinality(A)
    BY CardsAre
  <2>2. Top(A, n, K)
    BY <1>1
  <2> HIDE DEF n
  <2>3. \A i \in 1..n : Descending(K)[i] = Descending(A)[i]
    BY <2>1, <2>2, TopDescends
  <2> QED BY <2>3 DEF n
<1>6. Len(RuleOf(F)) = 6 /\ \A i \in 1..5 : RuleOf(F)[i+1] = Groups(F)[i]
  BY <1>2 DEF Lists
<1>7. \A i \in 1..6 : RuleOf(F)[i] <= Meaning(e)[i]
  <2> SUFFICES ASSUME NEW i \in 1..6 PROVE RuleOf(F)[i] <= Meaning(e)[i]
    OBVIOUS
  <2>1. CASE i = 1
    <3>1. RuleOf(F)[1] = Meaning(e)[1] /\ Meaning(e)[1] \in Nat
      BY <1>1
    <3> QED BY <2>1, <3>1
  <2>2. CASE i # 1
    <3>1. i - 1 \in 1..5 /\ (i - 1) + 1 = i
      BY <2>2
    <3>2. RuleOf(F)[i] = Descending(F)[i-1] /\ Meaning(e)[i] = Descending(A)[i-1]
      BY <1>1, <1>3, <1>5, <1>6, <3>1
    <3> QED BY <1>4, <3>1, <3>2
  <2> QED BY <2>1, <2>2
<1>8. Len(RuleOf(F)) <= Len(Meaning(e)) /\ \A i \in 1..Len(RuleOf(F)) : RuleOf(F)[i] <= Meaning(e)[i]
  BY <1>1, <1>6, <1>7
<1> QED BY <1>1, <1>8, NotLessAnywhere DEF Unbeaten

\* No five cards exceed the five highest of a suit, when there is nothing above.
LEMMA FlushUnbeaten ==
  ASSUME NEW C, Seven(C), ~SixSuited(C), StraightFlushes(C) = {}, Fours(C) = {},
         FullHouses(C) = {}, NEW e \in Flushes(C), NEW F \in SUBSET C, Cardinality(F) = 5
  PROVE  Unbeaten(e, F)
<1>1. PICK suit \in Suits, K \in SUBSET C :
        K \in SUBSET OfSuit(C, suit) /\ Listed(OfSuit(C, suit), e, K) /\ e.rank = 5
  BY FlushReads
<1>2. /\ Meaning(e) \in Seq(Nat) /\ Len(Meaning(e)) = 6 /\ Meaning(e)[1] = 5
      /\ Cardinality(K) = 5
  BY <1>1 DEF Listed
<1>3. F \in SUBSET Deck /\ RuleOf(F) \in Seq(Nat) /\ Len(RuleOf(F)) >= 1 /\ RuleOf(F)[1] \in 0..5
  <2>1. F \in SUBSET Deck /\ RuleOf(F) \in Seq(Nat) /\ Len(RuleOf(F)) >= 1 /\ RuleOf(F)[1] \in 0..8
    BY NotFound
  <2>2. RuleOf(F)[1] # 8 /\ RuleOf(F)[1] # 7 /\ RuleOf(F)[1] # 6
    BY NotFound
  <2> QED BY <2>1, <2>2
<1>4. CASE RuleOf(F)[1] < 5
  <2>1. Meaning(e) \in Seq(Nat) /\ Len(Meaning(e)) >= 1 /\ RuleOf(F)[1] < Meaning(e)[1]
    BY <1>2, <1>4
  <2>2. RuleOf(F) \in Seq(Nat) /\ Len(RuleOf(F)) >= 1
    BY <1>3
  <2> QED BY <2>1, <2>2, LowerCategory
<1>5. CASE RuleOf(F)[1] = 5
  <2> DEFINE A == OfSuit(C, suit)
  <2>1. NoPairShape(F) /\ Suited(F) /\ Lists(F)
    BY <1>3, <1>5, Categories
  <2>2. PICK s \in Suits : 5 <= Cardinality(OfSuit(C, s)) /\ F \in SUBSET OfSuit(C, s)
    BY <2>1, SuitFound
  <2>3. A \in SUBSET Deck /\ 5 <= Cardinality(A)
    <3>1. A \in SUBSET Deck /\ K \in SUBSET A
      BY <1>1 DEF OfSuit, Seven
    <3> HIDE DEF A
    <3>2. Cardinality(K) <= Cardinality(A)
      BY <3>1, CardsAre, PartOf
    <3> QED BY <1>2, <3>1, <3>2
  <2>4. s = suit
    BY <2>2, <2>3, OneSuit
  <2>5. F \in SUBSET A /\ Listed(A, e, K) /\ RuleOf(F)[1] = e.rank
    BY <1>1, <1>5, <2>2, <2>4
  <2> HIDE DEF A
  <2> QED BY <1>3, <2>1, <2>3, <2>5, ListedUnbeaten
<1> QED BY <1>3, <1>4, <1>5

\* Beside the wheel and no six there is no other run among seven cards.
LEMMA WheelAlone ==
  ASSUME NEW C, Seven(C), ~LongWheel(C), Wheel \subseteq Ranks(C),
         NEW x \in Ranks(C), \A i \in 1..4 : x - i \in Ranks(C)
  PROVE  FALSE
<1>1. Ranks(C) \in SUBSET (2..14) /\ C \in SUBSET Deck /\ Cardinality(C) = 7
  BY CardsAre DEF Seven
<1>2. x \in 6..14
  <2>1. x - 4 \in Ranks(C)
    OBVIOUS
  <2> QED BY <1>1, <2>1
<1>3. 6 \notin Ranks(C)
  BY DEF LongWheel
<1>4. x \in 11..14
  <2>1. CASE x \in 7..10
    <3>1. x - 6 \in 1..4 /\ x - (x - 6) = 6
      BY <2>1
    <3> QED BY <1>3, <3>1
  <2>2. CASE x = 6
    BY <1>3, <2>2
  <2> QED BY <1>2, <2>1, <2>2
<1> DEFINE low == x - 3
           high == x - 1
           run == low..high
           S == Wheel \cup run
<1>5. run \in SUBSET Ranks(C) /\ Wheel \cap run = {}
  <2>1. \A y \in run : x - y \in 1..4 /\ x - (x - y) = y
    BY <1>4
  <2>2. Wheel \cap run = {}
    BY <1>4 DEF Wheel
  <2> QED BY <2>1, <2>2
<1>6. S \in SUBSET Ranks(C)
  BY <1>5
<1>7. IsFiniteSet(run) /\ Cardinality(run) = 3
  <2>1. low \in Int /\ high \in Int /\ low <= high /\ high - low + 1 = 3
    BY <1>4
  <2> HIDE DEF low, high
  <2>2. IsFiniteSet(run) /\ Cardinality(run) = high - low + 1
    BY <2>1, FS_Interval
  <2> QED BY <2>1, <2>2
<1> HIDE DEF run
<1>8. Cardinality(S) = 8
  <2>1. IsFiniteSet(Ranks(C)) /\ Wheel \in SUBSET Ranks(C)
    BY <1>1, CardsAre
  <2>2. IsFiniteSet(Wheel)
    BY <2>1, PartOf
  <2>3. Cardinality(S) = Cardinality(Wheel) + Cardinality(run) - Cardinality(Wheel \cap run)
    BY <1>7, <2>2, FS_Union
  <2>4. Cardinality(Wheel \cap run) = 0
    BY <1>5, FS_EmptySet
  <2> QED BY <1>7, <2>3, <2>4, WheelCounts
<1> HIDE DEF S
<1>9. PICK A \in SUBSET C : Cardinality(A) = Cardinality(S)
  BY <1>1, <1>6, OneOfEach
<1>10. Cardinality(A) <= Cardinality(C)
  BY <1>1, CardsAre, PartOf
<1> QED BY <1>1, <1>8, <1>9, <1>10

\* No five cards exceed a straight, unless one runs on above the wheel.
LEMMA StraightUnbeaten ==
  ASSUME NEW C, Seven(C), ~SixSuited(C), ~LongWheel(C), StraightFlushes(C) = {}, Fours(C) = {},
         FullHouses(C) = {}, Flushes(C) = {}, NEW e \in Straights(Ranks(C)),
         NEW F \in SUBSET C, Cardinality(F) = 5
  PROVE  Unbeaten(e, F)
<1>1. PICK m \in Nat :
        /\ RunOf(Ranks(C), m)
        /\ Meaning(e) \in Seq(Nat) /\ Len(Meaning(e)) = 2
        /\ Meaning(e)[1] = 4 /\ Meaning(e)[2] = m
  BY StraightReads
<1>3. F \in SUBSET Deck /\ RuleOf(F) \in Seq(Nat) /\ Len(RuleOf(F)) >= 1 /\ RuleOf(F)[1] \in 0..4
  <2>1. F \in SUBSET Deck /\ RuleOf(F) \in Seq(Nat) /\ Len(RuleOf(F)) >= 1 /\ RuleOf(F)[1] \in 0..8
    BY NotFound
  <2>2. RuleOf(F)[1] # 8 /\ RuleOf(F)[1] # 7 /\ RuleOf(F)[1] # 6 /\ RuleOf(F)[1] # 5
    BY NotFound
  <2> QED BY <2>1, <2>2
<1>4. CASE RuleOf(F)[1] < 4
  <2>1. Meaning(e) \in Seq(Nat) /\ Len(Meaning(e)) >= 1 /\ RuleOf(F)[1] < Meaning(e)[1]
    BY <1>1, <1>4
  <2>2. RuleOf(F) \in Seq(Nat) /\ Len(RuleOf(F)) >= 1
    BY <1>3
  <2> QED BY <2>1, <2>2, LowerCategory
<1>5. CASE RuleOf(F)[1] = 4
  <2>1. IsStraight(F)
    BY <1>3, <1>5, Categories
  <2>2. /\ Len(RuleOf(F)) = 2
        /\ RuleOf(F)[2] = IF Ranks(F) = Wheel THEN 5 ELSE Groups(F)[1]
    BY <1>3, <2>1, RuleShapes
  <2>3. Ranks(F) \in SUBSET Ranks(C)
    BY DEF Ranks
  <2>4. RuleOf(F)[2] <= m
    <3>1. CASE Ranks(F) = Wheel
      <4>1. m = 5
        BY <1>1, <2>3, <3>1 DEF RunOf
      <4> QED BY <2>2, <3>1, <4>1
    <3>2. CASE Ranks(F) # Wheel
      <4>1. /\ Groups(F)[1] \in Ranks(C)
            /\ \A i \in 1..4 : Groups(F)[1] - i \in Ranks(C)
        BY <1>3, <2>1, <2>3, <3>2, RunRule
      <4>2. ~(Wheel \subseteq Ranks(C))
        BY <4>1, WheelAlone
      <4>3. Groups(F)[1] <= m
        BY <1>1, <4>1, <4>2 DEF RunOf
      <4> QED BY <2>2, <3>2, <4>3
    <3> QED BY <3>1, <3>2
  <2>5. \A i \in 1..Len(RuleOf(F)) : RuleOf(F)[i] <= Meaning(e)[i]
    <3>1. \A i \in 1..2 : i = 1 \/ i = 2
      OBVIOUS
    <3> QED BY <1>1, <1>5, <2>2, <2>4, <3>1
  <2>6. Len(RuleOf(F)) <= Len(Meaning(e))
    BY <1>1, <2>2
  <2> QED BY <1>1, <1>3, <2>5, <2>6, NotLessAnywhere DEF Unbeaten
<1> QED BY <1>3, <1>4, <1>5

\* A rank and its kickers are no lower than five cards around the same rank.
LEMMA KickedUnbeaten ==
  ASSUME NEW C, Seven(C), NEW e, NEW r, NEW n \in Nat, NEW K, Kicked(C, e, r, n, K),
         NEW F \in SUBSET C, Cardinality(F) = 5, Groups(F)[1] = r,
         Cardinality(Ranks(F)) = n + 1, \A i \in 2..Cardinality(Ranks(F)) : Times(F, i) = 1,
         Lists(F), RuleOf(F) \in Seq(Nat), RuleOf(F)[1] = e.rank
  PROVE  Unbeaten(e, F)
<1> DEFINE A == Others(C, r)
           B == Others(F, r)
<1>1. /\ Meaning(e) \in Seq(Nat) /\ Len(Meaning(e)) = n + 2 /\ Top(A, n, K)
      /\ Meaning(e)[1] = e.rank /\ Meaning(e)[2] = r /\ r \in Nat
      /\ \A i \in 1..n : Meaning(e)[i+2] = Descending(K)[i]
  BY DEF Kicked
<1>2. F \in SUBSET Deck /\ A \in SUBSET Deck /\ B \in SUBSET A
  BY DEF Seven, Others
<1>3. Cardinality(B) = n /\ \A i \in 1..n : Descending(B)[i] = Groups(F)[i+1]
  <2>1. LET p == Cardinality(Ranks(F))
            L == Others(F, Groups(F)[1])
        IN  /\ p \in 2..5 /\ L \in SUBSET Deck /\ Cardinality(L) = p - 1
            /\ \A i \in 1..(p-1) : Descending(L)[i] = Groups(F)[i+1]
    BY <1>2, RestDescends
  <2> QED BY <2>1
<1> HIDE DEF A, B
<1>4. \A i \in 1..n : Descending(B)[i] <= Descending(A)[i]
  BY <1>2, <1>3, DescendingOrder
<1>5. \A i \in 1..n : Descending(K)[i] = Descending(A)[i]
  <2>1. n \in 0..Cardinality(A)
    BY <1>2, <1>3, CardsAre, PartOf
  <2>2. A \in SUBSET Deck /\ Top(A, n, K)
    BY <1>1, <1>2
  <2> QED BY <2>1, <2>2, TopDescends
<1>6. /\ Len(RuleOf(F)) = n + 2
      /\ \A i \in 1..(n+1) : RuleOf(F)[i+1] = Groups(F)[i]
  <2>1. /\ Len(RuleOf(F)) = Cardinality(Ranks(F)) + 1
        /\ \A i \in 1..Cardinality(Ranks(F)) : RuleOf(F)[i+1] = Groups(F)[i]
    BY DEF Lists
  <2>2. Cardinality(Ranks(F)) = n + 1
    OBVIOUS
  <2> QED BY <2>1, <2>2
<1>7. \A i \in 1..(n+2) : RuleOf(F)[i] <= Meaning(e)[i]
  <2> SUFFICES ASSUME NEW i \in 1..(n+2) PROVE RuleOf(F)[i] <= Meaning(e)[i]
    OBVIOUS
  <2>1. CASE i = 1
    <3>1. RuleOf(F)[1] = Meaning(e)[1] /\ Meaning(e)[1] \in Nat
      <4>1. 1 \in 1..Len(Meaning(e))
        BY <1>1
      <4> QED BY <1>1, <4>1
    <3> QED BY <2>1, <3>1
  <2>2. CASE i = 2
    <3>1. 1 \in 1..(n+1) /\ 1 + 1 = 2
      OBVIOUS
    <3>2. RuleOf(F)[2] = Groups(F)[1]
      BY <1>6, <3>1
    <3> QED BY <1>1, <2>2, <3>2
  <2>3. CASE i > 2
    <3>1. /\ i - 2 \in 1..n /\ i - 1 \in 1..(n+1) /\ (i - 2) + 2 = i /\ (i - 1) + 1 = i
          /\ (i - 2) + 1 = i - 1
      <4>1. n \in Int /\ i \in Int /\ 2 < i /\ i <= n + 2
        BY <2>3
      <4>2. i - 2 \in 1..n /\ i - 1 \in 1..(n+1)
        BY <4>1
      <4>3. (i - 2) + 2 = i /\ (i - 1) + 1 = i /\ (i - 2) + 1 = i - 1
        BY <4>1
      <4> QED BY <4>2, <4>3
    <3>2. Meaning(e)[i] = Descending(A)[i-2]
      BY <1>1, <1>5, <3>1
    <3>3. Descending(B)[i-2] = Groups(F)[i-1]
      BY <1>3, <3>1
    <3>4. RuleOf(F)[i] = Groups(F)[i-1]
      BY <1>6, <3>1
    <3> QED BY <1>4, <3>1, <3>2, <3>3, <3>4
  <2> QED BY <2>1, <2>2, <2>3
<1>8. Len(RuleOf(F)) <= Len(Meaning(e)) /\ \A i \in 1..Len(RuleOf(F)) : RuleOf(F)[i] <= Meaning(e)[i]
  BY <1>1, <1>6, <1>7
<1> QED BY <1>1, <1>8, NotLessAnywhere DEF Unbeaten

\* No five cards exceed three of a kind, when there is nothing above it.
LEMMA ThreeUnbeaten ==
  ASSUME NEW C, Seven(C), ~SixSuited(C), StraightFlushes(C) = {}, Fours(C) = {},
         FullHouses(C) = {}, Flushes(C) = {}, Straights(Ranks(C)) = {}, NEW e \in Threes(C),
         NEW F \in SUBSET C, Cardinality(F) = 5
  PROVE  Unbeaten(e, F)
<1> DEFINE n == 2
<1>1. PICK r \in Ranks(C), K \in SUBSET Deck :
        Count(C, r) >= 3 /\ Kicked(C, e, r, n, K) /\ e.rank = 3
  BY ThreeReads
<1>2. Meaning(e) \in Seq(Nat) /\ Len(Meaning(e)) >= 1 /\ Meaning(e)[1] = 3
  BY <1>1 DEF Kicked
<1> HIDE DEF n
<1>3. F \in SUBSET Deck /\ RuleOf(F) \in Seq(Nat) /\ Len(RuleOf(F)) >= 1 /\ RuleOf(F)[1] \in 0..3
  <2>1. F \in SUBSET Deck /\ RuleOf(F) \in Seq(Nat) /\ Len(RuleOf(F)) >= 1 /\ RuleOf(F)[1] \in 0..8
    BY NotFound
  <2>2. /\ RuleOf(F)[1] # 8 /\ RuleOf(F)[1] # 7 /\ RuleOf(F)[1] # 6 /\ RuleOf(F)[1] # 5
        /\ RuleOf(F)[1] # 4
    BY NotFound
  <2> QED BY <2>1, <2>2
<1>4. CASE RuleOf(F)[1] < 3
  <2>1. Meaning(e) \in Seq(Nat) /\ Len(Meaning(e)) >= 1 /\ RuleOf(F)[1] < Meaning(e)[1]
    BY <1>2, <1>4
  <2>2. RuleOf(F) \in Seq(Nat) /\ Len(RuleOf(F)) >= 1
    BY <1>3
  <2> QED BY <2>1, <2>2, LowerCategory
<1>5. CASE RuleOf(F)[1] = 3
  <2>1. ThreeShape(F) /\ Lists(F)
    BY <1>3, <1>5, Categories
  <2>2. Groups(F)[1] \in Ranks(C) /\ Count(C, Groups(F)[1]) >= 3
    BY <2>1, ThreesFound
  <2>3. Groups(F)[1] = r
    <3> SUFFICES ASSUME Groups(F)[1] # r PROVE FALSE
      OBVIOUS
    <3>1. Count(C, r) >= 2
      <4>1. Count(C, r) \in 0..4
        BY CountIs DEF Seven
      <4> QED BY <1>1, <4>1
    <3> QED BY <2>2, <3>1, FullHouseFound
  <2>4. Cardinality(Ranks(F)) = 3 /\ Times(F, 2) = 1 /\ Times(F, 3) = 1
    BY <2>1, ShapeTimes
  <2>5. Cardinality(Ranks(F)) = n + 1 /\ n \in Nat /\ \A i \in 2..Cardinality(Ranks(F)) : Times(F, i) = 1
    <3>1. \A i \in 2..3 : i = 2 \/ i = 3
      OBVIOUS
    <3> QED BY <2>4, <3>1 DEF n
  <2>6. RuleOf(F)[1] = e.rank
    BY <1>1, <1>5
  <2> QED BY <1>1, <1>3, <2>1, <2>3, <2>5, <2>6, KickedUnbeaten
<1> QED BY <1>3, <1>4, <1>5

\* No five cards exceed a pair, when there is nothing above it.
LEMMA PairUnbeaten ==
  ASSUME NEW C, Seven(C), ~SixSuited(C), StraightFlushes(C) = {}, Fours(C) = {},
         FullHouses(C) = {}, Flushes(C) = {}, Straights(Ranks(C)) = {}, Threes(C) = {},
         TwoPairs(C) = {}, NEW e \in Pairs(C), NEW F \in SUBSET C, Cardinality(F) = 5
  PROVE  Unbeaten(e, F)
<1> DEFINE n == 3
<1>1. PICK r \in Ranks(C), K \in SUBSET Deck :
        Count(C, r) >= 2 /\ Kicked(C, e, r, n, K) /\ e.rank = 1
  BY PairReads
<1>2. Meaning(e) \in Seq(Nat) /\ Len(Meaning(e)) >= 1 /\ Meaning(e)[1] = 1
  BY <1>1 DEF Kicked
<1> HIDE DEF n
<1>3. F \in SUBSET Deck /\ RuleOf(F) \in Seq(Nat) /\ Len(RuleOf(F)) >= 1 /\ RuleOf(F)[1] \in 0..1
  <2>1. F \in SUBSET Deck /\ RuleOf(F) \in Seq(Nat) /\ Len(RuleOf(F)) >= 1 /\ RuleOf(F)[1] \in 0..8
    BY NotFound
  <2>2. /\ RuleOf(F)[1] # 8 /\ RuleOf(F)[1] # 7 /\ RuleOf(F)[1] # 6 /\ RuleOf(F)[1] # 5
        /\ RuleOf(F)[1] # 4 /\ RuleOf(F)[1] # 3 /\ RuleOf(F)[1] # 2
    BY NotFound
  <2> QED BY <2>1, <2>2
<1>4. CASE RuleOf(F)[1] < 1
  <2>1. Meaning(e) \in Seq(Nat) /\ Len(Meaning(e)) >= 1 /\ RuleOf(F)[1] < Meaning(e)[1]
    BY <1>2, <1>4
  <2>2. RuleOf(F) \in Seq(Nat) /\ Len(RuleOf(F)) >= 1
    BY <1>3
  <2> QED BY <2>1, <2>2, LowerCategory
<1>5. CASE RuleOf(F)[1] = 1
  <2>1. PairShape(F) /\ Lists(F)
    BY <1>3, <1>5, Categories
  <2>2. Groups(F)[1] \in Ranks(C) /\ Count(C, Groups(F)[1]) >= 2
    BY <2>1, PairsFound
  <2>3. Groups(F)[1] = r
    BY <1>1, <2>2, TwoPairFound
  <2>4. Cardinality(Ranks(F)) = 4 /\ Times(F, 2) = 1 /\ Times(F, 3) = 1 /\ Times(F, 4) = 1
    BY <2>1, ShapeTimes
  <2>5. Cardinality(Ranks(F)) = n + 1 /\ n \in Nat /\ \A i \in 2..Cardinality(Ranks(F)) : Times(F, i) = 1
    <3>1. \A i \in 2..4 : i = 2 \/ i = 3 \/ i = 4
      OBVIOUS
    <3> QED BY <2>4, <3>1 DEF n
  <2>6. RuleOf(F)[1] = e.rank
    BY <1>1, <1>5
  <2> QED BY <1>1, <1>3, <2>1, <2>3, <2>5, <2>6, KickedUnbeaten
<1> QED BY <1>3, <1>4, <1>5

\* No five cards exceed the two highest pairs, when there is nothing above them.
LEMMA TwoPairUnbeaten ==
  ASSUME NEW C, Seven(C), ~SixSuited(C), StraightFlushes(C) = {}, Fours(C) = {},
         FullHouses(C) = {}, Flushes(C) = {}, Straights(Ranks(C)) = {}, Threes(C) = {},
         NEW e \in TwoPairs(C), NEW F \in SUBSET C, Cardinality(F) = 5
  PROVE  Unbeaten(e, F)
<1>0. PICK h, l, k \in Ranks(C) : TwoPairRead(C, e, h, l, k)
  BY TwoPairReads
<1>1. /\ h \in Nat /\ l \in Nat /\ l < h /\ k \in Nat
      /\ \A r \in Ranks(C) : Count(C, r) >= 2 => r <= h /\ (r # h => r <= l)
      /\ \A r \in Ranks(C) \ {h, l} : r <= k
      /\ Meaning(e) \in Seq(Nat) /\ Len(Meaning(e)) = 4 /\ Meaning(e)[1] = 2
      /\ Meaning(e)[2] = h /\ Meaning(e)[3] = l /\ Meaning(e)[4] = k
  BY <1>0 DEF TwoPairRead
<1>3. F \in SUBSET Deck /\ RuleOf(F) \in Seq(Nat) /\ Len(RuleOf(F)) >= 1 /\ RuleOf(F)[1] \in 0..2
  <2>1. F \in SUBSET Deck /\ RuleOf(F) \in Seq(Nat) /\ Len(RuleOf(F)) >= 1 /\ RuleOf(F)[1] \in 0..8
    BY NotFound
  <2>2. /\ RuleOf(F)[1] # 8 /\ RuleOf(F)[1] # 7 /\ RuleOf(F)[1] # 6 /\ RuleOf(F)[1] # 5
        /\ RuleOf(F)[1] # 4 /\ RuleOf(F)[1] # 3
    BY NotFound
  <2> QED BY <2>1, <2>2
<1>4. CASE RuleOf(F)[1] < 2
  <2>1. Meaning(e) \in Seq(Nat) /\ Len(Meaning(e)) >= 1 /\ RuleOf(F)[1] < Meaning(e)[1]
    BY <1>1, <1>4
  <2>2. RuleOf(F) \in Seq(Nat) /\ Len(RuleOf(F)) >= 1
    BY <1>3
  <2> QED BY <2>1, <2>2, LowerCategory
<1>5. CASE RuleOf(F)[1] = 2
  <2> DEFINE g1 == Groups(F)[1]
             g2 == Groups(F)[2]
             g3 == Groups(F)[3]
  <2>1. TwoPairShape(F) /\ Lists(F)
    BY <1>3, <1>5, Categories
  <2>2. /\ g2 < g1 /\ g1 \in Ranks(C) /\ Count(C, g1) >= 2
        /\ g2 \in Ranks(C) /\ Count(C, g2) >= 2
    BY <2>1, TwoPairsFound
  <2>3. /\ Cardinality(Ranks(F)) = 3 /\ 1 \in 1..Cardinality(Ranks(F))
        /\ 2 \in 1..Cardinality(Ranks(F)) /\ 3 \in 1..Cardinality(Ranks(F)) /\ 1 < 3 /\ 2 < 3
    BY <2>1, ShapeTimes
  <2>4. g3 \in Ranks(C) /\ g3 # g1 /\ g3 # g2
    <3>1. g3 \in Ranks(C)
      BY <2>3, GroupsWithin
    <3>2. g1 # g3 /\ g2 # g3
      BY <1>3, <2>3, TimesFall
    <3> QED BY <3>1, <3>2
  <2>5. g1 \in Nat /\ g2 \in Nat /\ g3 \in Nat
    BY <2>2, <2>4, CardsAre DEF Seven
  <2>6. /\ Len(RuleOf(F)) = 4 /\ RuleOf(F)[2] = g1 /\ RuleOf(F)[3] = g2
        /\ RuleOf(F)[4] = g3
    BY <2>1, <2>3 DEF Lists
  <2> HIDE DEF g1, g2, g3
  <2>7. /\ g1 <= h /\ (g1 = h => g2 <= l)
        /\ g1 = h /\ g2 = l => g3 <= k
    <3>1. g1 <= h
      BY <1>1, <2>2
    <3>2. g1 = h => g2 <= l
      BY <1>1, <2>2, <2>5
    <3>3. g1 = h /\ g2 = l => g3 <= k
      BY <1>1, <2>4
    <3> QED BY <3>1, <3>2, <3>3
  <2>8. ASSUME NEW i \in 1..Len(RuleOf(F)),
               \A j \in 1..(i-1) : Meaning(e)[j] = RuleOf(F)[j]
        PROVE  RuleOf(F)[i] <= Meaning(e)[i]
    <3>1. i = 1 \/ i = 2 \/ i = 3 \/ i = 4
      BY <2>6
    <3>2. CASE i = 1
      BY <1>1, <1>5, <3>2
    <3>3. CASE i = 2
      BY <1>1, <2>6, <2>7, <3>3
    <3>4. CASE i = 3
      <4>1. 2 \in 1..(i-1)
        BY <3>4
      <4>2. g1 = h
        BY <1>1, <2>6, <2>8, <4>1
      <4> QED BY <1>1, <2>6, <2>7, <3>4, <4>2
    <3>5. CASE i = 4
      <4>1. 2 \in 1..(i-1) /\ 3 \in 1..(i-1)
        BY <3>5
      <4>2. g1 = h /\ g2 = l
        BY <1>1, <2>6, <2>8, <4>1
      <4> QED BY <1>1, <2>6, <2>7, <3>5, <4>2
    <3> QED BY <3>1, <3>2, <3>3, <3>4, <3>5
  <2>9. Len(RuleOf(F)) <= Len(Meaning(e))
    BY <1>1, <2>6
  <2> QED BY <1>1, <1>3, <2>8, <2>9, NotLess DEF Unbeaten
<1> QED BY <1>3, <1>4, <1>5

\* No five cards exceed the five highest, when no check above found anything.
LEMMA HighCardUnbeaten ==
  ASSUME NEW C, Seven(C), ~SixSuited(C), StraightFlushes(C) = {}, Fours(C) = {},
         FullHouses(C) = {}, Flushes(C) = {}, Straights(Ranks(C)) = {}, Threes(C) = {},
         TwoPairs(C) = {}, Pairs(C) = {}, NEW e \in HighCards(C),
         NEW F \in SUBSET C, Cardinality(F) = 5
  PROVE  Unbeaten(e, F)
<1>1. PICK K \in SUBSET C : Listed(C, e, K) /\ e.rank = 0
  BY HighCardReads
<1>2. F \in SUBSET Deck /\ RuleOf(F) \in Seq(Nat) /\ Len(RuleOf(F)) >= 1 /\ RuleOf(F)[1] = 0
  <2>1. F \in SUBSET Deck /\ RuleOf(F) \in Seq(Nat) /\ Len(RuleOf(F)) >= 1 /\ RuleOf(F)[1] \in 0..8
    BY NotFound
  <2>2. /\ RuleOf(F)[1] # 8 /\ RuleOf(F)[1] # 7 /\ RuleOf(F)[1] # 6 /\ RuleOf(F)[1] # 5
        /\ RuleOf(F)[1] # 4 /\ RuleOf(F)[1] # 3 /\ RuleOf(F)[1] # 2 /\ RuleOf(F)[1] # 1
    BY NotFound
  <2> QED BY <2>1, <2>2
<1>3. NoPairShape(F) /\ Lists(F)
  BY <1>2, Categories
<1>4. C \in SUBSET Deck /\ 5 <= Cardinality(C) /\ RuleOf(F)[1] = e.rank
  BY <1>1, <1>2 DEF Seven
<1> QED BY <1>1, <1>2, <1>3, <1>4, ListedUnbeaten

\* Outside the three kinds of hands, no five of the cards exceed the evaluation.
LEMMA EvaluationUnbeaten ==
  ASSUME NEW C, Seven(C), ~SixSuited(C), ~LongWheel(C), ~ManyFullHouses(C),
         NEW e \in Evaluate(C), NEW F \in SUBSET C, Cardinality(F) = 5
  PROVE  Unbeaten(e, F)
<1>1. C # {}
  <2>1. Cardinality(C) # 0
    BY DEF Seven
  <2> QED BY <2>1, FS_EmptySet
<1>2. CASE e \in StraightFlushes(C)
  BY <1>2, StraightFlushUnbeaten
<1>3. CASE StraightFlushes(C) = {} /\ e \in Fours(C)
  BY <1>3, FourUnbeaten
<1>4. CASE StraightFlushes(C) = {} /\ Fours(C) = {} /\ e \in FullHouses(C)
  BY <1>4, FullHouseUnbeaten
<1>5. CASE StraightFlushes(C) = {} /\ Fours(C) = {} /\ FullHouses(C) = {} /\ e \in Flushes(C)
  BY <1>5, FlushUnbeaten
<1>6. CASE /\ StraightFlushes(C) = {} /\ Fours(C) = {} /\ FullHouses(C) = {}
           /\ Flushes(C) = {} /\ e \in Straights(Ranks(C))
  BY <1>6, StraightUnbeaten
<1>7. CASE /\ StraightFlushes(C) = {} /\ Fours(C) = {} /\ FullHouses(C) = {}
           /\ Flushes(C) = {} /\ Straights(Ranks(C)) = {} /\ e \in Threes(C)
  BY <1>7, ThreeUnbeaten
<1>8. CASE /\ StraightFlushes(C) = {} /\ Fours(C) = {} /\ FullHouses(C) = {}
           /\ Flushes(C) = {} /\ Straights(Ranks(C)) = {} /\ Threes(C) = {}
           /\ e \in TwoPairs(C)
  BY <1>8, TwoPairUnbeaten
<1>9. CASE /\ StraightFlushes(C) = {} /\ Fours(C) = {} /\ FullHouses(C) = {}
           /\ Flushes(C) = {} /\ Straights(Ranks(C)) = {} /\ Threes(C) = {}
           /\ TwoPairs(C) = {} /\ e \in Pairs(C)
  BY <1>9, PairUnbeaten
<1>10. CASE /\ StraightFlushes(C) = {} /\ Fours(C) = {} /\ FullHouses(C) = {}
            /\ Flushes(C) = {} /\ Straights(Ranks(C)) = {} /\ Threes(C) = {}
            /\ TwoPairs(C) = {} /\ Pairs(C) = {} /\ e \in HighCards(C)
  BY <1>10, HighCardUnbeaten
<1>11. \/ e \in StraightFlushes(C)
       \/ /\ StraightFlushes(C) = {}
          /\ \/ e \in Fours(C)
             \/ /\ Fours(C) = {}
                /\ \/ e \in FullHouses(C)
                   \/ /\ FullHouses(C) = {}
                      /\ \/ e \in Flushes(C)
                         \/ /\ Flushes(C) = {}
                            /\ \/ e \in Straights(Ranks(C))
                               \/ /\ Straights(Ranks(C)) = {}
                                  /\ \/ e \in Threes(C)
                                     \/ /\ Threes(C) = {}
                                        /\ \/ e \in TwoPairs(C)
                                           \/ /\ TwoPairs(C) = {}
                                              /\ \/ e \in Pairs(C)
                                                 \/ Pairs(C) = {} /\ e \in HighCards(C)
  BY <1>1, EvaluateIs
<1> QED BY <1>2, <1>3, <1>4, <1>5, <1>6, <1>7, <1>8, <1>9, <1>10, <1>11

\* Outside the three kinds of hands, the evaluation is the best hand.
LEMMA BestSaid ==
  ASSUME NEW C, Seven(C), ~SixSuited(C), ~LongWheel(C), ~ManyFullHouses(C),
         NEW e \in Evaluate(C)
  PROVE  Meaning(e) = BestOf(C)
<1>1. PICK F \in SUBSET C : Cardinality(F) = 5 /\ BestOf(C) = RuleOf(F)
  BY BestIs
<1>2. Unbeaten(e, F)
  BY <1>1, EvaluationUnbeaten
<1>3. ~SeqLess(Meaning(e), BestOf(C))
  BY <1>1, <1>2 DEF Unbeaten
<1>4. ~SeqLess(BestOf(C), Meaning(e))
  BY NeverMore
<1>5. BestOf(C) \in Seq(Nat) /\ Meaning(e) \in Seq(Nat)
  BY BestIs, MeaningIs
<1> QED BY <1>3, <1>4, <1>5, SeqLessTotal

-----------------------------------------------------------------------------
(* The winners.                                                            *)

\* What Ord for HandEvaluation compares.
Key(e) == <<e.rank, e.primary_rank>> \o e.tiebreakers

\* An evaluation of numbers; one that lists its ranks has the first as its primary.
Proper(e) ==
  /\ e.rank \in 0..8 /\ e.primary_rank \in Nat /\ e.tiebreakers \in Seq(Nat)
  /\ e.rank \in {HighCard, Flush} =>
       Len(e.tiebreakers) >= 1 /\ e.primary_rank = e.tiebreakers[1]

\* The first of some numbers is a number.
LEMMA FirstIsNat ==
  ASSUME NEW s \in Seq(Nat), Len(s) >= 1
  PROVE  s[1] \in Nat
<1>1. 1 \in 1..Len(s)
  OBVIOUS
<1> QED BY <1>1

\* Kickers are ranks.
LEMMA KickersNat ==
  ASSUME NEW A \in SUBSET Deck, NEW ranks, NEW n \in Nat
  PROVE  Kickers(A, ranks, n) \in Seq(Nat)
<1> DEFINE rest == Rest(A, ranks)
           m == Min({n, Cardinality(rest)})
           D == Descending(rest)
<1>1. rest \in SUBSET Deck
  BY DEF Rest
<1>2. Kickers(A, ranks, n) = SubSeq(D, 1, m)
  BY DEF Kickers, Rest
<1> HIDE DEF rest
<1>3. Cardinality(rest) \in Nat /\ D \in Seq(Nat) /\ Len(D) = Cardinality(rest)
  BY <1>1, CardsAre, DescendingIs
<1>4. m \in Nat /\ m <= Len(D)
  <2>1. n \in Int /\ Cardinality(rest) \in Int
    BY <1>3
  <2>2. m <= n /\ m <= Cardinality(rest) /\ (m = n \/ m = Cardinality(rest))
    BY <2>1, MinPair, Zenon
  <2> QED BY <1>3, <2>2
<1> HIDE DEF m, D
<1> QED BY <1>2, <1>3, <1>4

\* The five highest of some cards, the highest of them first.
LEMMA KickersFive ==
  ASSUME NEW A \in SUBSET Deck, 5 <= Cardinality(A)
  PROVE  /\ Kickers(A, {}, 5) \in Seq(Nat) /\ Len(Kickers(A, {}, 5)) = 5
         /\ Highest(Ranks(A)) = Kickers(A, {}, 5)[1]
<1> DEFINE n == 5
           none == {}
<1>1. Rest(A, none) = A /\ n \in Nat /\ n <= Cardinality(Rest(A, none))
  BY DEF Rest
<1> HIDE DEF n, none
<1>2. PICK K : /\ Top(Rest(A, none), n, K)
               /\ K \in SUBSET A /\ K \in SUBSET Deck /\ Cardinality(K) = n
               /\ Kickers(A, none, n) = Descending(K)
  BY <1>1, KickersAre
<1>3. Descending(K) \in Seq(Nat) /\ Len(Descending(K)) = n
  BY <1>2, DescendingIs
<1>4. Descending(K)[1] = Descending(A)[1]
  <2>1. n \in 0..Cardinality(A) /\ Top(A, n, K) /\ 1 \in 1..n
    BY <1>1, <1>2, CardsAre DEF n
  <2>2. \A i \in 1..n : Descending(K)[i] = Descending(A)[i]
    BY <2>1, TopDescends
  <2> QED BY <2>1, <2>2
<1>5. Descending(A)[1] = Highest(Ranks(A))
  <2> DEFINE x == Descending(A)[1]
             y == Highest(Ranks(A))
  <2>1. 1 \in 1..Cardinality(A) /\ IsFiniteSet(A) /\ Ranks(A) \in SUBSET (2..14)
    BY CardsAre
  <2>2. x \in Ranks(A) /\ Above(A, x) < 1
    BY <2>1, DescendingIs
  <2>3. y \in Ranks(A) /\ \A q \in Ranks(A) : q <= y
    BY <2>1, <2>2, HighestIs
  <2> HIDE DEF x, y
  <2>4. ASSUME x < y PROVE FALSE
    <3> DEFINE above == {c \in A : RankOf(c) > x}
    <3>1. above # {} /\ above \in SUBSET A
      BY <2>3, <2>4 DEF Ranks
    <3>2. Cardinality(above) < 1
      BY <2>2 DEF Above
    <3> HIDE DEF above
    <3>3. IsFiniteSet(above) /\ Cardinality(above) \in Nat
      BY <2>1, <3>1, PartOf
    <3>4. Cardinality(above) = 0
      BY <3>2, <3>3
    <3> QED BY <3>1, <3>3, <3>4, FS_EmptySet
  <2>5. x \in Int /\ y \in Int /\ x <= y
    BY <2>1, <2>2, <2>3
  <2>6. x = y
    BY <2>4, <2>5
  <2> QED BY <2>6 DEF x, y
<1> QED BY <1>2, <1>3, <1>4, <1>5 DEF n, none

\* Every check returns proper evaluations.
LEMMA EvaluationProper ==
  ASSUME NEW C, Seven(C), NEW e \in Evaluate(C)
  PROVE  Proper(e)
<1>0. C \in SUBSET Deck /\ Cardinality(C) = 7 /\ Ranks(C) \in SUBSET (2..14)
  BY CardsAre DEF Seven
<1>1. CASE e \in StraightFlushes(C)
  <2>1. PICK ranks \in FlushRanks(C) : \E f \in Straights({ranks[i] : i \in 1..5}) :
          e = Evaluation(StraightFlush, f.primary_rank, <<f.primary_rank>>)
    BY <1>1 DEF StraightFlushes
  <2>2. PICK f \in Straights({ranks[i] : i \in 1..5}) :
          e = Evaluation(StraightFlush, f.primary_rank, <<f.primary_rank>>)
    BY <2>1
  <2>3. e.rank = StraightFlush /\ e.primary_rank = f.primary_rank /\ e.tiebreakers = <<f.primary_rank>>
    BY <2>2 DEF Evaluation
  <2>4. f.primary_rank \in Nat
    <3>1. PICK m \in Nat : Meaning(e)[2] = m
      BY <1>1, StraightFlushReads
    <3>2. Meaning(e) = <<e.rank, e.primary_rank>>
      BY <2>3, RankNumbers DEF Meaning
    <3>3. Meaning(e)[2] = e.primary_rank
      BY <3>2
    <3> QED BY <2>3, <3>1, <3>3
  <2>5. e.tiebreakers \in Seq(Nat)
    BY <2>3, <2>4
  <2> QED BY <2>3, <2>4, <2>5, RankNumbers DEF Proper
<1>2. CASE e \in Fours(C)
  <2>1. PICK r \in RanksCounted(C, 4) : e = Evaluation(FourOfAKind, r, <<Highest(Ranks(C) \ {r})>>)
    BY <1>2 DEF Fours
  <2> DEFINE k == Highest(Ranks(C) \ {r})
  <2>2. e.rank = FourOfAKind /\ e.primary_rank = r /\ e.tiebreakers = <<k>>
    BY <2>1 DEF Evaluation
  <2>3. r \in Nat /\ k \in Nat
    <3>1. Ranks(C) \ {r} \in SUBSET (2..14)
      BY <1>0
    <3> QED BY <1>0, <3>1, HighestIs DEF RanksCounted
  <2> HIDE DEF k
  <2>4. <<k>> \in Seq(Nat)
    BY <2>3
  <2>5. e.tiebreakers \in Seq(Nat)
    BY <2>2, <2>4
  <2> QED BY <2>2, <2>3, <2>5, RankNumbers DEF Proper
<1>3. CASE e \in FullHouses(C)
  <2>1. PICK r, q \in Ranks(C) : FullHouseRead(C, e, r, q)
    BY <1>3, FullHouseReads
  <2>2. e = Evaluation(FullHouse, r, <<q>>) /\ r \in Nat /\ q \in Nat
    BY <2>1, Zenon DEF FullHouseRead
  <2>3. e.rank = FullHouse /\ e.primary_rank = r /\ e.tiebreakers = <<q>>
    BY <2>2 DEF Evaluation
  <2>4. <<q>> \in Seq(Nat)
    BY <2>2
  <2>5. e.tiebreakers \in Seq(Nat)
    BY <2>3, <2>4
  <2> QED BY <2>2, <2>3, <2>5, RankNumbers DEF Proper
<1>4. CASE e \in Flushes(C)
  <2>1. PICK ranks \in FlushRanks(C) : e = Evaluation(Flush, ranks[1], ranks)
    BY <1>4 DEF Flushes
  <2>2. PICK suit \in Suits : /\ 5 <= Cardinality(OfSuit(C, suit))
                              /\ ranks = Kickers(OfSuit(C, suit), {}, 5)
    BY FlushRanksAre
  <2>3. OfSuit(C, suit) \in SUBSET Deck
    BY <1>0 DEF OfSuit
  <2>4. ranks \in Seq(Nat) /\ Len(ranks) = 5
    BY <2>2, <2>3, KickersFive
  <2>5. e.rank = Flush /\ e.primary_rank = ranks[1] /\ e.tiebreakers = ranks
    BY <2>1 DEF Evaluation
  <2>6. 1 \in 1..Len(ranks) /\ Len(ranks) >= 1
    BY <2>4
  <2>7. ranks[1] \in Nat
    BY <2>4, <2>6, FirstIsNat
  <2>8. e.primary_rank \in Nat /\ e.tiebreakers \in Seq(Nat)
    BY <2>4, <2>5, <2>7
  <2>9. Len(e.tiebreakers) >= 1 /\ e.primary_rank = e.tiebreakers[1]
    BY <2>5, <2>6
  <2>10. e.rank \in 0..8
    BY <2>5, RankNumbers
  <2> QED BY <2>8, <2>9, <2>10 DEF Proper
<1>5. CASE e \in Straights(Ranks(C))
  <2>1. e.rank = Straight /\ e.primary_rank \in Nat
    BY <1>0, <1>5, StraightsRead
  <2>2. \/ e.tiebreakers = <<5, 4, 3, 2, 1>>
        \/ \E m : e = Evaluation(Straight, m, <<m>>)
    BY <1>5 DEF Straights, Evaluation
  <2>3. ASSUME NEW m, e = Evaluation(Straight, m, <<m>>) PROVE e.tiebreakers \in Seq(Nat)
    <3>1. e.primary_rank = m /\ e.tiebreakers = <<m>>
      BY <2>3 DEF Evaluation
    <3> QED BY <2>1, <3>1
  <2>4. <<5, 4, 3, 2, 1>> \in Seq(Nat)
    OBVIOUS
  <2>5. e.tiebreakers \in Seq(Nat)
    BY <2>2, <2>3, <2>4
  <2> QED BY <2>1, <2>5, RankNumbers DEF Proper
<1>6. CASE e \in Threes(C)
  <2> DEFINE n == 2
  <2>1. PICK r \in RanksCounted(C, 3) : e = Evaluation(ThreeOfAKind, r, Kickers(C, {r}, n))
    BY <1>6 DEF Threes
  <2>2. n \in Nat /\ r \in Nat
    BY <1>0 DEF RanksCounted
  <2>3. e.rank = ThreeOfAKind /\ e.primary_rank = r /\ e.tiebreakers = Kickers(C, {r}, n)
    BY <2>1 DEF Evaluation
  <2> HIDE DEF n
  <2>4. Kickers(C, {r}, n) \in Seq(Nat)
    BY <1>0, <2>2, KickersNat
  <2> QED BY <2>2, <2>3, <2>4, RankNumbers DEF Proper
<1>7. CASE Fours(C) = {} /\ e \in TwoPairs(C)
  <2>1. e.rank = TwoPair
    BY <1>7 DEF TwoPairs, Evaluation
  <2>2. PICK h, l, k \in Ranks(C) : TwoPairRead(C, e, h, l, k)
    BY <1>7, TwoPairReads
  <2>3. e.primary_rank \in Nat /\ e.tiebreakers \in Seq(Nat)
    BY <2>2, Zenon DEF TwoPairRead
  <2> QED BY <2>1, <2>3, RankNumbers DEF Proper
<1>8. CASE e \in Pairs(C)
  <2> DEFINE n == 3
  <2>1. PICK r \in RanksCounted(C, 2) : e = Evaluation(Pair, r, Kickers(C, {r}, n))
    BY <1>8 DEF Pairs
  <2>2. n \in Nat /\ r \in Nat
    BY <1>0 DEF RanksCounted
  <2>3. e.rank = Pair /\ e.primary_rank = r /\ e.tiebreakers = Kickers(C, {r}, n)
    BY <2>1 DEF Evaluation
  <2> HIDE DEF n
  <2>4. Kickers(C, {r}, n) \in Seq(Nat)
    BY <1>0, <2>2, KickersNat
  <2> QED BY <2>2, <2>3, <2>4, RankNumbers DEF Proper
<1>9. CASE e \in HighCards(C)
  <2> DEFINE K == Kickers(C, {}, 5)
  <2>1. e.rank = HighCard /\ e.primary_rank = Highest(Ranks(C)) /\ e.tiebreakers = K
    BY <1>9 DEF HighCards, Evaluation
  <2>2. K \in Seq(Nat) /\ Len(K) = 5 /\ Highest(Ranks(C)) = K[1]
    BY <1>0, KickersFive
  <2> HIDE DEF K
  <2>3. K[1] \in Nat
    <3>1. K \in Seq(Nat) /\ Len(K) >= 1
      BY <2>2
    <3> QED BY <3>1, FirstIsNat
  <2> QED BY <2>1, <2>2, <2>3, RankNumbers DEF Proper
<1>10. \/ e \in StraightFlushes(C)
       \/ e \in Fours(C)
       \/ e \in FullHouses(C)
       \/ e \in Flushes(C)
       \/ e \in Straights(Ranks(C))
       \/ e \in Threes(C)
       \/ Fours(C) = {} /\ e \in TwoPairs(C)
       \/ e \in Pairs(C)
       \/ e \in HighCards(C)
  BY ChecksAre
<1> QED BY <1>1, <1>2, <1>3, <1>4, <1>5, <1>6, <1>7, <1>8, <1>9, <1>10

\* The key, place by place.
LEMMA KeyIs ==
  ASSUME NEW e, Proper(e)
  PROVE  /\ Key(e) \in Seq(Nat) /\ Len(Key(e)) = Len(e.tiebreakers) + 2
         /\ Key(e)[1] = e.rank /\ Key(e)[2] = e.primary_rank
         /\ \A i \in 1..Len(e.tiebreakers) : Key(e)[i+2] = e.tiebreakers[i]
<1> DEFINE rank == e.rank
           primary == e.primary_rank
           ties == e.tiebreakers
<1>1. rank \in Nat /\ primary \in Nat /\ ties \in Seq(Nat) /\ Key(e) = <<rank, primary>> \o ties
  BY DEF Proper, Key
<1> HIDE DEF rank, primary, ties
<1>2. /\ <<rank, primary>> \o ties \in Seq(Nat)
      /\ Len(<<rank, primary>> \o ties) = Len(ties) + 2
      /\ (<<rank, primary>> \o ties)[1] = rank /\ (<<rank, primary>> \o ties)[2] = primary
      /\ \A i \in 1..Len(ties) : (<<rank, primary>> \o ties)[i+2] = ties[i]
  BY <1>1
<1> QED BY <1>1, <1>2 DEF rank, primary, ties

\* An evaluation that says its category and its list of ranks.
SaysList(e) ==
  /\ e.rank \in {HighCard, Flush}
  /\ Meaning(e) \in Seq(Nat) /\ Len(Meaning(e)) = Len(e.tiebreakers) + 1
  /\ Meaning(e)[1] = e.rank
  /\ \A i \in 1..Len(e.tiebreakers) : Meaning(e)[i+1] = e.tiebreakers[i]

\* An evaluation that says its category and its highest rank.
SaysRun(e) ==
  /\ e.rank \in {Straight, StraightFlush}
  /\ Meaning(e) \in Seq(Nat) /\ Len(Meaning(e)) = 2
  /\ Meaning(e)[1] = e.rank /\ Meaning(e)[2] = e.primary_rank

\* An evaluation that says all that Ord compares.
SaysAll(e) ==
  /\ e.rank \in {Pair, TwoPair, ThreeOfAKind, FullHouse, FourOfAKind}
  /\ Meaning(e) = Key(e)

\* There are no others.
LEMMA SaysOne ==
  ASSUME NEW e, Proper(e)
  PROVE  SaysList(e) \/ SaysRun(e) \/ SaysAll(e)
<1>1. e.rank \in 0..8 /\ e.primary_rank \in Nat /\ e.tiebreakers \in Seq(Nat)
  BY DEF Proper
<1>2. CASE e.rank \in {HighCard, Flush}
  <2>1. /\ Meaning(e) \in Seq(Nat) /\ Len(Meaning(e)) = Len(e.tiebreakers) + 1
        /\ Meaning(e)[1] = e.rank
        /\ \A i \in 1..Len(e.tiebreakers) : Meaning(e)[i+1] = e.tiebreakers[i]
    BY <1>1, <1>2, MeaningListed
  <2> QED BY <1>2, <2>1, Zenon DEF SaysList
<1>3. CASE e.rank \in {Straight, StraightFlush}
  <2>1. /\ Meaning(e) \in Seq(Nat) /\ Len(Meaning(e)) = 2
        /\ Meaning(e)[1] = e.rank /\ Meaning(e)[2] = e.primary_rank
    BY <1>1, <1>3, MeaningRun
  <2> QED BY <1>3, <2>1, Zenon DEF SaysRun
<1>4. CASE e.rank \in {Pair, TwoPair, ThreeOfAKind, FullHouse, FourOfAKind}
  <2>1. e.rank \notin {HighCard, Flush} /\ e.rank \notin {Straight, StraightFlush}
    BY <1>4, RankNumbers
  <2>2. Meaning(e) = <<e.rank, e.primary_rank>> \o e.tiebreakers
    BY <2>1 DEF Meaning
  <2> QED BY <1>4, <2>2 DEF SaysAll, Key
<1> QED BY <1>1, <1>2, <1>3, <1>4, RankNumbers

\* The category comes first.
LEMMA SaysRank ==
  ASSUME NEW e, Proper(e)
  PROVE  /\ Meaning(e) \in Seq(Nat) /\ Len(Meaning(e)) >= 1
         /\ Meaning(e)[1] = e.rank /\ e.rank \in Nat
<1>1. e.rank \in Nat /\ e.tiebreakers \in Seq(Nat) /\ Len(e.tiebreakers) \in Nat
  BY DEF Proper
<1>2. CASE SaysList(e)
  BY <1>1, <1>2 DEF SaysList
<1>3. CASE SaysRun(e)
  BY <1>1, <1>3 DEF SaysRun
<1>4. CASE SaysAll(e)
  <2>1. Key(e) \in Seq(Nat) /\ Len(Key(e)) = Len(e.tiebreakers) + 2 /\ Key(e)[1] = e.rank
    BY KeyIs
  <2>2. Meaning(e) = Key(e)
    BY <1>4 DEF SaysAll
  <2> QED BY <1>1, <2>1, <2>2
<1> QED BY <1>2, <1>3, <1>4, SaysOne

\* What an evaluation says is less only where Ord finds it less.
LEMMA MeaningKeeps ==
  ASSUME NEW e, Proper(e), NEW f, Proper(f), SeqLess(Meaning(e), Meaning(f))
  PROVE  Less(e, f)
<1> DEFINE se == e.tiebreakers
           sf == f.tiebreakers
           me == Meaning(e)
           mf == Meaning(f)
           ke == Key(e)
           kf == Key(f)
<1>1. /\ e.rank \in 0..8 /\ e.primary_rank \in Nat /\ se \in Seq(Nat)
      /\ f.rank \in 0..8 /\ f.primary_rank \in Nat /\ sf \in Seq(Nat)
  BY DEF Proper
<1>2. /\ ke \in Seq(Nat) /\ ke[1] = e.rank /\ ke[2] = e.primary_rank
      /\ kf \in Seq(Nat) /\ kf[1] = f.rank /\ kf[2] = f.primary_rank
      /\ Len(ke) = Len(se) + 2 /\ Len(kf) = Len(sf) + 2
      /\ Len(se) \in Nat /\ Len(sf) \in Nat
  <2>1. /\ ke \in Seq(Nat) /\ Len(ke) = Len(se) + 2
        /\ ke[1] = e.rank /\ ke[2] = e.primary_rank
    BY KeyIs, Zenon
  <2>2. /\ kf \in Seq(Nat) /\ Len(kf) = Len(sf) + 2
        /\ kf[1] = f.rank /\ kf[2] = f.primary_rank
    BY KeyIs, Zenon
  <2> HIDE DEF se, sf, ke, kf
  <2> QED BY <1>1, <2>1, <2>2
<1>3. (\E k \in 1..Len(kf) : LessAt(ke, kf, k)) => Less(e, f)
  BY <1>2, SeqLessAt DEF Less, Key
<1>6. /\ me \in Seq(Nat) /\ Len(me) >= 1 /\ me[1] = e.rank
      /\ mf \in Seq(Nat) /\ Len(mf) >= 1 /\ mf[1] = f.rank
      /\ Len(me) \in Nat /\ Len(mf) \in Nat
  BY SaysRank
<1>7. PICK k \in 1..Len(mf) : LessAt(me, mf, k)
  BY <1>6, SeqLessAt
<1>11. /\ \A i \in 1..Len(se) : ke[i+2] = se[i]
       /\ \A i \in 1..Len(sf) : kf[i+2] = sf[i]
  BY KeyIs
<1>12. SaysList(e) => /\ Len(me) = Len(se) + 1 /\ \A i \in 1..Len(se) : me[i+1] = se[i]
                      /\ Len(se) >= 1 /\ e.primary_rank = se[1]
  BY DEF SaysList, Proper
<1>13. SaysList(f) => /\ Len(mf) = Len(sf) + 1 /\ \A i \in 1..Len(sf) : mf[i+1] = sf[i]
                      /\ Len(sf) >= 1 /\ f.primary_rank = sf[1]
  BY DEF SaysList, Proper
<1>14. SaysRun(e) => Len(me) = 2 /\ me[2] = e.primary_rank
  BY DEF SaysRun
<1>15. SaysRun(f) => Len(mf) = 2 /\ mf[2] = f.primary_rank
  BY DEF SaysRun
<1>16. (SaysAll(e) => me = ke) /\ (SaysAll(f) => mf = kf)
  BY DEF SaysAll
<1> HIDE DEF se, sf, me, mf, ke, kf
<1>4. ASSUME e.rank < f.rank PROVE Less(e, f)
  <2>1. 1 \in 1..Len(kf) /\ LessAt(ke, kf, 1)
    BY <1>1, <1>2, <1>4 DEF LessAt
  <2> QED BY <1>3, <2>1
<1>5. ASSUME e.rank = f.rank, e.primary_rank < f.primary_rank PROVE Less(e, f)
  <2>1. 2 \in 1..Len(kf) /\ LessAt(ke, kf, 2)
    BY <1>1, <1>2, <1>5 DEF LessAt
  <2> QED BY <1>3, <2>1
<1>8. /\ k - 1 <= Len(me) /\ \A j \in 1..(k-1) : me[j] = mf[j]
      /\ k = Len(me) + 1 \/ (k <= Len(me) /\ me[k] < mf[k])
  BY <1>7 DEF LessAt
<1>9. CASE k = 1
  BY <1>4, <1>6, <1>8, <1>9
<1>10. CASE k > 1
  <2>1. e.rank = f.rank
    <3>1. 1 \in 1..(k-1)
      BY <1>10
    <3> QED BY <1>6, <1>8, <3>1
  <2>2. CASE SaysList(e) /\ SaysList(f)
    <3>1. /\ Len(me) = Len(se) + 1 /\ Len(mf) = Len(sf) + 1
          /\ \A i \in 1..Len(se) : me[i+1] = se[i]
          /\ \A i \in 1..Len(sf) : mf[i+1] = sf[i]
      BY <1>12, <1>13, <2>2
    <3>2. /\ Len(se) >= 1 /\ e.primary_rank = se[1]
          /\ Len(sf) >= 1 /\ f.primary_rank = sf[1]
      BY <1>12, <1>13, <2>2
    <3>3. e.primary_rank = me[2] /\ f.primary_rank = mf[2]
      <4>1. 1 \in 1..Len(se) /\ 1 \in 1..Len(sf) /\ 1 + 1 = 2
        BY <1>2, <3>2
      <4> QED BY <3>1, <3>2, <4>1
    <3>4. CASE k = 2
      <4>1. me[2] < mf[2]
        BY <1>2, <1>8, <3>1, <3>2, <3>4
      <4> QED BY <1>5, <2>1, <3>3, <4>1
    <3>5. CASE k # 2
      <4>1. 2 \in 1..(k-1) /\ k > 2
        BY <1>10, <3>5
      <4>2. e.primary_rank = f.primary_rank
        BY <1>8, <3>3, <4>1
      <4>3. \A j \in 1..k : ke[j] = kf[j]
        <5> SUFFICES ASSUME NEW j \in 1..k PROVE ke[j] = kf[j]
          OBVIOUS
        <5>1. CASE j = 1 \/ j = 2
          BY <1>2, <2>1, <4>2, <5>1
        <5>2. CASE j > 2
          <6> DEFINE i == j - 2
          <6>1. /\ i \in 1..Len(se) /\ i \in 1..Len(sf) /\ i + 2 = j /\ i + 1 = j - 1
                /\ j - 1 \in 1..(k-1)
            <7>1. Len(se) \in Nat /\ Len(sf) \in Nat /\ k \in Nat /\ j \in Nat /\ j <= k
              BY <1>2, <1>6
            <7>2. k - 1 <= Len(se) + 1 /\ k <= Len(sf) + 1
              BY <1>6, <1>8, <3>1
            <7> QED BY <5>2, <7>1, <7>2
          <6> HIDE DEF i
          <6>2. ke[i+2] = se[i] /\ kf[i+2] = sf[i]
            BY <1>11, <6>1
          <6>3. me[i+1] = se[i] /\ mf[i+1] = sf[i]
            BY <3>1, <6>1
          <6>4. me[j-1] = mf[j-1]
            BY <1>8, <6>1
          <6> QED BY <6>1, <6>2, <6>3, <6>4
        <5> QED BY <5>1, <5>2
      <4>4. /\ k + 1 \in 1..Len(kf) /\ (k + 1) - 1 = k /\ k <= Len(ke)
        BY <1>2, <1>8, <3>1
      <4>5. CASE k = Len(me) + 1
        <5>1. k + 1 = Len(ke) + 1
          BY <1>2, <3>1, <4>5
        <5>2. LessAt(ke, kf, k + 1)
          BY <4>3, <4>4, <5>1 DEF LessAt
        <5> QED BY <1>3, <4>4, <5>2
      <4>6. CASE k <= Len(me) /\ me[k] < mf[k]
        <5> DEFINE i == k - 1
        <5>1. i \in 1..Len(se) /\ i \in 1..Len(sf) /\ i + 1 = k /\ i + 2 = k + 1
          BY <1>2, <3>1, <4>1, <4>6
        <5> HIDE DEF i
        <5>2. ke[i+2] = se[i] /\ kf[i+2] = sf[i] /\ me[i+1] = se[i] /\ mf[i+1] = sf[i]
          BY <1>11, <3>1, <5>1
        <5>3. k + 1 <= Len(ke) /\ ke[k+1] < kf[k+1]
          <6>1. ke[k+1] = me[k] /\ kf[k+1] = mf[k]
            BY <5>1, <5>2
          <6>2. Len(ke) = Len(me) + 1 /\ Len(me) \in Nat /\ k \in Nat
            BY <1>2, <1>6, <3>1
          <6> QED BY <4>6, <6>1, <6>2
        <5>4. LessAt(ke, kf, k + 1)
          BY <4>3, <4>4, <5>3 DEF LessAt
        <5> QED BY <1>3, <4>4, <5>4
      <4> QED BY <1>8, <4>5, <4>6
    <3> QED BY <3>4, <3>5
  <2>3. CASE SaysRun(e) /\ SaysRun(f)
    <3>1. Len(me) = 2 /\ Len(mf) = 2 /\ me[2] = e.primary_rank /\ mf[2] = f.primary_rank
      BY <1>14, <1>15, <2>3
    <3>2. k = 2 /\ me[2] < mf[2]
      BY <1>8, <1>10, <3>1
    <3> QED BY <1>5, <2>1, <3>1, <3>2
  <2>4. CASE SaysAll(e) /\ SaysAll(f)
    <3>1. me = ke /\ mf = kf
      BY <1>16, <2>4
    <3> QED BY <1>3, <1>7, <3>1
  <2>5. \/ SaysList(e) /\ SaysList(f)
        \/ SaysRun(e) /\ SaysRun(f)
        \/ SaysAll(e) /\ SaysAll(f)
    <3>1. SaysList(e) \/ SaysRun(e) \/ SaysAll(e)
      BY SaysOne
    <3>2. SaysList(f) \/ SaysRun(f) \/ SaysAll(f)
      BY SaysOne
    <3>3. \A x \in {e, f} : SaysList(x) => x.rank \in {0, 5}
      BY RankNumbers DEF SaysList
    <3>4. \A x \in {e, f} : SaysRun(x) => x.rank \in {4, 8}
      BY RankNumbers DEF SaysRun
    <3>5. \A x \in {e, f} : SaysAll(x) => x.rank \in {1, 2, 3, 6, 7}
      BY RankNumbers DEF SaysAll
    <3> QED BY <2>1, <3>1, <3>2, <3>3, <3>4, <3>5
  <2> QED BY <2>2, <2>3, <2>4, <2>5
<1> QED BY <1>9, <1>10

-----------------------------------------------------------------------------
(* The deal.                                                               *)

\* Every player's cards are dealt from the deck, none of them also on the board or
\* to another player, and the board waits for the hole cards.
DealtFromDeck ==
  /\ hole \in [Players -> SUBSET Deck] /\ board \in SUBSET Deck
  /\ Cardinality(board) \in 0..5
  /\ \A p \in Players : /\ Cardinality(hole[p]) \in 0..2 /\ hole[p] \cap board = {}
                        /\ Cardinality(board) > 0 => Cardinality(hole[p]) = 2
  /\ \A p, q \in Players : p # q => hole[p] \cap hole[q] = {}

\* One more card.
LEMMA OneMore ==
  ASSUME NEW A \in SUBSET Deck, NEW c \in Deck, c \notin A
  PROVE  A \cup {c} \in SUBSET Deck /\ Cardinality(A \cup {c}) = Cardinality(A) + 1
<1>1. IsFiniteSet(A)
  BY CardsAre
<1> QED BY <1>1, FS_AddElement

\* The deal never deals a card twice, nor too many: the inductive invariant of
\* the deal.
THEOREM DealIsFair == Spec => []DealtFromDeck
<1>1. Init => DealtFromDeck
  <2>1. Cardinality({}) = 0
    BY FS_EmptySet
  <2> QED BY <2>1 DEF Init, DealtFromDeck
<1>2. DealtFromDeck /\ [Next]_vars => DealtFromDeck'
  <2> SUFFICES ASSUME DealtFromDeck, [Next]_vars PROVE DealtFromDeck'
    OBVIOUS
  <2>1. CASE DealBoard
    <3>1. /\ \A p \in Players : Cardinality(hole[p]) = 2
          /\ Cardinality(board) < 5 /\ hole' = hole
      BY <2>1 DEF DealBoard
    <3>2. PICK c \in Deck \ Dealt : board' = board \cup {c}
      BY <2>1 DEF DealBoard
    <3>3. c \notin board /\ \A p \in Players : c \notin hole[p]
      BY DEF Dealt
    <3>4. board' \in SUBSET Deck /\ Cardinality(board') = Cardinality(board) + 1
      BY <3>2, <3>3, OneMore DEF DealtFromDeck
    <3>5. Cardinality(board') \in 0..5
      BY <3>1, <3>4 DEF DealtFromDeck
    <3>6. \A p \in Players : hole'[p] \cap board' = {}
      BY <3>1, <3>2, <3>3 DEF DealtFromDeck
    <3>7. hole' \in [Players -> SUBSET Deck] /\ \A p \in Players : Cardinality(hole'[p]) = 2
      BY <3>1 DEF DealtFromDeck
    <3>8. \A p, q \in Players : p # q => hole'[p] \cap hole'[q] = {}
      BY <3>1 DEF DealtFromDeck
    <3> QED BY <3>4, <3>5, <3>6, <3>7, <3>8 DEF DealtFromDeck
  <2>2. ASSUME NEW p \in Players, DealHole(p) PROVE DealtFromDeck'
    <3>1. Cardinality(hole[p]) < 2 /\ board' = board
      BY <2>2 DEF DealHole
    <3>2. PICK c \in Deck \ Dealt : hole' = [hole EXCEPT ![p] = @ \cup {c}]
      BY <2>2 DEF DealHole
    <3>3. c \notin board /\ c \notin hole[p]
      BY DEF Dealt
    <3>4. hole[p] \cup {c} \in SUBSET Deck /\ Cardinality(hole[p] \cup {c}) = Cardinality(hole[p]) + 1
      BY <3>3, OneMore DEF DealtFromDeck
    <3>5. /\ hole'[p] = hole[p] \cup {c} /\ \A q \in Players \ {p} : hole'[q] = hole[q]
          /\ hole' \in [Players -> SUBSET Deck]
      BY <3>2, <3>4 DEF DealtFromDeck
    <3>6. Cardinality(board) = 0
      BY <3>1 DEF DealtFromDeck
    <3>7. ASSUME NEW q \in Players
          PROVE  Cardinality(hole'[q]) \in 0..2 /\ hole'[q] \cap board = {}
      <4>1. CASE q = p
        <5>1. Cardinality(hole'[p]) \in 0..2
          BY <3>1, <3>4, <3>5 DEF DealtFromDeck
        <5>2. hole'[p] \cap board = {}
          BY <3>3, <3>5 DEF DealtFromDeck
        <5> QED BY <4>1, <5>1, <5>2
      <4>2. CASE q # p
        BY <3>5, <4>2 DEF DealtFromDeck
      <4> QED BY <4>1, <4>2
    <3>8. board' \in SUBSET Deck /\ Cardinality(board') \in 0..5 /\ ~(Cardinality(board') > 0)
      BY <3>1, <3>6 DEF DealtFromDeck
    <3>9. ASSUME NEW q \in Players, NEW o \in Players, q # o
          PROVE  hole'[q] \cap hole'[o] = {}
      <4>1. \A x \in Players : c \notin hole[x]
        BY DEF Dealt
      <4>2. hole[q] \cap hole[o] = {}
        BY <3>9 DEF DealtFromDeck
      <4> QED BY <3>5, <3>9, <4>1, <4>2
    <3> QED BY <3>1, <3>5, <3>7, <3>8, <3>9 DEF DealtFromDeck
  <2>3. CASE UNCHANGED vars
    BY <2>3 DEF vars, DealtFromDeck
  <2> QED BY <2>1, <2>2, <2>3 DEF Next
<1> QED BY <1>1, <1>2, PTL DEF Spec

\* At a showdown everybody has seven cards.
LEMMA SevenCards ==
  ASSUME DealtFromDeck, Complete, NEW p \in Players
  PROVE  Seven(Cards(p))
<1>1. /\ hole[p] \in SUBSET Deck /\ board \in SUBSET Deck /\ hole[p] \cap board = {}
      /\ Cardinality(hole[p]) = 2 /\ Cardinality(board) = 5
  BY DEF DealtFromDeck, Complete
<1>2. IsFiniteSet(hole[p]) /\ IsFiniteSet(board)
  BY <1>1, CardsAre
<1>3. Cardinality(hole[p] \cup board) =
        Cardinality(hole[p]) + Cardinality(board) - Cardinality(hole[p] \cap board)
  BY <1>2, FS_Union
<1>4. Cardinality(hole[p] \cap board) = 0
  BY <1>1, FS_EmptySet
<1> QED BY <1>1, <1>3, <1>4 DEF Seven, Cards

\* evaluate_hand never says more of a hand than the best five of its cards: for
\* every deck of ranks Two to Ace in at most four suits, and every number of players.
THEOREM EvaluationNeverOverrates == Spec => []NeverOverrated
<1>1. DealtFromDeck => NeverOverrated
  <2> SUFFICES ASSUME DealtFromDeck, Complete, NEW p \in Players, NEW e \in Evaluate(Cards(p))
               PROVE  ~SeqLess(BestOf(Cards(p)), Meaning(e))
    BY DEF NeverOverrated
  <2>1. Seven(Cards(p))
    BY SevenCards
  <2> QED BY <2>1, NeverMore
<1> QED BY <1>1, DealIsFair, PTL

\* poker_server/README.md, "standard poker hand rankings": outside the three kinds
\* of hands, evaluate_hand finds the best five of the seven cards, in category and
\* in every rank that counts, whichever rank its maps yield first.
THEOREM EvaluationIsTheBest == Spec => []EvaluationIsBest
<1>1. DealtFromDeck => EvaluationIsBest
  <2> SUFFICES ASSUME DealtFromDeck, Complete, NEW p \in Players, NEW e \in Evaluate(Cards(p)),
                      ~SixSuited(Cards(p)), ~LongWheel(Cards(p)), ~ManyFullHouses(Cards(p))
               PROVE  Meaning(e) = BestOf(Cards(p))
    BY DEF EvaluationIsBest
  <2>1. Seven(Cards(p))
    BY SevenCards
  <2> QED BY <2>1, BestSaid
<1> QED BY <1>1, DealIsFair, PTL

-----------------------------------------------------------------------------
(* The showdown.                                                           *)

\* Every hand at the showdown has a proper evaluation.
LEMMA EvaluationsAre ==
  ASSUME DealtFromDeck, Complete, NEW evals \in Evaluations, NEW p \in Players
  PROVE  Seven(Cards(p)) /\ evals[p] \in Evaluate(Cards(p)) /\ Proper(evals[p])
<1>1. Seven(Cards(p)) /\ evals[p] \in Evaluate(Cards(p))
  BY SevenCards DEF Evaluations
<1> QED BY <1>1, EvaluationProper

\* Among equal categories the lower primary rank is less.
LEMMA LessByPrimary ==
  ASSUME NEW e, Proper(e), NEW f, Proper(f), e.rank = f.rank,
         e.primary_rank < f.primary_rank
  PROVE  Less(e, f)
<1> DEFINE ke == Key(e)
           kf == Key(f)
           re == e.rank
           pe == e.primary_rank
           pf == f.primary_rank
           n == Len(e.tiebreakers)
           m == Len(f.tiebreakers)
<1>1. n \in Nat /\ m \in Nat
  BY DEF Proper
<1>2. ke \in Seq(Nat) /\ Len(ke) = n + 2 /\ ke[1] = re /\ ke[2] = pe
  BY KeyIs, Zenon
<1>3. kf \in Seq(Nat) /\ Len(kf) = m + 2 /\ kf[1] = re /\ kf[2] = pf
  <2>1. kf \in Seq(Nat) /\ Len(kf) = m + 2 /\ kf[1] = f.rank /\ kf[2] = pf
    BY KeyIs, Zenon
  <2> QED BY <2>1
<1>4. pe < pf
  OBVIOUS
<1>5. SeqLess(ke, kf) => Less(e, f)
  BY DEF Less, Key
<1> HIDE DEF ke, kf, re, pe, pf, n, m
<1>6. 2 \in 1..Len(kf) /\ LessAt(ke, kf, 2)
  BY <1>1, <1>2, <1>3, <1>4 DEF LessAt
<1> QED BY <1>2, <1>3, <1>5, <1>6, SeqLessAt

\* Whoever holds what, somebody wins.
SomebodyWins == Complete => \A evals \in Evaluations : Winners(evals) # {}

\* showdown's list of winners is never empty: Ord has a greatest hand among those at
\* the showdown, which ties with itself.
THEOREM SomebodyAlwaysWins == Spec => []SomebodyWins
<1>1. DealtFromDeck => SomebodyWins
  <2> SUFFICES ASSUME DealtFromDeck, Complete, NEW evals \in Evaluations
               PROVE  Winners(evals) # {}
    BY DEF SomebodyWins
  <2> DEFINE S == {Key(evals[q]) : q \in Players}
             key == [q \in Players |-> Key(evals[q])]
  <2>1. \A q \in Players : Key(evals[q]) \in Seq(Nat)
    <3> TAKE q \in Players
    <3>1. Proper(evals[q])
      BY EvaluationsAre
    <3> QED BY <3>1, KeyIs
  <2>2. S \in SUBSET Seq(Nat) /\ S # {}
    BY <2>1, PlayersAssumption
  <2>3. IsFiniteSet(S)
    <3>1. key \in [Players -> S] /\ \A t \in S : \E q \in Players : key[q] = t
      OBVIOUS
    <3> HIDE DEF key, S
    <3>2. key \in Surjection(Players, S)
      BY <3>1 DEF Surjection
    <3> QED BY <3>2, FS_Surjection, PlayersAssumption
  <2>4. PICK r \in S : \A s \in S : ~SeqLess(r, s)
    <3> HIDE DEF S
    <3> QED BY <2>2, <2>3, GreatestExists
  <2>5. PICK b \in Players : r = Key(evals[b])
    OBVIOUS
  <2>6. \A q \in Players : ~Less(evals[b], evals[q])
    BY <2>4, <2>5 DEF Less, Key
  <2>7. b \in Winners(evals)
    BY <2>6 DEF Winners
  <2> QED BY <2>7
<1> QED BY <1>1, DealIsFair, PTL

\* The primary rank is all that showdown misses: if somebody's best five cards are
\* better than those of a winner, either that hand is of one of the three kinds or
\* the winner ties in rank and tiebreakers with a higher primary rank.
OnlyPrimaryIsMissed ==
  Complete =>
    \A evals \in Evaluations : \A w \in Winners(evals), p \in Players :
      \/ ~SeqLess(BestOf(Cards(w)), BestOf(Cards(p)))
      \/ SixSuited(Cards(p)) \/ LongWheel(Cards(p)) \/ ManyFullHouses(Cards(p))
      \/ \E q \in Players : /\ evals[q].rank = evals[w].rank
                            /\ evals[q].tiebreakers = evals[w].tiebreakers
                            /\ evals[w].primary_rank < evals[q].primary_rank

\* The tie without primary_rank is the one flaw of showdown's choice, whatever the
\* cards: a winner nobody ties with in this way holds the best hand, up to the three
\* kinds.
THEOREM ShowdownMissesPrimaryOnly == Spec => []OnlyPrimaryIsMissed
<1>1. ASSUME DealtFromDeck, Complete, NEW evals \in Evaluations, NEW w \in Winners(evals),
             NEW p \in Players,
             ~SixSuited(Cards(p)), ~LongWheel(Cards(p)), ~ManyFullHouses(Cards(p)),
             \A q \in Players : ~ /\ evals[q].rank = evals[w].rank
                                  /\ evals[q].tiebreakers = evals[w].tiebreakers
                                  /\ evals[w].primary_rank < evals[q].primary_rank
      PROVE  ~SeqLess(BestOf(Cards(w)), BestOf(Cards(p)))
  <2>1. w \in Players
    BY DEF Winners
  <2>2. PICK b \in Players : /\ \A q \in Players : ~Less(evals[b], evals[q])
                             /\ evals[w].rank = evals[b].rank
                             /\ evals[w].tiebreakers = evals[b].tiebreakers
    BY DEF Winners
  <2>12. DealtFromDeck /\ Complete
    BY <1>1
  <2>13. ASSUME NEW q \in Players
         PROVE  Seven(Cards(q)) /\ evals[q] \in Evaluate(Cards(q)) /\ Proper(evals[q])
    BY <2>12, EvaluationsAre
  <2>3. Proper(evals[w]) /\ Proper(evals[b]) /\ Proper(evals[p])
    BY <2>1, <2>13
  <2>4. evals[w].primary_rank = evals[b].primary_rank
    <3>1. evals[w].primary_rank \in Nat /\ evals[b].primary_rank \in Nat
      BY <2>3 DEF Proper
    <3>2. ~(evals[w].primary_rank < evals[b].primary_rank)
      BY <1>1, <2>2
    <3>3. ~(evals[b].primary_rank < evals[w].primary_rank)
      BY <2>1, <2>2, <2>3, LessByPrimary
    <3> QED BY <3>1, <3>2, <3>3
  <2>5. ~Less(evals[w], evals[p])
    BY <2>2, <2>4 DEF Less
  <2>6. ~SeqLess(Meaning(evals[w]), Meaning(evals[p]))
    BY <2>3, <2>5, MeaningKeeps
  <2>7. /\ Seven(Cards(w)) /\ evals[w] \in Evaluate(Cards(w))
        /\ Seven(Cards(p)) /\ evals[p] \in Evaluate(Cards(p))
    BY <2>1, <2>13
  <2>8. Meaning(evals[p]) = BestOf(Cards(p))
    BY <1>1, <2>7, BestSaid
  <2>9. ~SeqLess(BestOf(Cards(w)), Meaning(evals[w]))
    BY <2>7, NeverMore
  <2>10. /\ BestOf(Cards(w)) \in Seq(Nat) /\ Meaning(evals[w]) \in Seq(Nat)
         /\ Meaning(evals[p]) \in Seq(Nat)
    BY <2>3, <2>7, BestIs, SaysRank
  <2>11. \/ BestOf(Cards(w)) = Meaning(evals[w])
         \/ SeqLess(Meaning(evals[w]), BestOf(Cards(w)))
    BY <2>9, <2>10, SeqLessTotal
  <2> QED BY <2>6, <2>8, <2>10, <2>11, SeqLessTransitive
<1>2. DealtFromDeck => OnlyPrimaryIsMissed
  BY <1>1, Zenon DEF OnlyPrimaryIsMissed
<1> QED BY <1>2, DealIsFair, PTL

=============================================================================
