---------------------------- MODULE PayoutProofs ----------------------------
(***************************************************************************)
(* Chips at a table of any size and stakes: the showdown pays out no more  *)
(* than was bet, whoever wins and however the odd chips fall; nobody gains *)
(* chips but by winning one; and the table as a whole is the bank that     *)
(* ChipBank describes.                                                     *)
(*                                                                         *)
(* The side pots are summed twice.  Level by level, the shares of a pot    *)
(* come to no more than the pot.  Player by player, the steps between the  *)
(* levels a player has reached come to no more than its bet.               *)
(***************************************************************************)
EXTENDS PokerGameProofs

-----------------------------------------------------------------------------
(* One side pot.                                                           *)

\* The level below.
Below(t, level) == Max({0} \cup {l \in BetLevels(t) : l < level})

LEMMA BetLevelsNat ==
  ASSUME NEW t \in TableType
  PROVE  /\ BetLevels(t) \in SUBSET Nat
         /\ Unfolded(t) \subseteq Players
         /\ \A level : Eligible(t, level) \subseteq Unfolded(t)
<1>1. Unfolded(t) \subseteq Players /\ t.current_bet \in [Players -> Nat]
  BY SeatedPlayers DEF Unfolded, TableType
<1> QED BY <1>1 DEF BetLevels, Eligible

LEMMA BelowIs ==
  ASSUME NEW t \in TableType, NEW level \in Nat
  PROVE  /\ Below(t, level) \in Nat /\ Below(t, level) <= level
         /\ \A l \in BetLevels(t) : l < level => l <= Below(t, level)
         /\ Below(t, level) = 0 \/ Below(t, level) \in BetLevels(t)
<1> DEFINE S == {0} \cup {l \in BetLevels(t) : l < level}
<1>1. S \in SUBSET Nat /\ S # {} /\ \A l \in S : l <= level
  BY BetLevelsNat
<1>2. \A l \in BetLevels(t) : l < level => l \in S
  OBVIOUS
<1>3. \A l \in S : l = 0 \/ l \in BetLevels(t)
  OBVIOUS
<1>4. Below(t, level) = Max(S)
  BY DEF Below
<1> HIDE DEF S
<1>5. Max(S) \in S /\ \A l \in S : l <= Max(S)
  BY <1>1, MaxNat
<1> QED BY <1>1, <1>2, <1>3, <1>4, <1>5

\* The pot at a level holds a step from everyone who contests it.
LEMMA SidePotSum ==
  ASSUME NEW t \in TableType, NEW level \in BetLevels(t)
  PROVE  /\ SidePot(t, level)
              = Total([p \in Players |-> IF p \in Eligible(t, level)
                                         THEN level - Below(t, level) ELSE 0])
         /\ SidePot(t, level) \in Nat
<1> DEFINE step == level - Below(t, level)
           eligible == Eligible(t, level)
<1>1. level \in Nat /\ eligible \in SUBSET (1..MaxPlayers) /\ MaxPlayers \in Nat
  BY BetLevelsNat, Constants DEF Players
<1>2. step \in Nat
  BY <1>1, BelowIs
<1>3. SidePot(t, level) = step * Cardinality(eligible)
  BY DEF SidePot, Below
<1> HIDE DEF step, eligible
<1>4. SumTo([p \in 1..MaxPlayers |-> IF p \in eligible THEN step ELSE 0], MaxPlayers)
        = step * Cardinality(eligible)
  BY <1>1, <1>2, SumOfMembers
<1>5. step * Cardinality(eligible) \in Nat
  <2>1. IsFiniteSet(1..MaxPlayers)
    BY <1>1, FS_Interval
  <2>2. IsFiniteSet(eligible)
    BY <1>1, <2>1, FS_Subset
  <2>3. Cardinality(eligible) \in Nat
    BY <2>2, FS_CardinalityType
  <2> QED BY <1>2, <2>3
<1> QED BY <1>3, <1>4, <1>5 DEF Total, Players, step, eligible

\* A pot and its odd chips are shared out at most once.
LEMMA ShareSum ==
  ASSUME NEW t \in TableType, NEW winners \in Seq(Players), NEW level \in BetLevels(t)
  PROVE  Total([p \in Players |-> Share(t, winners, level, p)]) <= SidePot(t, level)
<1> DEFINE eligible == Eligible(t, level)
           ws == Filter(winners, eligible)
           n == Len(ws)
           pot == SidePot(t, level)
           quotient == pot \div n
           odd == pot % n
           share == [p \in Players |-> Share(t, winners, level, p)]
           even == [p \in Players |-> IF \E i \in 1..n : ws[i] = p THEN quotient ELSE 0]
           extra == [p \in Players |-> IF \E i \in 1..odd : ws[i] = p THEN 1 ELSE 0]
<1>1. pot \in Nat /\ MaxPlayers \in Nat /\ Players = 1..MaxPlayers
  BY SidePotSum, Constants DEF Players
<1>2. ws \in Seq(Players)
  <2>1. ws \in Seq(Players \cap eligible)
    BY FilterType
  <2> HIDE DEF ws, eligible
  <2> QED BY <2>1, SeqMembers
<1>3. share = [p \in Players |-> IF \E i \in 1..n : ws[i] = p
                                 THEN quotient + (IF \E i \in 1..odd : ws[i] = p THEN 1 ELSE 0)
                                 ELSE 0]
  BY DEF Share
<1> HIDE DEF ws, pot, eligible, share
<1>4. n \in Nat /\ \A i \in 1..n : ws[i] \in Players
  BY <1>2, SeqMembers
<1>5. CASE n = 0
  <2>1. share = [p \in 1..MaxPlayers |-> 0]
    BY <1>1, <1>3, <1>5
  <2>2. Total(share) = 0
    BY <1>1, <2>1, SumToZero DEF Total
  <2> QED BY <1>1, <2>2 DEF share, pot
<1>6. CASE n # 0
  <2>1. quotient \in Nat /\ odd \in 0..(n-1) /\ pot = n * quotient + odd
    <3>1. n \in Nat /\ n > 0
      BY <1>4, <1>6
    <3> HIDE DEF n
    <3> QED BY <1>1, <3>1
  <2> HIDE DEF n, quotient, odd
  <2>2. odd \in Nat /\ \A i \in 1..odd : i \in 1..n
    BY <1>4, <2>1
  <2>3. \A p \in 1..MaxPlayers :
          even[p] \in Int /\ extra[p] \in Int /\ share[p] = even[p] + extra[p]
    BY <1>1, <1>3, <2>1, <2>2
  <2> HIDE DEF even, extra
  <2>4. Total(share) = Total(even) + Total(extra)
    BY <1>1, <2>3, SumPlus DEF Total
  <2>5. Total(even) <= n * quotient
    <3>1. \A i \in 1..n : ws[i] \in 1..MaxPlayers
      BY <1>1, <1>4
    <3>2. SumTo([p \in 1..MaxPlayers |-> IF \E i \in 1..n : ws[i] = p THEN quotient ELSE 0],
                MaxPlayers) <= n * quotient
      BY <1>1, <1>4, <2>1, <3>1, SumOfNamed
    <3> QED BY <1>1, <3>2 DEF Total, even
  <2>6. Total(extra) <= odd
    <3> DEFINE one == 1
    <3>1. \A i \in 1..odd : ws[i] \in 1..MaxPlayers
      BY <1>1, <1>4, <2>2
    <3>2. one \in Nat
      OBVIOUS
    <3> HIDE DEF one
    <3>3. SumTo([p \in 1..MaxPlayers |-> IF \E i \in 1..odd : ws[i] = p THEN one ELSE 0],
                MaxPlayers) <= odd * one
      BY <1>1, <2>2, <3>1, <3>2, SumOfNamed
    <3>4. odd * one = odd
      BY <2>2 DEF one
    <3> QED BY <1>1, <3>3, <3>4 DEF Total, extra, one
  <2>7. Total(even) \in Int /\ Total(extra) \in Int
    BY <1>1, <2>3, SumLast DEF Total
  <2>8. n * quotient \in Int
    BY <1>4, <2>1
  <2>9. Total(share) <= pot
    BY <2>1, <2>2, <2>4, <2>5, <2>6, <2>7, <2>8
  <2> QED BY <2>9 DEF share, pot
<1> QED BY <1>5, <1>6

-----------------------------------------------------------------------------
(* All side pots.                                                          *)

\* What p has put into the pot at a level.
Rung(t, p, level) ==
  IF level \in BetLevels(t) /\ p \in Eligible(t, level) THEN level - Below(t, level) ELSE 0

LEMMA RungNat ==
  ASSUME NEW t \in TableType, NEW p, NEW level \in Nat
  PROVE  Rung(t, p, level) \in Nat
BY BelowIs DEF Rung

\* The steps between the levels p has reached lead up to its bet at most.
LEMMA Ladder ==
  ASSUME NEW t \in TableType, NEW p \in Players
  PROVE  SumTo([level \in 1..CurrentBet(t) |-> Rung(t, p, level)], CurrentBet(t))
           <= t.current_bet[p]
<1> DEFINE m == CurrentBet(t)
           b == t.current_bet[p]
           rung == [level \in 1..m |-> Rung(t, p, level)]
           T == {k \in 0..m : /\ SumTo(rung, k) <= b
                              /\ k <= b => SumTo(rung, k) <= Below(t, k + 1)}
<1>1. m \in Nat /\ b \in Nat
  BY CurrentBetIsMax DEF TableType
<1>2. \A k \in 1..m : rung[k] = Rung(t, p, k) /\ rung[k] \in Int
  BY RungNat
<1> HIDE DEF m, b, rung
<1>3. 0 \in T
  <2>1. SumTo(rung, 0) = 0
    BY SumLast
  <2>2. Below(t, 0 + 1) \in Nat
    BY BelowIs
  <2> QED BY <1>1, <2>1, <2>2
<1>4. ASSUME NEW k \in 1..m, k - 1 \in T PROVE k \in T
  <2> DEFINE before == SumTo(rung, k - 1)
             after == SumTo(rung, k)
             under == Below(t, k)
             reach == Below(t, k + 1)
  <2>1. k \in Nat /\ k # 0 /\ k + 1 \in Nat /\ k - 1 \in Nat /\ k \in 0..m
    BY <1>1
  <2>2. after = before + rung[k] /\ before \in Int /\ rung[k] = Rung(t, p, k)
    <3>1. \A i \in 1..k : rung[i] \in Int
      BY <1>1, <1>2
    <3>2. \A i \in 1..(k-1) : rung[i] \in Int
      BY <1>1, <1>2
    <3>3. after = before + rung[k]
      BY <2>1, <3>1, SumLast
    <3>4. before \in Int
      BY <2>1, <3>2, SumLast
    <3> QED BY <1>2, <3>3, <3>4
  <2>3. before <= b /\ (k - 1 <= b => before <= under)
    <3>1. (k - 1) + 1 = k
      BY <2>1
    <3> QED BY <1>4, <3>1
  <2>4. /\ under \in Nat /\ reach \in Nat /\ reach <= k + 1 /\ under <= k
        /\ \A l \in BetLevels(t) : l < k + 1 => l <= reach
        /\ under = 0 \/ under \in BetLevels(t)
    BY <2>1, BelowIs
  <2>5. rung[k] = IF k \in BetLevels(t) /\ p \in Eligible(t, k) THEN k - under ELSE 0
    BY <2>2 DEF Rung
  <2>6. p \in Eligible(t, k) => k <= b
    BY DEF Eligible, b
  <2>7. under <= reach
    <3>1. CASE under = 0
      BY <2>4, <3>1
    <3>2. CASE under \in BetLevels(t)
      BY <2>1, <2>4, <3>2
    <3> QED BY <2>4, <3>1, <3>2
  <2>8. k \in BetLevels(t) => k <= reach
    BY <2>1, <2>4
  <2> HIDE DEF before, after, under, reach, T
  <2>9. after <= b /\ (k <= b => after <= reach)
    <3>1. CASE k \in BetLevels(t) /\ p \in Eligible(t, k)
      BY <1>1, <2>1, <2>2, <2>3, <2>4, <2>5, <2>6, <2>8, <3>1
    <3>2. CASE ~(k \in BetLevels(t) /\ p \in Eligible(t, k))
      BY <1>1, <2>1, <2>2, <2>3, <2>4, <2>5, <2>7, <3>2
    <3> QED BY <3>1, <3>2
  <2> QED BY <2>1, <2>9 DEF T, after, reach
<1>5. m \in T
  <2>1. \A k \in 0..m : k \in T
    <3> HIDE DEF T
    <3> QED BY <1>1, <1>3, <1>4, IndexInduction
  <2>2. m \in 0..m
    BY <1>1
  <2> QED BY <2>1, <2>2
<1>6. SumTo(rung, m) <= b
  BY <1>5
<1> QED BY <1>6 DEF rung, m, b

\* Whoever wins, the showdown pays out no more than what everybody has bet: no side pot is
\* paid twice, no odd chip is made up.
THEOREM WinningsWithinBets ==
  ASSUME NEW t \in TableType, NEW winners \in Seq(Players)
  PROVE  Total([p \in Players |-> Winnings(t, winners, p)]) <= Total(t.current_bet)
<1> DEFINE N == MaxPlayers
           M == CurrentBet(t)
           won == [p \in 1..N |->
                     [level \in 1..M |->
                        IF level \in BetLevels(t) THEN Share(t, winners, level, p) ELSE 0]]
           put == [p \in 1..N |-> [level \in 1..M |-> Rung(t, p, level)]]
           wonAt == [level \in 1..M |-> SumTo([p \in 1..N |-> won[p][level]], N)]
           putAt == [level \in 1..M |-> SumTo([p \in 1..N |-> put[p][level]], N)]
<1>1. N \in Nat /\ M \in Nat /\ Players = 1..N
  BY Constants, CurrentBetIsMax DEF Players
<1>2. won \in [1..N -> [1..M -> Int]] /\ put \in [1..N -> [1..M -> Int]]
  <2>1. \A p \in 1..N, level \in 1..M : level \in BetLevels(t) => Share(t, winners, level, p) \in Nat
    BY ShareNat
  <2>2. \A p \in 1..N, level \in 1..M : Rung(t, p, level) \in Nat
    BY RungNat
  <2> QED BY <2>1, <2>2
<1>3. ASSUME NEW level \in 1..M
      PROVE  /\ wonAt[level] \in Int /\ putAt[level] \in Int
             /\ wonAt[level] <= putAt[level]
  <2> DEFINE f == [p \in 1..N |-> won[p][level]]
             g == [p \in 1..N |-> put[p][level]]
  <2>1. wonAt[level] = SumTo(f, N) /\ putAt[level] = SumTo(g, N)
    OBVIOUS
  <2>2. \A p \in 1..N : f[p] \in Int /\ g[p] \in Int
    BY <1>2
  <2>3. SumTo(f, N) \in Int /\ SumTo(g, N) \in Int
    <3> HIDE DEF f, g, N
    <3> QED BY <1>1, <2>2, SumLast
  <2>4. CASE level \in BetLevels(t)
    <3>1. f = [p \in Players |-> Share(t, winners, level, p)]
      BY <1>1, <2>4
    <3>2. g = [p \in Players |-> IF p \in Eligible(t, level)
                                 THEN level - Below(t, level) ELSE 0]
      BY <1>1, <2>4 DEF Rung
    <3>3. Total(f) <= SidePot(t, level) /\ SidePot(t, level) = Total(g)
      <4> HIDE DEF f, g
      <4> QED BY <2>4, <3>1, <3>2, ShareSum, SidePotSum
    <3> HIDE DEF wonAt, putAt, f, g
    <3> QED BY <2>1, <2>3, <3>3 DEF Total
  <2>5. CASE level \notin BetLevels(t)
    <3>1. \A p \in 1..N : f[p] \in Int /\ f[p] = g[p]
      BY <2>5 DEF Rung
    <3>2. SumTo(f, N) = SumTo(g, N)
      <4> HIDE DEF f, g, N
      <4> QED BY <1>1, <3>1, SumSame
    <3> HIDE DEF wonAt, putAt, f, g
    <3> QED BY <2>1, <2>3, <3>2
  <2> QED BY <2>1, <2>3, <2>4, <2>5
<1>4. Total([p \in Players |-> Winnings(t, winners, p)])
        = SumTo([p \in 1..N |-> SumTo(won[p], M)], N)
  BY <1>1 DEF Total, Winnings
<1>5. SumTo([p \in 1..N |-> SumTo(won[p], M)], N) = SumTo(wonAt, M)
  <2> HIDE DEF won, M, N
  <2> QED BY <1>1, <1>2, SumSwap
<1>6. SumTo([p \in 1..N |-> SumTo(put[p], M)], N) = SumTo(putAt, M)
  <2> HIDE DEF put, M, N
  <2> QED BY <1>1, <1>2, SumSwap
<1>7. SumTo(wonAt, M) <= SumTo(putAt, M) /\ SumTo(wonAt, M) \in Int /\ SumTo(putAt, M) \in Int
  <2> HIDE DEF wonAt, putAt, M
  <2> QED BY <1>1, <1>3, SumMonotone, SumLast
<1>8. SumTo([p \in 1..N |-> SumTo(put[p], M)], N) <= Total(t.current_bet)
  <2> DEFINE rungs == [p \in 1..N |-> SumTo(put[p], M)]
  <2>1. ASSUME NEW p \in 1..N
        PROVE  rungs[p] \in Int /\ t.current_bet[p] \in Int /\ rungs[p] <= t.current_bet[p]
    <3>1. p \in Players /\ t.current_bet[p] \in Nat
      BY <1>1 DEF TableType
    <3>2. rungs[p] = SumTo([level \in 1..M |-> Rung(t, p, level)], M)
      OBVIOUS
    <3>3. rungs[p] <= t.current_bet[p]
      BY <3>1, <3>2, Ladder
    <3>4. \A level \in 1..M : put[p][level] \in Int
      BY <1>2
    <3>5. rungs[p] \in Int
      <4> HIDE DEF put, M
      <4>1. rungs[p] = SumTo(put[p], M)
        OBVIOUS
      <4> QED BY <1>1, <3>4, <4>1, SumLast
    <3> QED BY <3>1, <3>3, <3>5
  <2> HIDE DEF rungs, N
  <2>2. SumTo(rungs, N) <= SumTo(t.current_bet, N)
    BY <1>1, <2>1, SumMonotone
  <2> QED BY <2>2 DEF Total, N, rungs
<1>9. Total(t.current_bet) \in Int
  <2>1. \A p \in 1..N : t.current_bet[p] \in Int
    BY <1>1 DEF TableType
  <2> QED BY <1>1, <2>1, SumLast DEF Total
<1> DEFINE a == SumTo(wonAt, M)
           c == SumTo(putAt, M)
           d == Total(t.current_bet)
           e == Total([p \in Players |-> Winnings(t, winners, p)])
<1>10. a \in Int /\ c \in Int /\ d \in Int /\ a <= c /\ c <= d /\ e = a
  <2> HIDE DEF won, put, wonAt, putAt, M, N
  <2> QED BY <1>4, <1>5, <1>6, <1>7, <1>8, <1>9
<1> HIDE DEF a, c, d, e
<1>11. e <= d
  BY <1>10
<1> QED BY <1>11 DEF e, d

\* Who has folded wins nothing.
LEMMA FoldedWinNothing ==
  ASSUME NEW t \in TableType, NEW winners \in Seq(Players), NEW p, p \notin Unfolded(t)
  PROVE  Winnings(t, winners, p) = 0
<1> DEFINE M == CurrentBet(t)
           share == [level \in 1..M |->
                       IF level \in BetLevels(t) THEN Share(t, winners, level, p) ELSE 0]
<1>1. M \in Nat
  BY CurrentBetIsMax
<1>2. ASSUME NEW level PROVE Share(t, winners, level, p) = 0
  <2> DEFINE ws == Filter(winners, Eligible(t, level))
  <2>1. ws \in Seq(Players \cap Eligible(t, level))
    BY FilterType
  <2> HIDE DEF ws
  <2>2. \A i \in 1..Len(ws) : ws[i] \in Players \cap Eligible(t, level)
    BY <2>1, SeqMembers
  <2>3. ~ \E i \in 1..Len(ws) : ws[i] = p
    BY <2>2, BetLevelsNat
  <2> QED BY <2>3 DEF Share, ws
<1>3. share = [level \in 1..M |-> 0]
  BY <1>2
<1>4. Winnings(t, winners, p) = SumTo(share, M)
  BY DEF Winnings
<1> HIDE DEF share, M
<1>5. SumTo(share, M) = 0
  BY <1>1, <1>3, SumToZero
<1> QED BY <1>4, <1>5

-----------------------------------------------------------------------------
(* What a table holds.                                                     *)

\* The escrow of the bank.
Escrow(t) == IF t.current_street = "Showdown" THEN 0 ELSE t.pot

Held(t) == Total(t.chips) + Escrow(t)

\* u has the same players as t, and nobody in it has more chips.
Poorer(t, u) == u.order = t.order /\ \A p \in Players : u.chips[p] <= t.chips[p]

\* Chips and escrow are natural numbers.
LEMMA HeldNat ==
  ASSUME NEW t \in TableType
  PROVE  /\ Total(t.chips) \in Nat /\ Escrow(t) \in Nat /\ Held(t) \in Nat /\ t.pot \in Nat
         /\ \A p \in Players : t.chips[p] \in Nat
<1>1. \A p \in 1..MaxPlayers : t.chips[p] \in Nat
  BY DEF TableType, Players
<1>2. Total(t.chips) \in Nat /\ t.pot \in Nat
  BY <1>1, Constants, SumToNat DEF Total, TableType
<1> QED BY <1>1, <1>2 DEF Held, Escrow, Players

\* Giving p another amount of chips.
LEMMA ChipsExcept ==
  ASSUME NEW t \in TableType, NEW p \in Players, NEW c \in Int
  PROVE  Total([t.chips EXCEPT ![p] = c]) = Total(t.chips) - t.chips[p] + c
<1>1. MaxPlayers \in Nat /\ p \in 1..MaxPlayers /\ t.chips \in [1..MaxPlayers -> Int]
  BY Constants DEF Players, TableType
<1> QED BY <1>1, SumToExcept DEF Total

\* A blind goes from a player's chips to the pot.
LEMMA PostBlindHeld ==
  ASSUME NEW t \in TableType, NEW p \in Players, NEW blind \in Nat
  PROVE  LET u == PostBlind(t, p, blind)
         IN  /\ u \in TableType /\ Poorer(t, u)
             /\ Total(u.chips) + u.pot = Total(t.chips) + t.pot
<1> DEFINE amount == Min({blind, t.chips[p]})
           left == t.chips[p] - amount
           pot == t.pot + amount
           u == [t EXCEPT !.chips[p] = left, !.current_bet[p] = amount, !.pot = pot]
<1>1. t.chips[p] \in Nat /\ t.pot \in Nat /\ Total(t.chips) \in Nat
  BY HeldNat
<1>2. amount \in Nat /\ amount <= t.chips[p]
  <2>1. blind \in Int /\ t.chips[p] \in Int
    BY <1>1
  <2> QED BY <1>1, <2>1, MinPair, Zenon
<1>3. PostBlind(t, p, blind) = u
  BY DEF PostBlind
<1> HIDE DEF amount
<1>4. left \in Nat /\ pot \in Nat /\ left = t.chips[p] - amount /\ pot = t.pot + amount
  BY <1>1, <1>2
<1> HIDE DEF left, pot
<1>5. u \in TableType
  BY <1>2, <1>4, MoveType, Zenon
<1>6. u.order = t.order /\ u.pot = pot /\ u.chips = [t.chips EXCEPT ![p] = left]
  BY DEF TableType
<1> HIDE DEF u
<1>7. Total(u.chips) = Total(t.chips) - t.chips[p] + left
  <2>1. left \in Int
    BY <1>4
  <2> QED BY <1>6, <2>1, ChipsExcept
<1>8. Total(u.chips) + u.pot = Total(t.chips) + t.pot
  BY <1>1, <1>2, <1>4, <1>6, <1>7
<1>9. Poorer(t, u)
  <2>1. ASSUME NEW q \in Players PROVE u.chips[q] <= t.chips[q]
    <3>1. t.chips \in [Players -> Nat] /\ t.chips[q] \in Nat
      BY HeldNat DEF TableType
    <3>2. u.chips[q] = IF q = p THEN left ELSE t.chips[q]
      BY <1>6, <3>1
    <3> QED BY <1>1, <1>2, <1>4, <3>1, <3>2
  <2> QED BY <1>6, <2>1 DEF Poorer
<1> QED BY <1>3, <1>5, <1>8, <1>9

\* The blinds go from the chips to the pot.
LEMMA PostBlindsHeld ==
  ASSUME NEW t \in TableType
  PROVE  LET u == PostBlinds(t)
         IN  /\ u \in TableType /\ Poorer(t, u)
             /\ Total(u.chips) + u.pot = Total(t.chips) + t.pot
<1> DEFINE ids == Active(t)
           sb == t.dealer_position % Len(ids)
           bb == (sb + 1) % Len(ids)
           first == PostBlind(t, ids[sb+1], SmallBlind)
           second == PostBlind(first, ids[bb+1], BigBlind)
           u == PostBlinds(t)
<1>1. CASE Len(ids) < 2
  <2>1. u = t
    BY <1>1 DEF PostBlinds
  <2>2. Poorer(t, t)
    BY HeldNat DEF Poorer
  <2> QED BY <2>1, <2>2
<1>2. CASE ~(Len(ids) < 2)
  <2>1. ids \in Seq(Players) /\ Len(ids) \in Nat
    BY ActiveSeated
  <2>2. t.dealer_position \in Nat
    BY DEF TableType
  <2>3. sb \in Nat /\ ids[sb+1] \in Players /\ sb + 1 \in Nat
    <3> HIDE DEF ids
    <3> QED BY <1>2, <2>1, <2>2, AtModulo
  <2>4. ids[bb+1] \in Players
    <3> HIDE DEF ids, sb
    <3> QED BY <1>2, <2>1, <2>3, AtModulo
  <2> HIDE DEF ids, sb, bb
  <2>5. /\ first \in TableType /\ Poorer(t, first)
        /\ Total(first.chips) + first.pot = Total(t.chips) + t.pot
    BY <2>3, Constants, PostBlindHeld
  <2> HIDE DEF first
  <2>6. /\ second \in TableType /\ Poorer(first, second)
        /\ Total(second.chips) + second.pot = Total(first.chips) + first.pot
    BY <2>4, <2>5, Constants, PostBlindHeld
  <2> DEFINE double == 2 * BigBlind
  <2>7. u = [second EXCEPT !.min_raise = double] /\ double \in Nat
    BY <1>2, Constants DEF PostBlinds, ids, sb, bb, first
  <2> HIDE DEF second, double, u
  <2>8. /\ u \in TableType /\ u.order = second.order /\ u.chips = second.chips
        /\ u.pot = second.pot
    BY <2>6, <2>7 DEF TableType
  <2>9. Poorer(t, u)
    <3>1. ASSUME NEW p \in Players PROVE u.chips[p] <= t.chips[p]
      <4>1. first.chips[p] <= t.chips[p] /\ second.chips[p] <= first.chips[p]
        BY <2>5, <2>6 DEF Poorer
      <4>2. first.chips[p] \in Nat /\ t.chips[p] \in Nat /\ second.chips[p] \in Nat
        BY <2>5, <2>6, HeldNat
      <4> QED BY <2>8, <4>1, <4>2
    <3> QED BY <2>5, <2>6, <2>8, <3>1 DEF Poorer
  <2> QED BY <2>5, <2>6, <2>8, <2>9 DEF u
<1> QED BY <1>1, <1>2

\* A new hand drops the old pot, and its blinds come out of the chips.
LEMMA StartHandHeld ==
  ASSUME NEW t \in TableType
  PROVE  LET u == StartHand(t)
         IN  Poorer(t, u) /\ Held(u) = Total(t.chips)
<1> DEFINE cleared == ClearHand(t)
           blinds == PostBlinds(cleared)
           dealt == DealHoleCards(blinds)
           ids == Active(dealt)
           next == IF Len(ids) >= 3 THEN ids[3] ELSE FirstOf(ids)
           u == [dealt EXCEPT !.current_street = "Preflop",
                              !.game_stage = "BettingRound", !.current_player_id = next]
<1>1. cleared \in TableType
  <2> DEFINE none == [p \in Players |-> 0]
             board == 0
  <2>1. none \in [Players -> Nat] /\ board \in 0..5
    OBVIOUS
  <2>2. cleared = [t EXCEPT !.current_bet = none, !.hole_cards = {}, !.has_acted = {},
                            !.is_all_in = {}, !.is_folded = {}, !.community_cards = board,
                            !.deck = TRUE, !.pot = 0]
    BY DEF ClearHand
  <2> HIDE DEF none, board, cleared
  <2> QED BY <2>1, <2>2 DEF TableType
<1>2. cleared.order = t.order /\ cleared.chips = t.chips /\ cleared.pot = 0
  BY DEF ClearHand, TableType
<1> HIDE DEF cleared
<1>3. /\ blinds \in TableType /\ Poorer(cleared, blinds)
      /\ Total(blinds.chips) + blinds.pot = Total(cleared.chips) + cleared.pot
  BY <1>1, PostBlindsHeld
<1> HIDE DEF blinds
<1>4. /\ DOMAIN dealt = Fields /\ dealt.order = blinds.order /\ dealt.chips = blinds.chips
      /\ dealt.pot = blinds.pot
  BY <1>3, TableFields DEF DealHoleCards, Fields
<1>5. StartHand(t) = u
  BY DEF StartHand, cleared, blinds, dealt, next
<1> HIDE DEF dealt, next
<1>6. /\ u.order = dealt.order /\ u.chips = dealt.chips /\ u.pot = dealt.pot
      /\ u.current_street = "Preflop"
  BY <1>4 DEF Fields
<1> HIDE DEF u
<1>7. Total(t.chips) \in Nat
  BY HeldNat
<1>8. Poorer(t, u)
  BY <1>2, <1>3, <1>4, <1>6 DEF Poorer
<1>9. Held(u) = Total(t.chips)
  BY <1>2, <1>3, <1>4, <1>6, <1>7 DEF Held, Escrow
<1> QED BY <1>5, <1>8, <1>9

\* The end of a hand brings nobody chips.
LEMMA EndHandHeld ==
  ASSUME NEW t \in TableType
  PROVE  LET u == EndHand(t)
         IN  Poorer(t, u) /\ Held(u) <= Held(t)
<1> DEFINE ids == Filter(t.order, Playable(t))
           position == IF ids = <<>> THEN t.dealer_position
                       ELSE ((t.dealer_position % Len(ids)) + 1) % Len(ids)
           rotated == [t EXCEPT !.dealer_position = position]
           stopped == [rotated EXCEPT !.game_stage = "WaitingForPlayers"]
<1>1. DOMAIN t = Fields
  BY TableFields
<1>2. position \in Nat
  <2>1. ids \in Seq(Players \cap Playable(t)) /\ t.dealer_position \in Nat
    BY FilterPlayers DEF TableType
  <2> HIDE DEF ids
  <2>2. CASE ids = <<>>
    BY <2>1, <2>2
  <2>3. CASE ids # <<>>
    <3>1. Len(ids) > 0 /\ Len(ids) \in Nat
      BY <2>1, <2>3
    <3>2. t.dealer_position % Len(ids) \in Nat
      BY <2>1, <3>1
    <3>3. ((t.dealer_position % Len(ids)) + 1) % Len(ids) \in Nat
      BY <3>1, <3>2
    <3> QED BY <2>3, <3>3
  <2> QED BY <2>2, <2>3
<1>3. EndHand(t) = StartHand(rotated) \/ EndHand(t) = stopped
  BY DEF EndHand
<1> HIDE DEF position
<1>4. /\ rotated \in TableType /\ rotated.order = t.order /\ rotated.chips = t.chips
      /\ DOMAIN rotated = Fields
  BY <1>1, <1>2 DEF TableType, Fields
<1>5. /\ stopped.order = t.order /\ stopped.chips = t.chips /\ stopped.pot = t.pot
      /\ stopped.current_street = t.current_street
  BY <1>1 DEF Fields
<1> HIDE DEF rotated, stopped
<1>6. Total(t.chips) \in Nat /\ Escrow(t) \in Nat /\ \A p \in Players : t.chips[p] \in Nat
  BY HeldNat
<1>7. CASE EndHand(t) = StartHand(rotated)
  <2>1. Poorer(rotated, StartHand(rotated)) /\ Held(StartHand(rotated)) = Total(rotated.chips)
    BY <1>4, StartHandHeld
  <2> QED BY <1>4, <1>6, <1>7, <2>1 DEF Poorer, Held
<1>8. CASE EndHand(t) = stopped
  BY <1>5, <1>6, <1>8 DEF Poorer, Held, Escrow
<1> QED BY <1>3, <1>7, <1>8

\* The showdown pays the players in the hand out of the pot.
LEMMA ShowdownHeld ==
  ASSUME NEW t, Sane(t), t.current_street = "Showdown", NEW winners \in Seq(Players)
  PROVE  LET u == Showdown(t, winners)
         IN  /\ u.order = t.order /\ Held(u) <= Total(t.chips) + t.pot
             /\ \A p \in Players \ Unfolded(t) : u.chips[p] <= t.chips[p]
<1> DEFINE won == [p \in Players |-> Winnings(t, winners, p)]
           chips == [p \in Players |-> t.chips[p] + Winnings(t, winners, p)]
           paid == [t EXCEPT !.chips = chips]
           u == EndHand(paid)
<1>1. t \in TableType /\ DOMAIN t = Fields
  BY TableFields DEF Sane
<1>2. \A p \in Players : /\ t.chips[p] \in Nat /\ won[p] \in Nat
                         /\ chips[p] = t.chips[p] + won[p]
  BY <1>1, HeldNat, WinningsNat
<1>3. chips \in [Players -> Nat]
  <2>1. \A p \in Players : chips[p] \in Nat
    <3> HIDE DEF won, chips
    <3> QED BY <1>2
  <2> QED BY <2>1
<1>4. \A p \in Players \ Unfolded(t) : chips[p] = t.chips[p]
  <2>1. \A p \in Players \ Unfolded(t) : won[p] = 0
    BY <1>1, FoldedWinNothing
  <2> HIDE DEF won, chips
  <2> QED BY <1>2, <2>1
<1>5. Total(chips) <= Total(t.chips) + t.pot
  <2>1. Total(won) <= Total(t.current_bet)
    BY <1>1, WinningsWithinBets
  <2> HIDE DEF won, chips
  <2>2. MaxPlayers \in Nat /\ \A p \in 1..MaxPlayers :
          t.chips[p] \in Int /\ won[p] \in Int /\ chips[p] = t.chips[p] + won[p]
    BY <1>2, Constants DEF Players
  <2>3. Total(chips) = Total(t.chips) + Total(won)
    BY <2>2, SumPlus DEF Total
  <2>4. Total(won) \in Int
    BY <2>2, SumLast DEF Total
  <2>5. Total(t.current_bet) <= t.pot
    BY DEF Sane, Covered
  <2>6. Total(t.current_bet) \in Nat
    <3>1. \A p \in 1..MaxPlayers : t.current_bet[p] \in Nat
      BY <1>1 DEF TableType, Players
    <3> QED BY <2>2, <3>1, SumToNat DEF Total
  <2>7. Total(t.chips) \in Nat /\ t.pot \in Nat
    BY <1>1, HeldNat
  <2> QED BY <2>1, <2>3, <2>4, <2>5, <2>6, <2>7
<1>6. Showdown(t, winners) = u
  BY DEF Showdown
<1> HIDE DEF won, chips
<1>7. /\ paid \in TableType /\ paid.order = t.order /\ paid.chips = chips
      /\ paid.current_street = "Showdown"
  BY <1>1, <1>3 DEF TableType
<1> HIDE DEF paid
<1>8. Poorer(paid, u) /\ Held(u) <= Held(paid)
  BY <1>7, EndHandHeld
<1>9. Held(paid) = Total(chips)
  <2>1. Total(paid.chips) \in Nat
    BY <1>7, HeldNat
  <2> QED BY <1>7, <2>1 DEF Held, Escrow
<1>10. Held(u) <= Total(t.chips) + t.pot
  <2>1. u \in TableType
    <3>1. Sane(Showdown(t, winners))
      BY ShowdownSane
    <3> QED BY <1>6, <3>1 DEF Sane
  <2>2. Held(u) \in Nat /\ Total(t.chips) \in Nat /\ t.pot \in Nat /\ Total(paid.chips) \in Nat
    BY <1>1, <1>7, <2>1, HeldNat
  <2> HIDE DEF u
  <2> QED BY <1>5, <1>7, <1>8, <1>9, <2>2
<1> HIDE DEF u
<1>11. \A p \in Players \ Unfolded(t) : u.chips[p] <= t.chips[p]
  BY <1>4, <1>7, <1>8 DEF Poorer
<1> QED BY <1>6, <1>7, <1>8, <1>10, <1>11 DEF Poorer

-----------------------------------------------------------------------------
(* Advancing the turn.                                                     *)

\* The players are the same; chips come to nobody but, from the river, to players in the
\* hand; and the table holds no more.
Pays(t, u) ==
  /\ u.order = t.order
  /\ \A p \in Players :
       u.chips[p] <= t.chips[p] \/ (t.current_street = "River" /\ p \in Unfolded(t))
  /\ Held(u) <= Held(t)

\* Dealing moves no chips.
LEMMA DealHeld ==
  ASSUME NEW t \in TableType, NEW street \in Streets \ {"Showdown"}, NEW count,
         t.current_street # "Showdown"
  PROVE  Pays(t, DealCommunityCards([t EXCEPT !.current_street = street], count))
<1> DEFINE moved == [t EXCEPT !.current_street = street]
           cards == moved.community_cards + count
           more == [moved EXCEPT !.community_cards = cards]
           u == DealCommunityCards(moved, count)
<1>1. u = moved \/ u = more
  BY DEF DealCommunityCards
<1>2. DOMAIN t = Fields
  BY TableFields
<1>3. u.order = t.order /\ u.chips = t.chips /\ u.pot = t.pot /\ u.current_street = street
  <2> HIDE DEF cards
  <2> QED BY <1>1, <1>2 DEF Fields
<1> HIDE DEF u
<1>4. \A p \in Players : t.chips[p] \in Nat
  BY HeldNat
<1>5. Held(t) \in Nat /\ Held(u) = Held(t)
  BY <1>3, HeldNat DEF Held, Escrow
<1>6. Pays(t, u)
  BY <1>3, <1>4, <1>5 DEF Pays
<1> QED BY <1>6 DEF u

\* Only the street after the river pays.
LEMMA NextStreetPays ==
  ASSUME NEW t, Sane(t), NEW winners \in Seq(Players)
  PROVE  Pays(t, NextStreet(t, winners))
<1>1. t \in TableType /\ t.current_street \in Streets
  BY DEF Sane, TableType
<1>2. CASE t.current_street \in {"Preflop", "Flop", "Turn"}
  <2>1. \E street \in Streets \ {"Showdown"}, count \in {1, 3} :
          NextStreet(t, winners)
            = DealCommunityCards([t EXCEPT !.current_street = street], count)
    <3>1. CASE t.current_street = "Preflop"
      <4>1. NextStreet(t, winners)
              = DealCommunityCards([t EXCEPT !.current_street = "Flop"], 3)
        BY <3>1 DEF NextStreet
      <4> QED BY <4>1 DEF Streets
    <3>2. CASE t.current_street = "Flop"
      <4>1. NextStreet(t, winners)
              = DealCommunityCards([t EXCEPT !.current_street = "Turn"], 1)
        BY <3>2 DEF NextStreet
      <4> QED BY <4>1 DEF Streets
    <3>3. CASE t.current_street = "Turn"
      <4>1. NextStreet(t, winners)
              = DealCommunityCards([t EXCEPT !.current_street = "River"], 1)
        BY <3>3 DEF NextStreet
      <4> QED BY <4>1 DEF Streets
    <3> QED BY <1>2, <3>1, <3>2, <3>3
  <2> QED BY <1>1, <1>2, <2>1, DealHeld
<1>3. CASE t.current_street = "River"
  <2> DEFINE shown == [t EXCEPT !.current_street = "Showdown"]
             u == Showdown(shown, winners)
  <2>1. NextStreet(t, winners) = u
    BY <1>3 DEF NextStreet
  <2>2. /\ shown \in TableType /\ shown.order = t.order /\ shown.pot = t.pot
        /\ shown.current_bet = t.current_bet /\ shown.is_folded = t.is_folded
        /\ shown.min_raise = t.min_raise /\ shown.chips = t.chips
        /\ shown.current_street = "Showdown"
    BY <1>1 DEF TableType, Streets
  <2> HIDE DEF shown
  <2>3. Sane(shown)
    BY <2>2, BetsUntouched
  <2>4. /\ u.order = shown.order /\ Held(u) <= Total(shown.chips) + shown.pot
        /\ \A p \in Players \ Unfolded(shown) : u.chips[p] <= shown.chips[p]
    BY <2>2, <2>3, ShowdownHeld
  <2>5. Unfolded(shown) = Unfolded(t)
    BY <2>2 DEF Unfolded, Seated
  <2> HIDE DEF u
  <2>6. Held(t) = Total(t.chips) + t.pot
    BY <1>3 DEF Held, Escrow
  <2> QED BY <1>3, <2>1, <2>2, <2>4, <2>5, <2>6 DEF Pays
<1>4. CASE t.current_street = "Showdown"
  <2>1. NextStreet(t, winners) = t
    BY <1>4 DEF NextStreet
  <2>2. Held(t) \in Nat /\ \A p \in Players : t.chips[p] \in Nat
    BY <1>1, HeldNat
  <2> QED BY <2>1, <2>2 DEF Pays
<1> QED BY <1>1, <1>2, <1>3, <1>4 DEF Streets

LEMMA AdvanceActionPays ==
  ASSUME NEW t, Sane(t), NEW winners \in Seq(Players)
  PROVE  Pays(t, AdvanceAction(t, winners))
<1> DEFINE ids == Active(t)
           next == NextAfter(ids, t.current_player_id)
           moved == [t EXCEPT !.current_player_id = next]
<1>1. t \in TableType
  BY DEF Sane
<1>2. CASE ids = <<>>
  <2>1. AdvanceAction(t, winners) = EndHand(t)
    BY <1>2 DEF AdvanceAction
  <2>2. Poorer(t, EndHand(t)) /\ Held(EndHand(t)) <= Held(t)
    BY <1>1, EndHandHeld
  <2> QED BY <2>1, <2>2 DEF Pays, Poorer
<1>3. CASE ids # <<>>
  <2>1. next \in Players
    BY <1>1, <1>3, ActiveSeated, NextAfterMember
  <2>2. AdvanceAction(t, winners) \in {NextStreet(moved, winners), moved}
    BY <1>3 DEF AdvanceAction
  <2> HIDE DEF next
  <2>3. /\ moved \in TableType /\ moved.order = t.order /\ moved.pot = t.pot
        /\ moved.current_bet = t.current_bet /\ moved.is_folded = t.is_folded
        /\ moved.min_raise = t.min_raise /\ moved.chips = t.chips
        /\ moved.current_street = t.current_street
    BY <1>1, <2>1 DEF TableType
  <2> HIDE DEF moved
  <2>4. Sane(moved)
    BY <2>3, BetsUntouched
  <2>5. Held(moved) = Held(t) /\ Unfolded(moved) = Unfolded(t)
    BY <2>3 DEF Held, Escrow, Unfolded, Seated
  <2>6. Pays(moved, NextStreet(moved, winners))
    BY <2>4, NextStreetPays
  <2>7. Pays(t, NextStreet(moved, winners))
    BY <2>3, <2>5, <2>6 DEF Pays
  <2>8. Pays(t, moved)
    <3>1. Held(t) \in Nat /\ \A p \in Players : t.chips[p] \in Nat
      BY <1>1, HeldNat
    <3> QED BY <2>3, <2>5, <3>1 DEF Pays
  <2> QED BY <2>2, <2>7, <2>8
<1> QED BY <1>2, <1>3

\* Every handler ends in Advance.
LEMMA AdvancePays ==
  ASSUME NEW t, Sane(t), Advance(t)
  PROVE  Pays(t, table')
<1>1. PICK winners \in Verdicts(t) : table' = AdvanceAction(t, winners)
  BY DEF Advance
<1>2. winners \in Seq(Players)
  BY <1>1, VerdictPlayers DEF Sane
<1> QED BY <1>1, <1>2, AdvanceActionPays

-----------------------------------------------------------------------------
(* Putting chips in.                                                       *)

\* What a handler hands to advance_action: nobody has more chips, all that is missing is
\* in the pot, whoever had folded still has.
HandsOver(t, u) ==
  /\ Sane(u)
  /\ u.order = t.order /\ u.current_street = t.current_street
  /\ t.is_folded \subseteq u.is_folded
  /\ \A p \in Players : u.chips[p] <= t.chips[p]
  /\ Held(u) <= Held(t)

\* Any step that moves no chips.
LEMMA NoChipsMoved ==
  ASSUME NEW t \in TableType, NEW u, Sane(u),
         u.order = t.order, u.current_street = t.current_street,
         t.is_folded \subseteq u.is_folded, u.chips = t.chips, u.pot = t.pot
  PROVE  HandsOver(t, u)
<1>1. Held(t) \in Nat /\ \A p \in Players : t.chips[p] \in Nat
  BY HeldNat
<1>2. Held(u) = Held(t)
  BY DEF Held, Escrow
<1> QED BY <1>1, <1>2 DEF HandsOver

\* A stake goes from the chips to the pot.
LEMMA StakeMoved ==
  ASSUME NEW t \in TableType, NEW p \in Players, NEW paid \in 0..t.chips[p],
         NEW u, Sane(u),
         u.order = t.order, u.current_street = t.current_street, u.is_folded = t.is_folded,
         u.chips = [t.chips EXCEPT ![p] = t.chips[p] - paid], u.pot = t.pot + paid
  PROVE  HandsOver(t, u)
<1> DEFINE left == t.chips[p] - paid
<1>1. /\ Total(t.chips) \in Nat /\ t.pot \in Nat /\ t.chips[p] \in Nat /\ paid \in Nat
      /\ t.chips \in [Players -> Nat] /\ left \in Nat
  <2>1. t.chips[p] \in Nat /\ t.chips \in [Players -> Nat]
    BY DEF TableType
  <2> QED BY <2>1, HeldNat
<1>2. u.chips = [t.chips EXCEPT ![p] = left] /\ left = t.chips[p] - paid
  OBVIOUS
<1> HIDE DEF left
<1>3. Total(u.chips) = Total(t.chips) - t.chips[p] + left
  <2>1. left \in Int
    BY <1>1
  <2> QED BY <1>2, <2>1, ChipsExcept
<1>4. Held(u) <= Held(t)
  BY <1>1, <1>2, <1>3 DEF Held, Escrow
<1>5. ASSUME NEW q \in Players PROVE u.chips[q] <= t.chips[q]
  <2>1. u.chips[q] = IF q = p THEN left ELSE t.chips[q]
    BY <1>1, <1>2
  <2>2. t.chips[q] \in Nat
    BY <1>1
  <2> QED BY <1>1, <1>2, <2>1, <2>2
<1> QED BY <1>4, <1>5 DEF HandsOver

\* A stake that also sets min_raise.
LEMMA StakeHandsOver ==
  ASSUME NEW t \in TableType, NEW p \in Players, NEW paid \in 0..t.chips[p], NEW bet, NEW min,
         Sane([Stake(t, p, paid, bet) EXCEPT !.min_raise = min])
  PROVE  HandsOver(t, [Stake(t, p, paid, bet) EXCEPT !.min_raise = min])
<1> DEFINE left == t.chips[p] - paid
           pot == t.pot + paid
           acted == t.has_acted \cup {p}
           allIn == IF t.chips[p] = paid THEN t.is_all_in \cup {p} ELSE t.is_all_in
           staked == [t EXCEPT !.chips[p] = left, !.current_bet[p] = bet, !.pot = pot,
                               !.has_acted = acted, !.is_all_in = allIn]
           u == [Stake(t, p, paid, bet) EXCEPT !.min_raise = min]
<1>1. Stake(t, p, paid, bet) = staked
  BY DEF Stake
<1>2. DOMAIN t = Fields
  BY TableFields
<1> HIDE DEF left, pot, acted, allIn
<1>3. /\ u.order = t.order /\ u.current_street = t.current_street
      /\ u.is_folded = t.is_folded /\ u.chips = [t.chips EXCEPT ![p] = left] /\ u.pot = pot
  BY <1>1, <1>2 DEF Fields
<1>4. Sane(u)
  OBVIOUS
<1> HIDE DEF u
<1>5. HandsOver(t, u)
  BY <1>3, <1>4, StakeMoved DEF left, pot
<1> QED BY <1>5 DEF u

\* A call by a player in the hand never gives chips back.
LEMMA CalledHandsOver ==
  ASSUME NEW t, Sane(t), NEW p \in Unfolded(t)
  PROVE  HandsOver(t, Called(t, p))
<1> DEFINE nothing == 0
           gap == CurrentBet(t) - t.current_bet[p]
           amount == CallAmount(t, p)
           left == t.chips[p] - amount
           bet == t.current_bet[p] + amount
           pot == t.pot + Max({nothing, amount})
           acted == t.has_acted \cup {p}
           allIn == IF t.chips[p] = amount THEN t.is_all_in \cup {p} ELSE t.is_all_in
           staked == [t EXCEPT !.chips[p] = left, !.current_bet[p] = bet, !.pot = t.pot + amount,
                               !.has_acted = acted, !.is_all_in = allIn]
           u == [staked EXCEPT !.pot = pot]
<1>1. /\ t \in TableType /\ p \in Players /\ p \in Seated(t)
      /\ t.chips[p] \in Nat /\ t.current_bet[p] \in Nat
  BY SeatedPlayers DEF Sane, TableType, Unfolded
<1>2. CurrentBet(t) \in Nat /\ t.current_bet[p] <= CurrentBet(t)
  BY <1>1, CurrentBetIsMax
<1>3. gap \in Nat
  BY <1>1, <1>2
<1>4. amount \in 0..t.chips[p]
  <2>1. gap \in Int /\ t.chips[p] \in Int
    BY <1>1, <1>3
  <2>2. amount = Min({gap, t.chips[p]})
    BY DEF CallAmount
  <2> HIDE DEF gap, amount
  <2>3. amount \in Int /\ amount <= t.chips[p] /\ (amount = gap \/ amount = t.chips[p])
    BY <2>1, <2>2, MinPair, Zenon
  <2> QED BY <1>1, <1>3, <2>3
<1>5. Max({nothing, amount}) = amount
  <2>1. nothing \in Int /\ amount \in Int
    BY <1>4
  <2> HIDE DEF amount, nothing
  <2>2. /\ Max({nothing, amount}) >= amount
        /\ Max({nothing, amount}) = nothing \/ Max({nothing, amount}) = amount
    BY <2>1, MaxPair, Zenon
  <2>3. nothing <= amount
    BY <1>4 DEF nothing
  <2> QED BY <2>1, <2>2, <2>3
<1>6. Called(t, p) = u
  BY DEF Called, Stake
<1>7. DOMAIN t = Fields
  BY <1>1, TableFields
<1>8. pot = t.pot + amount
  BY <1>5
<1>9. Sane(u)
  BY <1>1, <1>6, CalledSane
<1> HIDE DEF left, pot, acted, allIn, bet, amount
<1>10. /\ u.order = t.order /\ u.current_street = t.current_street
       /\ u.is_folded = t.is_folded /\ u.chips = [t.chips EXCEPT ![p] = left] /\ u.pot = pot
  BY <1>7 DEF Fields
<1> HIDE DEF u
<1>11. HandsOver(t, u)
  BY <1>1, <1>4, <1>8, <1>9, <1>10, StakeMoved DEF left
<1> QED BY <1>6, <1>11

-----------------------------------------------------------------------------
(* The steps.                                                              *)

\* A fold or a check.
LEMMA FoldPays ==
  ASSUME IInv, NEW p \in Players, Fold(p) \/ Check(p)
  PROVE  \E u : HandsOver(table, u) /\ Advance(u)
<1> DEFINE folded == [table EXCEPT !.is_folded = @ \cup {p}, !.has_acted = @ \cup {p}]
           checked == [table EXCEPT !.has_acted = @ \cup {p}]
<1>1. table \in TableType /\ DOMAIN table = Fields
  BY TableFields DEF IInv, Sane
<1>2. Sane(folded) /\ Sane(checked)
  BY FoldSane DEF IInv
<1>3. Advance(folded) \/ Advance(checked)
  BY DEF Fold, Check
<1>4. /\ folded.order = table.order /\ folded.current_street = table.current_street
      /\ table.is_folded \subseteq folded.is_folded
      /\ folded.chips = table.chips /\ folded.pot = table.pot
  BY <1>1 DEF Fields
<1>5. /\ checked.order = table.order /\ checked.current_street = table.current_street
      /\ checked.is_folded = table.is_folded
      /\ checked.chips = table.chips /\ checked.pot = table.pot
  BY <1>1 DEF Fields
<1> HIDE DEF folded, checked
<1>6. HandsOver(table, folded) /\ HandsOver(table, checked)
  BY <1>1, <1>2, <1>4, <1>5, NoChipsMoved
<1> QED BY <1>3, <1>6

\* A bet, a raise or an all-in: a stake of at most what the player has.
LEMMA StakingPays ==
  ASSUME IInv, NEW p \in Seated(table), NEW amount \in Nat,
         Bet(p, amount) \/ Raise(p, amount) \/ AllIn(p)
  PROVE  \E u : HandsOver(table, u) /\ Advance(u)
<1>1. /\ Sane(table) /\ table \in TableType /\ p \in Players
      /\ table.chips[p] \in Nat /\ table.current_bet[p] \in Nat
  BY SeatedPlayers DEF IInv, Sane, TableType
<1>2. SUFFICES \E paid \in 0..table.chips[p] : \E bet, min :
                 /\ Sane([Stake(table, p, paid, bet) EXCEPT !.min_raise = min])
                 /\ Advance([Stake(table, p, paid, bet) EXCEPT !.min_raise = min])
  <2>1. PICK paid \in 0..table.chips[p] : \E bet, min :
          /\ Sane([Stake(table, p, paid, bet) EXCEPT !.min_raise = min])
          /\ Advance([Stake(table, p, paid, bet) EXCEPT !.min_raise = min])
    BY <1>2
  <2>2. PICK bet, min :
          /\ Sane([Stake(table, p, paid, bet) EXCEPT !.min_raise = min])
          /\ Advance([Stake(table, p, paid, bet) EXCEPT !.min_raise = min])
    BY <2>1
  <2>3. HandsOver(table, [Stake(table, p, paid, bet) EXCEPT !.min_raise = min])
    BY <1>1, <2>2, StakeHandsOver
  <2> QED BY <2>2, <2>3
<1>3. CASE Bet(p, amount)
  <2>1. /\ amount <= table.chips[p]
        /\ Sane([Stake(table, p, amount, amount) EXCEPT !.min_raise = 2 * amount])
    BY <1>1, <1>3, BetSane DEF Bet
  <2>2. Advance([Stake(table, p, amount, amount) EXCEPT !.min_raise = 2 * amount])
    BY <1>3 DEF Bet
  <2>3. amount \in 0..table.chips[p]
    BY <1>1, <2>1
  <2> QED BY <2>1, <2>2, <2>3
<1>4. CASE Raise(p, amount)
  <2> DEFINE total == CurrentBet(table) + amount
             paid == total - table.current_bet[p]
             min == 2 * total
  <2>1. /\ paid \in Nat /\ paid <= table.chips[p]
        /\ Sane([Stake(table, p, paid, total) EXCEPT !.min_raise = min])
    BY <1>1, <1>4, RaiseSane DEF Raise
  <2>2. Advance([Stake(table, p, paid, total) EXCEPT !.min_raise = min])
    BY <1>4 DEF Raise
  <2>3. paid \in 0..table.chips[p]
    <3> HIDE DEF paid
    <3> QED BY <1>1, <2>1
  <2> HIDE DEF paid, total, min
  <2> QED BY <2>1, <2>2, <2>3
<1>5. CASE AllIn(p)
  <2> DEFINE paid == table.chips[p]
             total == table.current_bet[p] + paid
             staked == Stake(table, p, paid, total)
             min == IF total > CurrentBet(table)
                    THEN Max({staked.min_raise, 2 * total}) ELSE staked.min_raise
  <2>1. Sane([staked EXCEPT !.min_raise = min])
    BY <1>1, AllInSane
  <2>2. Advance([staked EXCEPT !.min_raise = min])
    BY <1>5 DEF AllIn
  <2>3. paid \in 0..table.chips[p]
    BY <1>1
  <2> HIDE DEF min, total, paid
  <2> QED BY <2>1, <2>2, <2>3
<1> QED BY <1>3, <1>4, <1>5

\* Whatever a player in the hand does.
LEMMA PlayerPays ==
  ASSUME IInv, TurnIsInHand, PlayerActs
  PROVE  Pays(table, table') /\ Sane(table')
<1>1. PICK u : HandsOver(table, u) /\ Advance(u)
  <2>1. PICK p \in Seated(table) :
          \/ Fold(p) \/ Check(p) \/ Call(p) \/ AllIn(p)
          \/ \E amount \in Amounts : Bet(p, amount) \/ Raise(p, amount)
    BY DEF PlayerActs
  <2>2. p \in Players /\ 0 \in Nat /\ \A amount \in Amounts : amount \in Nat
    BY SeatedPlayers, Constants DEF IInv, Sane, Amounts
  <2>3. CASE Fold(p) \/ Check(p)
    BY <2>2, <2>3, FoldPays
  <2>4. CASE Call(p)
    <3>1. p \in Unfolded(table) /\ Advance(Called(table, p))
      BY <2>4 DEF Call, TurnIsInHand, Unfolded
    <3> QED BY <3>1, CalledHandsOver DEF IInv
  <2>5. CASE AllIn(p)
    BY <2>2, <2>5, StakingPays
  <2>6. CASE \E amount \in Amounts : Bet(p, amount) \/ Raise(p, amount)
    BY <2>2, <2>6, StakingPays
  <2> QED BY <2>1, <2>3, <2>4, <2>5, <2>6
<1>2. Sane(u) /\ Pays(u, table') /\ Sane(table')
  BY <1>1, AdvancePays, AdvanceSane DEF HandsOver
<1>3. table \in TableType /\ u \in TableType /\ table' \in TableType
  BY <1>2 DEF IInv, Sane
<1>4. Held(table) \in Nat /\ Held(u) \in Nat /\ Held(table') \in Nat
  BY <1>3, HeldNat
<1>5. Unfolded(u) \subseteq Unfolded(table)
  BY <1>1 DEF HandsOver, Unfolded, Seated
<1>6. ASSUME NEW p \in Players
      PROVE  \/ table'.chips[p] <= table.chips[p]
             \/ table.current_street = "River" /\ p \in Unfolded(table)
  <2>1. u.chips[p] <= table.chips[p] /\ u.current_street = table.current_street
    BY <1>1 DEF HandsOver
  <2>2. \/ table'.chips[p] <= u.chips[p]
        \/ u.current_street = "River" /\ p \in Unfolded(u)
    BY <1>2 DEF Pays
  <2>3. table.chips[p] \in Nat /\ u.chips[p] \in Nat /\ table'.chips[p] \in Nat
    BY <1>3, HeldNat
  <2> QED BY <1>5, <2>1, <2>2, <2>3
<1>7. Held(table') <= Held(table)
  BY <1>1, <1>2, <1>4 DEF HandsOver, Pays
<1>8. table'.order = table.order
  BY <1>1, <1>2 DEF HandsOver, Pays
<1> QED BY <1>2, <1>6, <1>7, <1>8 DEF Pays

\* The other steps that change no chips.
LEMMA OtherPays ==
  ASSUME IInv,
         \/ \E p \in Players : SitOut(p) \/ ReturnToGame(p)
         \/ InactivityCount \/ InactivityReset \/ UNCHANGED vars
  PROVE  Pays(table, table')
<1>1. table \in TableType /\ DOMAIN table = Fields
  BY TableFields DEF IInv, Sane
<1>2. /\ table'.order = table.order /\ table'.chips = table.chips /\ table'.pot = table.pot
      /\ table'.current_street = table.current_street
  <2>1. CASE \E p \in Players : SitOut(p) \/ ReturnToGame(p)
    BY <1>1, <2>1 DEF SitOut, ReturnToGame, Fields
  <2>2. CASE InactivityCount \/ UNCHANGED vars
    BY <2>2 DEF InactivityCount, vars
  <2>3. CASE InactivityReset
    BY <1>1, <2>3 DEF InactivityReset, Fields
  <2> QED BY <2>1, <2>2, <2>3
<1>3. Held(table) \in Nat /\ \A p \in Players : table.chips[p] \in Nat
  BY <1>1, HeldNat
<1>4. Held(table') = Held(table)
  BY <1>2 DEF Held, Escrow
<1> QED BY <1>2, <1>3, <1>4 DEF Pays

\* Whoever joins brings the stake; the hand that may start brings nobody chips.
LEMMA JoiningPays ==
  ASSUME IInv, AddPlayer
  PROVE  /\ Held(table') <= Held(table) + StartingChips
         /\ \A q \in Seated(table) : table'.chips[q] <= table.chips[q]
         /\ \E p \in Players \ Seated(table) : Seated(table') = Seated(table) \cup {p}
<1> DEFINE p == Len(table.order) + 1
<1>1. PICK order \in {o \in [1..p -> 1..p] : IsInjective(o)} :
        LET joined == [table EXCEPT !.order = order, !.chips[p] = StartingChips]
        IN  table' = IF p = 2 THEN StartHand(joined) ELSE joined
  BY DEF AddPlayer
<1> DEFINE joined == [table EXCEPT !.order = order, !.chips[p] = StartingChips]
<1>2. /\ table \in TableType /\ DOMAIN table = Fields
      /\ Len(table.order) \in Nat /\ Len(table.order) < MaxPlayers
      /\ Seated(table) \subseteq Players
  BY TableFields, SeatedPlayers DEF IInv, Sane, AddPlayer
<1>3. p \in Nat /\ p \in 0..MaxPlayers /\ p \in Players /\ p \notin Seated(table)
  BY <1>2, Constants DEF Players, Seated
<1>4. joined \in TableType
  <2>1. order \in UNION {[1..n -> 1..n] : n \in 0..MaxPlayers}
    BY <1>1, <1>3
  <2> HIDE DEF p
  <2> QED BY <1>2, <1>3, <2>1, Constants DEF TableType
<1>5. /\ joined.order = order /\ joined.pot = table.pot
      /\ joined.current_street = table.current_street
      /\ joined.chips = [table.chips EXCEPT ![p] = StartingChips]
  BY <1>2 DEF Fields
<1> HIDE DEF joined
<1>6. Seated(joined) = Seated(table) \cup {p}
  BY <1>1, <1>2, <1>3, <1>5 DEF Seated
<1> HIDE DEF p
<1>7. /\ \A q \in Players : table.chips[q] \in Nat /\ joined.chips[q] \in Nat
      /\ table.chips \in [Players -> Nat]
      /\ Held(table) \in Nat /\ Total(table.chips) \in Nat /\ Escrow(table) \in Nat
      /\ Held(joined) \in Nat /\ Total(joined.chips) \in Nat /\ Escrow(joined) \in Nat
  BY <1>2, <1>4, HeldNat DEF TableType
<1>8. \A q \in Seated(table) : joined.chips[q] = table.chips[q]
  BY <1>2, <1>3, <1>5, <1>7
<1>9. Held(joined) <= Held(table) + StartingChips
  <2>1. Total(joined.chips) = Total(table.chips) - table.chips[p] + StartingChips
    <3> DEFINE stack == StartingChips
    <3>1. stack \in Int /\ p \in Players /\ table \in TableType
      BY <1>2, <1>3, Constants
    <3>2. joined.chips = [table.chips EXCEPT ![p] = stack]
      BY <1>5
    <3> HIDE DEF stack
    <3>3. Total([table.chips EXCEPT ![p] = stack]) = Total(table.chips) - table.chips[p] + stack
      BY <3>1, ChipsExcept
    <3> QED BY <3>2, <3>3 DEF stack
  <2>2. Escrow(joined) = Escrow(table)
    BY <1>5 DEF Escrow
  <2>3. table.chips[p] \in Nat
    BY <1>3, <1>7
  <2> QED BY <1>7, <2>1, <2>2, <2>3, Constants DEF Held
<1>10. CASE table' = joined
  <2>1. \A q \in Seated(table) : table'.chips[q] <= table.chips[q]
    BY <1>2, <1>7, <1>8, <1>10
  <2> QED BY <1>3, <1>6, <1>9, <1>10, <2>1
<1>11. CASE table' = StartHand(joined)
  <2>1. Poorer(joined, table') /\ Held(table') = Total(joined.chips)
    BY <1>4, <1>11, StartHandHeld
  <2>2. Held(table') <= Held(table) + StartingChips
    BY <1>7, <1>9, <2>1, Constants DEF Held
  <2>3. \A q \in Seated(table) : table'.chips[q] <= table.chips[q]
    BY <1>2, <1>8, <2>1 DEF Poorer
  <2>4. Seated(table') = Seated(joined)
    BY <2>1 DEF Poorer, Seated
  <2> QED BY <1>3, <1>6, <2>2, <2>3, <2>4
<1> QED BY <1>1, <1>10, <1>11 DEF joined

\* A step other than joining, while the turn is with nobody who has folded.
LEMMA StepPays ==
  ASSUME IInv, TurnIsInHand, [Next]_vars, ~AddPlayer
  PROVE  Pays(table, table')
BY PlayerPays, OtherPays DEF Next

-----------------------------------------------------------------------------
(* The theorems.                                                           *)

\* Chips come to a player only from a river that closes, and not to one that has folded:
\* no call, no blind, no end of a hand and no player who joins brings anybody chips.
THEOREM PaidOnlyByShowdown == Spec => PaidOnlyAtShowdown
<1> DEFINE Gains == \A p \in Seated(table) :
                      table'.chips[p] > table.chips[p] =>
                        table.current_street = "River" /\ p \notin table.is_folded
<1>1. IInv /\ [Next]_vars => [TurnIsInHand => Gains]_vars
  <2> SUFFICES ASSUME IInv, [Next]_vars, TurnIsInHand, NEW p \in Seated(table),
                      table'.chips[p] > table.chips[p]
               PROVE  table.current_street = "River" /\ p \notin table.is_folded
    OBVIOUS
  <2>1. p \in Players
    BY SeatedPlayers DEF IInv, Sane
  <2>2. IInv'
    BY NextIInv
  <2>3. table.chips[p] \in Nat /\ table'.chips[p] \in Nat
    BY <2>1, <2>2, HeldNat DEF IInv, Sane
  <2>4. ~(table'.chips[p] <= table.chips[p])
    BY <2>3
  <2>5. ~AddPlayer
    BY <2>4, JoiningPays
  <2>6. Pays(table, table')
    BY <2>5, StepPays
  <2> QED BY <2>1, <2>4, <2>6 DEF Pays, Unfolded
<1> QED BY <1>1, Invariance, PTL DEF Spec, PaidOnlyAtShowdown

\* The bank sums as the table does.
LEMMA BankSum == \A f, n : Bank!SumTo(f, n) = SumTo(f, n)
BY DEF Bank!SumTo, SumTo

LEMMA BankHeld == Bank!Held = Held(table) /\ Bank!Held' = Held(table')
<1>1. Bank!Held = Held(table)
  BY BankSum DEF Bank!Held, Held, Escrow, Total
<1>2. Bank!Held' = Held(table')
  BY BankSum DEF Bank!Held, Held, Escrow, Total
<1> QED BY <1>1, <1>2

\* The table is the bank that ChipBank describes: a player brings the buy-in when it joins,
\* and no blind, call, bet, side pot, odd chip or new hand makes a chip after that, or
\* leaves anybody owing one.
THEOREM TableIsBank == Spec => BankSpec
<1>1. Init => Bank!Init
  <2> SUFFICES ASSUME Init PROVE Bank!Init
    OBVIOUS
  <2>1. /\ table.order = <<>> /\ table.pot = 0 /\ table.chips = [p \in Players |-> 0]
        /\ table.current_street = "Preflop"
    BY DEF Init
  <2>2. Seated(table) = {}
    BY <2>1 DEF Seated
  <2> QED BY <2>1, <2>2 DEF Bank!Init, Players
<1>2. IInv /\ [Next]_vars => [TurnIsInHand => [Bank!Next]_(Bank!bankVars)]_vars
  <2> SUFFICES ASSUME IInv, [Next]_vars, TurnIsInHand PROVE Bank!Next
    OBVIOUS
  <2>1. IInv'
    BY NextIInv
  <2>2. Bank!NoDebt
    <3>1. table' \in TableType
      BY <2>1 DEF IInv, Sane
    <3>2. table'.pot \in Nat /\ \A p \in 1..MaxPlayers : table'.chips[p] \in Nat
      BY <3>1, HeldNat DEF Players
    <3> QED BY <3>2 DEF Bank!NoDebt
  <2>3. Bank!Held = Held(table) /\ Bank!Held' = Held(table')
    BY BankHeld
  <2>4. CASE AddPlayer
    <3>1. Bank!BuyIn
      BY <2>3, <2>4, JoiningPays DEF Bank!BuyIn, Players
    <3> QED BY <2>2, <3>1 DEF Bank!Next
  <2>5. CASE ~AddPlayer
    <3>1. Pays(table, table')
      BY <2>5, StepPays
    <3>2. Bank!Transfer
      BY <2>3, <3>1 DEF Bank!Transfer, Pays, Seated
    <3> QED BY <2>2, <3>2 DEF Bank!Next
  <2> QED BY <2>4, <2>5
<1> QED BY <1>1, <1>2, Invariance, PTL DEF Spec, BankSpec
=============================================================================
