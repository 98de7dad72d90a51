------------------------ MODULE MessageIntakeProofs ------------------------
(***************************************************************************)
(* What holds of the intake of messages for any number of connections and  *)
(* messages, any bucket, any cache and any clock: messages are taken once, *)
(* the cache keeps within its size and the buckets to their rate.          *)
(***************************************************************************)
EXTENDS MessageIntake, ChipMathProofs, FiniteSetTheorems

LEMMA Constants ==
  /\ MaxTokens \in Nat /\ RefillRate \in Nat /\ Window \in Nat
  /\ MaxWait \in Nat /\ MaxClock \in Nat
  /\ Second \in Nat /\ Second > 0 /\ Expiry \in Nat /\ Expiry > 0
  /\ CacheSize \in Nat /\ CacheSize > 0
  /\ Skews \subseteq Int
BY IntakeAssumption

\* Whole seconds lie between their bounds.
LEMMA DivBounds ==
  ASSUME NEW a \in Nat
  PROVE  /\ a \div Second \in Nat
         /\ Second * (a \div Second) <= a
         /\ a < Second * (a \div Second) + Second
BY Constants

\* The whole seconds of two spans are no more than those of both together.
LEMMA DivAdds ==
  ASSUME NEW a \in Nat, NEW b \in Nat
  PROVE  (a \div Second) + (b \div Second) <= (a + b) \div Second
<1> DEFINE p == a \div Second
           q == b \div Second
           r == (a + b) \div Second
<1>1. /\ p \in Nat /\ q \in Nat /\ r \in Nat
      /\ Second * p <= a /\ Second * q <= b /\ a + b < Second * r + Second
  BY DivBounds
<1> HIDE DEF p, q, r
<1>2. Second * (p + q) < Second * (r + 1)
  BY <1>1, Constants
<1>3. p + q < r + 1
  BY <1>1, <1>2, Constants
<1> QED BY <1>1, <1>3 DEF p, q, r

-----------------------------------------------------------------------------
(* Operators of the cache and of the bucket.                               *)

\* Cleaning up keeps the young nonces with their stamps.
LEMMA YoungOnes ==
  ASSUME TypeOK, NEW s \in Nat
  PROVE  /\ DOMAIN YoungNonces(s) = {m \in DOMAIN nonces : Young(nonces[m], s)}
         /\ \A m \in DOMAIN YoungNonces(s) : YoungNonces(s)[m] = nonces[m]
         /\ DOMAIN YoungOrder(s) = {t \in DOMAIN expiry_order : Young(t, s)}
         /\ \A t \in DOMAIN YoungOrder(s) : YoungOrder(s)[t] = expiry_order[t]
         /\ YoungNonces(s) \in [DOMAIN YoungNonces(s) -> Nat]
         /\ YoungOrder(s) \in [DOMAIN YoungOrder(s) -> Messages]
BY DEF TypeOK, YoungNonces, YoungOrder, Restrict

\* A product of naturals is one, and grows with its second factor.
LEMMA Products ==
  ASSUME NEW a \in Nat, NEW b \in Nat
  PROVE  a * b \in Nat /\ \A d \in Nat : b <= d => a * b <= a * d
OBVIOUS

\* What the cache holds once it has remembered m.
LEMMA Remembering ==
  ASSUME TypeOK, NEW s \in Nat, NEW m \in Messages, Remember(m, s)
  PROVE  LET n == YoungNonces(s)
             e == YoungOrder(s)
             K == EvictedStamps(n, e)
         IN  /\ K \subseteq DOMAIN e
             /\ DOMAIN nonces' = (DOMAIN n \ Named(e, K)) \cup {m}
             /\ DOMAIN expiry_order' = (DOMAIN e \ K) \cup {s}
             /\ nonces'[m] = s /\ expiry_order'[s] = m
             /\ \A x \in DOMAIN nonces' : x # m => nonces'[x] = nonces[x]
             /\ \A t \in DOMAIN expiry_order' : t # s => expiry_order'[t] = expiry_order[t]
             /\ nonces' \in [DOMAIN nonces' -> Nat]
             /\ expiry_order' \in [DOMAIN expiry_order' -> Messages]
             /\ Named(e, K) \subseteq Messages
             /\ evicted' = evicted \cup Named(e, K)
<1> DEFINE n == YoungNonces(s)
           e == YoungOrder(s)
           K == EvictedStamps(n, e)
           R == Restrict(n, DOMAIN n \ Named(e, K))
           Q == Restrict(e, DOMAIN e \ K)
<1>1. /\ n \in [DOMAIN n -> Nat] /\ e \in [DOMAIN e -> Messages]
      /\ \A x \in DOMAIN n : n[x] = nonces[x]
      /\ \A t \in DOMAIN e : e[t] = expiry_order[t]
  BY YoungOnes
<1>2. nonces' = Put(R, m, s) /\ expiry_order' = Put(Q, s, m) /\ evicted' = evicted \cup Named(e, K)
  BY DEF Remember
<1>3. K \subseteq DOMAIN e
  BY DEF EvictedStamps
<1> HIDE DEF n, e, K
<1>4. /\ DOMAIN R = DOMAIN n \ Named(e, K) /\ \A x \in DOMAIN R : R[x] = n[x] /\ R[x] \in Nat
      /\ DOMAIN Q = DOMAIN e \ K /\ \A t \in DOMAIN Q : Q[t] = e[t] /\ Q[t] \in Messages
  BY <1>1 DEF Restrict
<1> HIDE DEF R, Q
<1>5. /\ DOMAIN nonces' = DOMAIN R \cup {m} /\ DOMAIN expiry_order' = DOMAIN Q \cup {s}
      /\ nonces' = [z \in DOMAIN R \cup {m} |-> IF z = m THEN s ELSE R[z]]
      /\ expiry_order' = [z \in DOMAIN Q \cup {s} |-> IF z = s THEN m ELSE Q[z]]
  BY <1>2 DEF Put
<1>6. /\ nonces' \in [DOMAIN nonces' -> Nat] /\ expiry_order' \in [DOMAIN expiry_order' -> Messages]
      /\ nonces'[m] = s /\ expiry_order'[s] = m
  BY <1>4, <1>5
<1>7. /\ \A x \in DOMAIN nonces' : x # m => nonces'[x] = nonces[x]
      /\ \A t \in DOMAIN expiry_order' : t # s => expiry_order'[t] = expiry_order[t]
  BY <1>1, <1>4, <1>5
<1>8. Named(e, K) \subseteq Messages
  BY <1>1, <1>3 DEF Named
<1> QED BY <1>2, <1>3, <1>4, <1>5, <1>6, <1>7, <1>8 DEF n, e, K

\* A refill is a natural.
LEMMA RefillType ==
  ASSUME TypeOK, NEW c \in Connections, last_update_ms[c] <= clock
  PROVE  Refill(c) \in Nat
<1>1. clock - last_update_ms[c] \in Nat
  BY DEF TypeOK
<1> QED BY <1>1, DivBounds, Products, Constants, Zenon DEF Refill

\* A bucket that says yes had a token, and gains no more than the refill.
LEMMA Spending ==
  ASSUME TypeOK, NEW c \in Connections, last_update_ms[c] <= clock, Available(c) > 0
  PROVE  /\ Available(c) \in Int /\ Available(c) - 1 \in 0..MaxTokens
         /\ Refill(c) \in Nat
         /\ Available(c) <= tokens[c] + Refill(c)
<1>1. clock - last_update_ms[c] \in Nat /\ tokens[c] \in 0..MaxTokens
  BY DEF TypeOK
<1>2. Refill(c) \in Nat
  BY RefillType
<1> DEFINE r == Refill(c)
           k == tokens[c]
<1> HIDE DEF r
<1>3. r \in Nat /\ k \in Nat /\ k + r \in Int /\ MaxTokens \in Int
  BY <1>1, <1>2, Constants DEF r
<1>4. /\ Min({MaxTokens, k + r}) \in Int
      /\ Min({MaxTokens, k + r}) <= MaxTokens /\ Min({MaxTokens, k + r}) <= k + r
  BY <1>3, MinPair
<1>5. Available(c) = Min({MaxTokens, k + r})
  BY DEF Available, r
<1> HIDE DEF k
<1>6. Available(c) \in Int /\ Available(c) - 1 \in 0..MaxTokens /\ Available(c) <= k + r
  BY <1>4, <1>5, Constants
<1> QED BY <1>2, <1>6 DEF r, k

-----------------------------------------------------------------------------
(* Types.                                                                  *)

\* No bucket was refilled later than now.
Bucketed == \A c \in Connections : last_update_ms[c] <= clock

BucketType ==
  /\ tokens \in [Connections -> 0..MaxTokens]
  /\ last_update_ms \in [Connections -> Nat]
  /\ granted \in [Connections -> Nat]

TaskType ==
  /\ stage \in [Connections -> Stages]
  /\ hand \in [Connections -> Messages \cup {Nothing}]
  /\ since \in [Connections -> Nat]
  /\ now \in [Connections -> Nat]

CacheType ==
  /\ DOMAIN nonces \subseteq Messages /\ nonces \in [DOMAIN nonces -> Nat]
  /\ DOMAIN expiry_order \subseteq Nat /\ expiry_order \in [DOMAIN expiry_order -> Messages]
  /\ taken \in [Messages -> Nat]
  /\ evicted \subseteq Messages /\ far_ahead \subseteq Messages

LEMMA TypeParts ==
  /\ TypeOK <=> (/\ clock \in Nat /\ sent \subseteq Messages /\ timestamp \in [Messages -> Int]
                 /\ BucketType /\ TaskType /\ CacheType)
  /\ TypeOK' <=> (/\ clock' \in Nat /\ sent' \subseteq Messages /\ timestamp' \in [Messages -> Int]
                  /\ BucketType' /\ TaskType' /\ CacheType')
BY DEF TypeOK, BucketType, TaskType, CacheType

LEMMA SpendType ==
  ASSUME TypeOK, Bucketed, NEW c \in Connections, Available(c) > 0, Spend(c), clock' = clock
  PROVE  BucketType' /\ Bucketed'
<1>1. Available(c) - 1 \in 0..MaxTokens
  BY Spending DEF Bucketed
<1>2. BucketType /\ clock \in Nat
  BY TypeParts
<1> DEFINE a == Available(c) - 1
           l == IF Refill(c) > 0 THEN clock ELSE last_update_ms[c]
<1>3. /\ tokens' = [tokens EXCEPT ![c] = a]
      /\ last_update_ms' = [last_update_ms EXCEPT ![c] = l]
      /\ granted' = [granted EXCEPT ![c] = @ + 1]
  BY DEF Spend
<1>4. a \in 0..MaxTokens /\ l \in Nat /\ l <= clock
  BY <1>1, <1>2 DEF BucketType, Bucketed
<1> HIDE DEF a, l
<1>5. BucketType'
  BY <1>2, <1>3, <1>4 DEF BucketType
<1>6. Bucketed'
  BY <1>2, <1>3, <1>4 DEF Bucketed, BucketType
<1> QED BY <1>5, <1>6

LEMMA CloseType ==
  ASSUME TypeOK, NEW c \in Connections, Close(c)
  PROVE  TaskType'
BY TypeParts DEF Close, LetGo, TaskType, Stages

LEMMA RememberType ==
  ASSUME TypeOK, NEW m \in Messages, NEW s \in Nat, Remember(m, s)
  PROVE  /\ DOMAIN nonces' \subseteq Messages /\ nonces' \in [DOMAIN nonces' -> Nat]
         /\ DOMAIN expiry_order' \subseteq Nat
         /\ expiry_order' \in [DOMAIN expiry_order' -> Messages]
         /\ evicted' \subseteq Messages /\ far_ahead' \subseteq Messages
<1> DEFINE n == YoungNonces(s)
           e == YoungOrder(s)
           K == EvictedStamps(n, e)
<1>1. /\ DOMAIN nonces' = (DOMAIN n \ Named(e, K)) \cup {m}
      /\ DOMAIN expiry_order' = (DOMAIN e \ K) \cup {s}
      /\ nonces' \in [DOMAIN nonces' -> Nat]
      /\ expiry_order' \in [DOMAIN expiry_order' -> Messages]
      /\ evicted' = evicted \cup Named(e, K) /\ Named(e, K) \subseteq Messages
  BY Remembering
<1>2. DOMAIN n \subseteq DOMAIN nonces /\ DOMAIN e \subseteq DOMAIN expiry_order
  BY YoungOnes
<1>3. CacheType
  BY TypeParts
<1>4. far_ahead' \subseteq far_ahead \cup {m}
  BY DEF Remember
<1> HIDE DEF n, e, K
<1> QED BY <1>1, <1>2, <1>3, <1>4 DEF CacheType

\* A task that has a stamp holds a message.
InHand ==
  \A c \in Connections : stage[c] \in {"fresh", "stamped"} => hand[c] \in Messages

TypeInv == TypeOK /\ Bucketed /\ InHand

LEMMA TypeInit == Init => TypeInv
<1> SUFFICES ASSUME Init PROVE TypeInv
  OBVIOUS
<1>1. BucketType /\ Bucketed
  BY Constants DEF Init, BucketType, Bucketed
<1>2. TaskType /\ InHand
  BY DEF Init, TaskType, Stages, InHand
<1>3. CacheType
  BY DEF Init, CacheType
<1>4. clock \in Nat /\ sent \subseteq Messages /\ timestamp \in [Messages -> Int]
  BY DEF Init
<1> QED BY <1>1, <1>2, <1>3, <1>4, TypeParts DEF TypeInv

LEMMA TypeStep == TypeInv /\ [Next]_vars => TypeInv'
<1> SUFFICES ASSUME TypeInv, [Next]_vars PROVE TypeInv'
  OBVIOUS
<1> USE DEF TypeInv
<1>t. /\ clock \in Nat /\ sent \subseteq Messages /\ timestamp \in [Messages -> Int]
      /\ BucketType /\ TaskType /\ CacheType
  BY TypeParts
<1>1. CASE UNCHANGED vars
  <2>1. BucketType' /\ TaskType' /\ CacheType' /\ Bucketed' /\ InHand'
    BY <1>1, <1>t DEF vars, client, task, bucket, cache, BucketType, TaskType, CacheType,
                      Bucketed, InHand
  <2> QED BY <2>1, <1>1, <1>t, TypeParts DEF vars, client
<1>2. CASE Tick
  <2>1. BucketType' /\ TaskType' /\ CacheType' /\ InHand'
    BY <1>2, <1>t DEF Tick, client, task, bucket, cache, BucketType, TaskType, CacheType, InHand
  <2>2. Bucketed'
    BY <1>2, <1>t DEF Tick, bucket, Bucketed, BucketType
  <2> QED BY <2>1, <2>2, <1>2, <1>t, TypeParts DEF Tick, client
<1>3. ASSUME NEW m \in Messages, Create(m) PROVE TypeInv'
  <2>1. BucketType' /\ TaskType' /\ CacheType' /\ Bucketed' /\ InHand'
    BY <1>3, <1>t DEF Create, task, bucket, cache, BucketType, TaskType, CacheType,
                      Bucketed, InHand
  <2>2. clock' \in Nat /\ sent' \subseteq Messages /\ timestamp' \in [Messages -> Int]
    BY <1>3, <1>t, Constants DEF Create
  <2> QED BY <2>1, <2>2, TypeParts
<1>4. ASSUME NEW c \in Connections,
             \/ \E m \in Messages : Receive(c, m)
             \/ ReceiveOther(c) \/ RateLimited(c) \/ Stamp(c)
             \/ Duplicate(c) \/ Take(c) \/ BadlySigned(c)
      PROVE  TypeInv'
  <2>1. clock' \in Nat /\ sent' \subseteq Messages /\ timestamp' \in [Messages -> Int]
        /\ clock' = clock
    BY <1>4, <1>t DEF Receive, ReceiveOther, RateLimited, Stamp, Duplicate, Take,
                      BadlySigned, client
  <2>2. BucketType' /\ Bucketed'
    <3>1. CASE Available(c) > 0 /\ Spend(c)
      BY <3>1, <2>1, SpendType
    <3>2. CASE UNCHANGED bucket
      BY <3>2, <2>1, <1>t DEF bucket, BucketType, Bucketed
    <3> QED BY <3>1, <3>2, <1>4 DEF Receive, ReceiveOther, RateLimited, Stamp, Duplicate, Take,
                                    BadlySigned
  <2>3. TaskType' /\ InHand'
    <3>1. CASE Close(c)
      BY <3>1, <1>t DEF Close, LetGo, TaskType, Stages, InHand
    <3>2. CASE \E m \in Messages : Receive(c, m) /\ ~Close(c)
      BY <3>2, <1>t DEF Receive, TaskType, Stages, InHand
    <3>3. CASE Stamp(c)
      BY <3>3, <1>t DEF Stamp, TaskType, Stages, InHand
    <3>4. CASE Take(c)
      BY <3>4, <1>t DEF Take, LetGo, TaskType, Stages, InHand
    <3> QED BY <3>1, <3>2, <3>3, <3>4, <1>4 DEF ReceiveOther, RateLimited, Duplicate, BadlySigned
  <2>4. CacheType'
    <3>1. CASE UNCHANGED cache
      BY <3>1, <1>t DEF cache, CacheType
    <3>2. CASE Duplicate(c)
      BY <3>2, <1>t, YoungOnes DEF Duplicate, CacheType, TaskType
    <3>3. CASE Take(c) \/ BadlySigned(c)
      <4>1. hand[c] \in Messages /\ now[c] \in Nat /\ Remember(hand[c], now[c])
        BY <3>3, <1>t DEF Take, BadlySigned, InHand, TaskType
      <4>2. taken' \in [Messages -> Nat]
        BY <3>3, <4>1, <1>t DEF Take, BadlySigned, CacheType
      <4> QED BY <4>1, <4>2, RememberType DEF CacheType
    <3> QED BY <3>1, <3>2, <3>3, <1>4 DEF Receive, ReceiveOther, RateLimited, Stamp
  <2> QED BY <2>1, <2>2, <2>3, <2>4, TypeParts
<1> QED BY <1>1, <1>2, <1>3, <1>4 DEF Next

\* The variables keep their types: no bucket ever overflows, and the cache maps
\* messages to stamps and stamps to messages.
THEOREM TypeCorrect == Spec => []TypeOK
<1>1. TypeInv => TypeOK
  BY DEF TypeInv
<1> QED BY <1>1, TypeInit, TypeStep, PTL DEF Spec

-----------------------------------------------------------------------------
(* The rate.                                                               *)

\* RateKept at the time of the last refill, which later refills add to.
Rated ==
  \A c \in Connections :
    granted[c] + tokens[c] <= MaxTokens + RefillRate * (last_update_ms[c] \div Second)

\* The refill of one step fits between the seconds before and after it.
LEMMA RefillFits ==
  ASSUME TypeOK, Bucketed, NEW c \in Connections
  PROVE  RefillRate * (last_update_ms[c] \div Second) + Refill(c)
           <= RefillRate * (clock \div Second)
<1> DEFINE u == last_update_ms[c]
           p == u \div Second
           q == (clock - u) \div Second
           r == clock \div Second
<1>1. u \in Nat /\ clock - u \in Nat /\ clock \in Nat /\ u + (clock - u) = clock
  BY DEF TypeOK, Bucketed
<1>2. p \in Nat /\ q \in Nat /\ r \in Nat /\ p + q <= r
  <2>1. p \in Nat /\ q \in Nat /\ r \in Nat
    BY <1>1, DivBounds
  <2>2. p + q <= (u + (clock - u)) \div Second
    BY <1>1, DivAdds
  <2> QED BY <2>1, <2>2, <1>1
<1>3. Refill(c) = RefillRate * q
  BY DEF Refill
<1> HIDE DEF p, q, r
<1>4. RefillRate * (p + q) <= RefillRate * r
  BY <1>2, Products, Constants
<1>5. RefillRate * p + RefillRate * q = RefillRate * (p + q)
  BY <1>2, Constants
<1>6. RefillRate * p + Refill(c) <= RefillRate * r
  BY <1>3, <1>4, <1>5
<1> QED BY <1>6 DEF p, r

LEMMA RatedStep == TypeInv /\ Rated /\ [Next]_vars => Rated'
<1> SUFFICES ASSUME TypeInv, Rated, [Next]_vars PROVE Rated'
  OBVIOUS
<1>1. CASE UNCHANGED bucket
  BY <1>1 DEF bucket, Rated
<1>2. ASSUME NEW c \in Connections, Available(c) > 0, Spend(c) PROVE Rated'
  <2> DEFINE p == RefillRate * (last_update_ms[c] \div Second)
             r == RefillRate * (clock \div Second)
             a == Available(c)
             f == Refill(c)
  <2>0. TypeOK /\ last_update_ms[c] <= clock
    BY DEF TypeInv, Bucketed
  <2>1. a \in Int /\ f \in Nat /\ a <= tokens[c] + f
    BY <1>2, <2>0, Spending
  <2>2. p + f <= r /\ p \in Nat /\ r \in Nat
    BY RefillFits, DivBounds, Products, Constants DEF TypeInv, TypeOK
  <2>3. granted[c] \in Nat /\ tokens[c] \in Nat /\ granted[c] + tokens[c] <= MaxTokens + p
    BY Constants DEF Rated, TypeInv, TypeOK
  <2>4. /\ tokens' = [tokens EXCEPT ![c] = a - 1]
        /\ last_update_ms' = [last_update_ms EXCEPT ![c] = IF f > 0 THEN clock ELSE @]
        /\ granted' = [granted EXCEPT ![c] = @ + 1]
    BY <1>2 DEF Spend
  <2>t. /\ tokens \in [Connections -> 0..MaxTokens] /\ granted \in [Connections -> Nat]
        /\ last_update_ms \in [Connections -> Nat]
    BY DEF TypeInv, TypeOK
  <2>5. /\ tokens'[c] = a - 1 /\ granted'[c] = granted[c] + 1
        /\ RefillRate * (last_update_ms'[c] \div Second) = IF f > 0 THEN r ELSE p
    <3> HIDE DEF a, f
    <3> QED BY <2>4, <2>t
  <2>6. granted'[c] + tokens'[c] <= MaxTokens + (IF f > 0 THEN r ELSE p)
    <3> HIDE DEF a, f, p, r
    <3> QED BY <2>1, <2>2, <2>3, <2>5, Constants
  <2>7. \A d \in Connections : d # c =>
          tokens'[d] = tokens[d] /\ granted'[d] = granted[d] /\ last_update_ms'[d] = last_update_ms[d]
    BY <2>4, <2>t
  <2> HIDE DEF a, f, p, r
  <2>8. granted'[c] + tokens'[c] <= MaxTokens + RefillRate * (last_update_ms'[c] \div Second)
    BY <2>5, <2>6
  <2> QED BY <2>7, <2>8 DEF Rated
<1> QED BY <1>1, <1>2 DEF Next, vars, Tick, Create, Receive, ReceiveOther, RateLimited, Stamp,
                         Duplicate, Take, BadlySigned

\* No connection gets more out of its bucket than the bucket's size and the refill of
\* the whole seconds gone by, whenever its messages come.
THEOREM RateIsKept == Spec => []RateKept
<1>1. Init => Rated
  <2>1. 0 \div Second \in Nat
    BY DivBounds
  <2>2. RefillRate * (0 \div Second) \in Nat
    BY <2>1, Products, Constants
  <2> QED BY <2>2, Constants DEF Init, Rated
<1>2. TypeInv /\ Rated => RateKept
  <2> SUFFICES ASSUME TypeInv, Rated, NEW c \in Connections
               PROVE  granted[c] + tokens[c] <= MaxTokens + RefillRate * (clock \div Second)
    BY DEF RateKept
  <2> DEFINE p == RefillRate * (last_update_ms[c] \div Second)
             r == RefillRate * (clock \div Second)
  <2>1. p + Refill(c) <= r /\ p \in Nat /\ r \in Nat
    BY RefillFits, DivBounds, Products, Constants DEF TypeInv, TypeOK
  <2>2. Refill(c) \in Nat
    BY RefillType DEF TypeInv, Bucketed
  <2>3. granted[c] \in Nat /\ tokens[c] \in Nat /\ granted[c] + tokens[c] <= MaxTokens + p
    BY Constants DEF Rated, TypeInv, TypeOK
  <2> HIDE DEF p, r
  <2>4. granted[c] + tokens[c] <= MaxTokens + r
    BY <2>1, <2>2, <2>3, Constants
  <2> QED BY <2>4 DEF r
<1> QED BY <1>1, <1>2, TypeInit, TypeStep, RatedStep, PTL DEF Spec

-----------------------------------------------------------------------------
(* The cache keeps within its size.                                        *)

\* Whatever stamps a cache holds, the loop takes enough of them to make room.
LEMMA RoomMade ==
  ASSUME NEW n, DOMAIN n \subseteq Messages, NEW e, DOMAIN e \subseteq Nat,
         Cardinality(DOMAIN n \ Named(e, DOMAIN e)) < CacheSize
  PROVE  LET left == DOMAIN n \ Named(e, EvictedStamps(n, e))
         IN  IsFiniteSet(left) /\ Cardinality(left) < CacheSize
<1> DEFINE K == EvictedStamps(n, e)
           Before(t) == {u \in DOMAIN e : u < t}
           Left(U) == DOMAIN n \ Named(e, U)
<1>1. IsFiniteSet(DOMAIN n)
  BY IntakeAssumption, FS_Subset
<1>2. \A U : IsFiniteSet(Left(U)) /\ Cardinality(Left(U)) \in Nat
  BY <1>1, FS_Difference, FS_CardinalityType
<1>3. ASSUME NEW U, NEW V, U \subseteq V PROVE Cardinality(Left(V)) <= Cardinality(Left(U))
  <2>1. Left(V) \in SUBSET Left(U)
    BY <1>3 DEF Named
  <2> HIDE DEF Left
  <2> QED BY <2>1, <1>2, FS_Subset
<1>4. CASE DOMAIN e \subseteq K
  BY <1>2, <1>3, <1>4, Constants DEF Left
<1>5. CASE DOMAIN e \ K # {}
  <2>1. DOMAIN e \ K \in SUBSET Nat
    OBVIOUS
  <2>2. PICK t \in DOMAIN e \ K : \A u \in DOMAIN e \ K : t <= u
    BY <1>5, <2>1, LeastNat
  <2>3. Before(t) \subseteq K
    BY <2>2
  <2>4. ~(Cardinality(Left(Before(t))) >= CacheSize)
    BY <2>2 DEF EvictedStamps
  <2>6. Cardinality(Left(K)) <= Cardinality(Left(Before(t)))
    BY <2>3, <1>3
  <2> HIDE DEF Left, Before, K
  <2>5. Cardinality(Left(Before(t))) < CacheSize
    BY <2>4, <1>2, Constants
  <2>7. Cardinality(Left(K)) < CacheSize
    BY <2>5, <2>6, <1>2, Constants
  <2> QED BY <2>7, <1>2 DEF Left, K
<1> QED BY <1>4, <1>5

CacheInv == OrderNamesNonces /\ NeverOverfull

\* What is left after cleaning up, and what nothing names there.
LEMMA YoungCache ==
  ASSUME TypeOK, CacheInv, NEW s \in Nat
  PROVE  LET n == YoungNonces(s)
             e == YoungOrder(s)
         IN  /\ DOMAIN n \subseteq DOMAIN nonces /\ DOMAIN e \subseteq DOMAIN expiry_order
             /\ \A t \in DOMAIN e : e[t] \in DOMAIN n /\ n[e[t]] = t
             /\ Cardinality(DOMAIN n) <= CacheSize
             /\ Cardinality(DOMAIN n \ Named(e, DOMAIN e)) < CacheSize
<1> DEFINE n == YoungNonces(s)
           e == YoungOrder(s)
           lost == DOMAIN n \ Named(e, DOMAIN e)
<1>1. /\ DOMAIN n = {m \in DOMAIN nonces : Young(nonces[m], s)}
      /\ \A m \in DOMAIN n : n[m] = nonces[m]
      /\ DOMAIN e = {t \in DOMAIN expiry_order : Young(t, s)}
      /\ \A t \in DOMAIN e : e[t] = expiry_order[t]
  BY YoungOnes
<1> HIDE DEF n, e
<1>2. \A t \in DOMAIN e : e[t] \in DOMAIN n /\ n[e[t]] = t
  BY <1>1 DEF CacheInv, OrderNamesNonces
<1>3. lost \in SUBSET Orphans
  <2> SUFFICES ASSUME NEW m \in lost, NEW t \in DOMAIN expiry_order, m = expiry_order[t]
               PROVE  FALSE
    BY <1>1 DEF Orphans, Named
  <2>1. nonces[m] = t /\ Young(nonces[m], s)
    BY <1>1 DEF CacheInv, OrderNamesNonces
  <2>2. t \in DOMAIN e /\ e[t] = m
    BY <2>1, <1>1
  <2> QED BY <2>2 DEF Named
<1>4. IsFiniteSet(DOMAIN nonces) /\ IsFiniteSet(Orphans)
  BY IntakeAssumption, FS_Subset, FS_Difference DEF TypeOK, Orphans
<1>5. /\ Cardinality(DOMAIN n) <= Cardinality(DOMAIN nonces) /\ Cardinality(lost) <= Cardinality(Orphans)
      /\ Cardinality(DOMAIN n) \in Nat /\ Cardinality(lost) \in Nat
      /\ Cardinality(DOMAIN nonces) \in Nat /\ Cardinality(Orphans) \in Nat
  <2>1. DOMAIN n \in SUBSET DOMAIN nonces
    BY <1>1
  <2> HIDE DEF lost
  <2> QED BY <1>3, <1>4, <2>1, FS_Subset, FS_CardinalityType
<1>6. Cardinality(DOMAIN n) <= CacheSize /\ Cardinality(lost) < CacheSize
  <2> HIDE DEF lost
  <2> QED BY <1>5, Constants DEF CacheInv, NeverOverfull
<1> QED BY <1>1, <1>2, <1>6 DEF n, e

LEMMA RememberCache ==
  ASSUME TypeOK, CacheInv, NEW s \in Nat, NEW m \in Messages,
         m \notin DOMAIN YoungNonces(s), Remember(m, s)
  PROVE  CacheInv'
<1> DEFINE n == YoungNonces(s)
           e == YoungOrder(s)
           K == EvictedStamps(n, e)
           left == DOMAIN n \ Named(e, K)
<1>1. /\ K \subseteq DOMAIN e
      /\ DOMAIN nonces' = left \cup {m} /\ DOMAIN expiry_order' = (DOMAIN e \ K) \cup {s}
      /\ nonces'[m] = s /\ expiry_order'[s] = m
      /\ \A x \in DOMAIN nonces' : x # m => nonces'[x] = nonces[x]
      /\ \A t \in DOMAIN expiry_order' : t # s => expiry_order'[t] = expiry_order[t]
  BY Remembering
<1>2. /\ \A t \in DOMAIN e : e[t] \in DOMAIN n /\ n[e[t]] = t
      /\ DOMAIN n \subseteq DOMAIN nonces /\ DOMAIN e \subseteq DOMAIN expiry_order
      /\ Cardinality(DOMAIN n \ Named(e, DOMAIN e)) < CacheSize
  BY YoungCache
<1>3. /\ \A x \in DOMAIN n : n[x] = nonces[x]
      /\ \A t \in DOMAIN e : e[t] = expiry_order[t]
  BY YoungOnes
<1>4. IsFiniteSet(left) /\ Cardinality(left) < CacheSize
  <2>1. DOMAIN n \subseteq Messages /\ DOMAIN e \subseteq Nat
    BY <1>2 DEF TypeOK
  <2> HIDE DEF n, e
  <2> QED BY <1>2, <2>1, RoomMade DEF left, K
<1>5. m \notin DOMAIN n
  OBVIOUS
<1> HIDE DEF n, e, K
<1>6. OrderNamesNonces'
  <2> SUFFICES ASSUME NEW t \in DOMAIN expiry_order'
               PROVE  expiry_order'[t] \in DOMAIN nonces' /\ nonces'[expiry_order'[t]] = t
    BY DEF OrderNamesNonces
  <2>1. CASE t = s
    BY <2>1, <1>1
  <2>2. CASE t # s
    <3>1. t \in DOMAIN e \ K /\ expiry_order'[t] = e[t] /\ e[t] \in DOMAIN n /\ n[e[t]] = t
      BY <2>2, <1>1, <1>2, <1>3
    <3>2. e[t] \notin Named(e, K)
      BY <3>1, <1>1, <1>2 DEF Named
    <3>3. e[t] \in DOMAIN nonces' /\ e[t] # m
      BY <3>1, <3>2, <1>1, <1>5
    <3> QED BY <3>1, <3>3, <1>1, <1>3
  <2> QED BY <2>1, <2>2
<1>7. Orphans' \in SUBSET left
  BY <1>1 DEF Orphans, Named
<1> HIDE DEF left
<1>8. Cardinality(DOMAIN nonces') <= CacheSize
  <2> DEFINE k == Cardinality(left)
  <2>1. k \in Nat /\ k < CacheSize
    BY <1>4, FS_CardinalityType
  <2>2. Cardinality(left \cup {m}) = IF m \in left THEN k ELSE k + 1
    BY <1>4, FS_AddElement
  <2> HIDE DEF k
  <2>3. Cardinality(left \cup {m}) <= CacheSize
    BY <2>1, <2>2, Constants
  <2> QED BY <2>3, <1>1
<1>9. Cardinality(Orphans') < CacheSize
  <2> DEFINE k == Cardinality(left)
             o == Cardinality(Orphans')
  <2>1. k \in Nat /\ o \in Nat /\ o <= k
    BY <1>4, <1>7, FS_Subset, FS_CardinalityType
  <2> HIDE DEF k, o
  <2>2. k < CacheSize
    BY <1>4 DEF k
  <2>3. o < CacheSize
    BY <2>1, <2>2, Constants
  <2> QED BY <2>3 DEF o
<1> QED BY <1>6, <1>8, <1>9 DEF CacheInv, NeverOverfull

LEMMA CacheStep == TypeInv /\ CacheInv /\ [Next]_vars => CacheInv'
<1> SUFFICES ASSUME TypeInv, CacheInv, [Next]_vars PROVE CacheInv'
  OBVIOUS
<1>1. CASE UNCHANGED cache
  BY <1>1 DEF cache, CacheInv, OrderNamesNonces, NeverOverfull, Orphans
<1>2. ASSUME NEW c \in Connections, Duplicate(c) PROVE CacheInv'
  <2> DEFINE n == YoungNonces(now[c])
             e == YoungOrder(now[c])
  <2>1. now[c] \in Nat
    BY DEF TypeInv, TypeOK
  <2>2. /\ \A t \in DOMAIN e : e[t] \in DOMAIN n /\ n[e[t]] = t
        /\ Cardinality(DOMAIN n) <= CacheSize
        /\ Cardinality(DOMAIN n \ Named(e, DOMAIN e)) < CacheSize
    BY <2>1, YoungCache DEF TypeInv
  <2>3. nonces' = n /\ expiry_order' = e
    BY <1>2 DEF Duplicate
  <2> HIDE DEF n, e
  <2> QED BY <2>2, <2>3 DEF CacheInv, OrderNamesNonces, NeverOverfull, Orphans
<1>3. ASSUME NEW c \in Connections, Take(c) \/ BadlySigned(c) PROVE CacheInv'
  <2>1. hand[c] \in Messages /\ now[c] \in Nat
    BY <1>3 DEF Take, BadlySigned, TypeInv, TypeOK, InHand
  <2>2. hand[c] \notin DOMAIN YoungNonces(now[c]) /\ Remember(hand[c], now[c])
    BY <1>3 DEF Take, BadlySigned
  <2> QED BY <2>1, <2>2, RememberCache DEF TypeInv
<1> QED BY <1>1, <1>2, <1>3 DEF Next, vars, Tick, Create, Receive, ReceiveOther, RateLimited,
                               Stamp

LEMMA CacheAlways == Spec => []CacheInv
<1>1. Init => CacheInv
  <2> SUFFICES ASSUME Init PROVE CacheInv
    OBVIOUS
  <2>1. DOMAIN nonces = {} /\ DOMAIN expiry_order = {}
    BY DEF Init
  <2>2. Orphans = {} /\ OrderNamesNonces
    BY <2>1 DEF Orphans, OrderNamesNonces
  <2>3. Cardinality({}) = 0
    BY FS_EmptySet
  <2>4. 0 <= CacheSize /\ 0 < CacheSize
    BY Constants
  <2> QED BY <2>1, <2>2, <2>3, <2>4 DEF CacheInv, NeverOverfull
<1> QED BY <1>1, TypeInit, TypeStep, CacheStep, PTL DEF Spec

\* The cache never outgrows NONCE_CACHE_SIZE, in whatever order stamps are stored and
\* however many nonces share one.
THEOREM CacheKeepsItsSize == Spec => []NeverOverfull
<1>1. CacheInv => NeverOverfull
  BY DEF CacheInv
<1> QED BY <1>1, CacheAlways, PTL

\* The two maps of the cache agree: whatever expiry and eviction take from one they take
\* from the other, so the order of expiry never names a nonce that is gone.
THEOREM OrderKeepsUp == Spec => []OrderNamesNonces
<1>1. CacheInv => OrderNamesNonces
  BY DEF CacheInv
<1> QED BY <1>1, CacheAlways, PTL

-----------------------------------------------------------------------------
(* Messages are taken once.                                                *)

\* When its nonce was stored, at t, the timestamp of m was not too far ahead.
Soon(m, t) == m \in far_ahead \/ timestamp[m] - t < Lead

\* Nobody can be at work on m any more.
LongGone(m) == clock - timestamp[m] > Window + MaxWait

NoncesInTime == \A m \in DOMAIN nonces : m \in sent /\ Soon(m, nonces[m])

Working(c) == stage[c] \in {"fresh", "stamped"}

WorkInTime ==
  \A c \in Connections : Working(c) =>
    /\ hand[c] \in sent
    /\ since[c] - timestamp[hand[c]] <= Window
    /\ since[c] <= clock /\ clock <= since[c] + MaxWait
    /\ stage[c] = "stamped" => since[c] <= now[c] /\ now[c] <= clock

\* The cache knows a message that was taken for as long as it can come again.
Remembered ==
  \A m \in Messages \ (evicted \cup far_ahead) : taken[m] > 0 =>
    m \in sent /\ (m \in DOMAIN nonces \/ LongGone(m))

OnceInv == NoncesInTime /\ WorkInTime /\ Remembered /\ TakenOnce

\* A nonce that expires belongs to a message that nobody can be at work on, unless that was
\* too far ahead.
LEMMA ExpiredGone ==
  ASSUME TypeOK, NEW m \in Messages \ far_ahead, NEW t \in Int, NEW s \in Int,
         Soon(m, t), ~Young(t, s), s <= clock
  PROVE  LongGone(m)
<1>1. timestamp[m] - t < Expiry - Window - MaxWait
  BY DEF Soon, Lead
<1>2. timestamp[m] \in Int /\ clock \in Int
  BY DEF TypeOK
<1>3. s - t >= Expiry
  BY Constants DEF Young
<1> QED BY <1>1, <1>2, <1>3, Constants DEF LongGone

\* Nobody is at work on a message that is long gone.
LEMMA GoneIdle ==
  ASSUME TypeInv, WorkInTime, NEW c \in Connections, Working(c)
  PROVE  ~LongGone(hand[c])
<1>1. hand[c] \in Messages /\ timestamp[hand[c]] \in Int /\ clock \in Int /\ since[c] \in Int
  BY DEF TypeInv, TypeOK, InHand, Working
<1>2. since[c] - timestamp[hand[c]] <= Window /\ clock <= since[c] + MaxWait
  BY DEF WorkInTime
<1> QED BY <1>1, <1>2, Constants DEF LongGone

\* A message that reached its handler, was not too far ahead and whose nonce has not been
\* evicted is not looked for in vain.
LEMMA StillKnown ==
  ASSUME TypeInv, OnceInv, NEW c \in Connections, stage[c] = "stamped",
         hand[c] \notin DOMAIN YoungNonces(now[c]), hand[c] \notin evicted \cup far_ahead
  PROVE  taken[hand[c]] = 0
<1> DEFINE m == hand[c]
           s == now[c]
<1>1. Working(c) /\ m \in Messages /\ s \in Int /\ taken[m] \in Nat /\ s \in Nat
  BY DEF Working, TypeInv, TypeOK, InHand
<1>2. ~LongGone(m)
  BY <1>1, GoneIdle DEF OnceInv
<1>3. SUFFICES ASSUME taken[m] > 0 PROVE FALSE
  BY <1>1
<1>4. m \in DOMAIN nonces
  BY <1>1, <1>2, <1>3 DEF OnceInv, Remembered
<1>5. ~Young(nonces[m], s)
  BY <1>1, <1>4, YoungOnes DEF TypeInv
<1>6. Soon(m, nonces[m]) /\ nonces[m] \in Int /\ s <= clock
  BY <1>1, <1>4 DEF OnceInv, NoncesInTime, WorkInTime, TypeInv, TypeOK
<1>7. LongGone(m)
  BY <1>1, <1>5, <1>6, ExpiredGone DEF TypeInv
<1> QED BY <1>2, <1>7

\* Cleaning up forgets only messages that are long gone, or were too far ahead.
LEMMA CleanedUp ==
  ASSUME TypeInv, OnceInv, NEW c \in Connections, stage[c] = "stamped",
         NEW m \in DOMAIN nonces, m \notin DOMAIN YoungNonces(now[c]), m \notin far_ahead
  PROVE  LongGone(m)
<1>1. m \in Messages /\ nonces[m] \in Int /\ now[c] \in Nat /\ now[c] \in Int
  BY DEF TypeInv, TypeOK
<1>2. ~Young(nonces[m], now[c])
  BY <1>1, YoungOnes DEF TypeInv
<1>3. now[c] <= clock /\ Soon(m, nonces[m])
  BY DEF OnceInv, WorkInTime, Working, NoncesInTime
<1> QED BY <1>1, <1>2, <1>3, ExpiredGone DEF TypeInv

LEMMA DuplicateOnce ==
  ASSUME TypeInv, OnceInv, NEW c \in Connections, Duplicate(c)
  PROVE  NoncesInTime' /\ Remembered' /\ TakenOnce'
<1>1. now[c] \in Nat /\ nonces' = YoungNonces(now[c])
  BY DEF TypeInv, TypeOK, Duplicate
<1>2. /\ DOMAIN nonces' \subseteq DOMAIN nonces
      /\ \A m \in DOMAIN nonces' : nonces'[m] = nonces[m]
  BY <1>1, YoungOnes DEF TypeInv
<1>3. \A m \in DOMAIN nonces \ DOMAIN nonces' : m \in far_ahead \/ LongGone(m)
  BY <1>1, CleanedUp DEF Duplicate
<1>4. UNCHANGED <<clock, sent, timestamp, taken, evicted, far_ahead>>
  BY DEF Duplicate, client
<1>5. NoncesInTime'
  BY <1>2, <1>4 DEF OnceInv, NoncesInTime, Soon
<1>6. Remembered' /\ TakenOnce'
  BY <1>3, <1>4 DEF OnceInv, Remembered, TakenOnce, LongGone
<1> QED BY <1>5, <1>6

LEMMA RememberOnce ==
  ASSUME TypeInv, OnceInv, NEW c \in Connections, stage[c] = "stamped",
         hand[c] \notin DOMAIN YoungNonces(now[c]), Remember(hand[c], now[c]),
         UNCHANGED <<clock, sent, timestamp>>,
         \A m \in Messages : m # hand[c] => taken'[m] = taken[m],
         taken'[hand[c]] <= taken[hand[c]] + 1
  PROVE  NoncesInTime' /\ Remembered' /\ TakenOnce'
<1> DEFINE h == hand[c]
           s == now[c]
           n == YoungNonces(s)
           e == YoungOrder(s)
           K == EvictedStamps(n, e)
<1>1. h \in Messages /\ s \in Nat /\ s \in Int /\ h \in sent /\ taken[h] \in Nat
  BY DEF Working, TypeInv, TypeOK, InHand, OnceInv, WorkInTime
<1>2. /\ DOMAIN nonces' = (DOMAIN n \ Named(e, K)) \cup {h}
      /\ nonces'[h] = s
      /\ \A x \in DOMAIN nonces' : x # h => nonces'[x] = nonces[x]
      /\ evicted' = evicted \cup Named(e, K)
  <2>1. TypeOK /\ Remember(h, s)
    BY DEF TypeInv
  <2> HIDE DEF h, s
  <2> QED BY <1>1, <2>1, Remembering, Zenon
<1>3. DOMAIN n \subseteq DOMAIN nonces
  BY <1>1, YoungOnes DEF TypeInv
<1>4. \A m \in DOMAIN nonces \ DOMAIN n : m \in far_ahead \/ LongGone(m)
  BY CleanedUp
<1>5. h \notin evicted \cup far_ahead => taken[h] = 0
  BY StillKnown
<1>6. /\ far_ahead \subseteq far_ahead'
      /\ h \in far_ahead' \/ timestamp[h] - s < Lead
  <2>1. far_ahead' = IF timestamp[h] - s >= Lead THEN far_ahead \cup {h} ELSE far_ahead
    BY DEF Remember
  <2>2. timestamp[h] \in Int /\ Lead \in Int
    BY <1>1, Constants DEF Lead, TypeInv, TypeOK
  <2> QED BY <2>1, <2>2, <1>1
<1> HIDE DEF n, e, K
<1>7. NoncesInTime'
  BY <1>1, <1>2, <1>3, <1>6 DEF OnceInv, NoncesInTime, Soon
<1>8. ASSUME NEW m \in Messages, m \notin evicted' \cup far_ahead'
      PROVE  /\ taken'[m] <= 1
             /\ taken'[m] > 0 => m \in sent' /\ (m \in DOMAIN nonces' \/ LongGone(m)')
  <2>1. CASE m = h
    BY <2>1, <1>1, <1>2, <1>5, <1>6, <1>8
  <2>2. CASE m # h
    <3>1. /\ taken'[m] = taken[m] /\ m \notin evicted \cup far_ahead
          /\ m \notin Named(e, K)
      BY <2>2, <1>2, <1>6, <1>8
    <3>2. /\ taken[m] <= 1
          /\ taken[m] > 0 => m \in sent /\ (m \in DOMAIN nonces \/ LongGone(m))
      BY <3>1 DEF OnceInv, Remembered, TakenOnce
    <3>3. LongGone(m) <=> LongGone(m)'
      BY DEF LongGone
    <3> QED BY <3>1, <3>2, <3>3, <1>2, <1>4
  <2> QED BY <2>1, <2>2
<1> QED BY <1>7, <1>8 DEF Remembered, TakenOnce

LEMMA OnceStep == TypeInv /\ OnceInv /\ [Next]_vars => OnceInv'
<1> SUFFICES ASSUME TypeInv, OnceInv, [Next]_vars PROVE OnceInv'
  OBVIOUS
<1>t. /\ clock \in Nat /\ timestamp \in [Messages -> Int] /\ sent \subseteq Messages
      /\ stage \in [Connections -> Stages] /\ hand \in [Connections -> Messages \cup {Nothing}]
      /\ since \in [Connections -> Nat] /\ now \in [Connections -> Nat]
      /\ DOMAIN nonces \subseteq Messages
  BY DEF TypeInv, TypeOK
<1>i. NoncesInTime /\ WorkInTime /\ Remembered /\ TakenOnce
  BY DEF OnceInv
<1>1. CASE UNCHANGED vars
  BY <1>1 DEF vars, client, task, cache, OnceInv, NoncesInTime, Soon, WorkInTime, Working,
              Remembered, LongGone, TakenOnce
<1>2. CASE Tick
  <2>1. clock' = clock + 1 /\ UNCHANGED <<client, task, cache>>
    BY <1>2 DEF Tick
  <2>2. NoncesInTime'
    BY <2>1, <1>i DEF NoncesInTime, Soon, client, cache
  <2>3. WorkInTime'
    <3> SUFFICES ASSUME NEW c \in Connections, Working(c)
                 PROVE  /\ since[c] <= clock + 1 /\ clock + 1 <= since[c] + MaxWait
                        /\ stage[c] = "stamped" => since[c] <= now[c] /\ now[c] <= clock + 1
      BY <2>1, <1>i DEF WorkInTime, Working, client, task
    <3>1. clock < since[c] + MaxWait
      BY <1>2 DEF Tick, Working
    <3> QED BY <3>1, <1>i, <1>t, Constants DEF WorkInTime
  <2>4. \A m \in Messages : LongGone(m) => LongGone(m)'
    BY <2>1, <1>t, Constants DEF LongGone, client
  <2>5. Remembered' /\ TakenOnce'
    BY <2>1, <2>4, <1>i DEF Remembered, TakenOnce, client, cache
  <2> QED BY <2>2, <2>3, <2>5 DEF OnceInv
<1>3. ASSUME NEW m \in Messages, Create(m) PROVE OnceInv'
  <2>1. /\ m \notin sent /\ sent' = sent \cup {m}
        /\ UNCHANGED <<clock, task, cache>>
    BY <1>3 DEF Create
  <2>2. \A x \in sent : timestamp'[x] = timestamp[x]
    BY <1>3, <2>1, <1>t DEF Create
  <2>3. NoncesInTime'
    BY <2>1, <2>2, <1>i DEF NoncesInTime, Soon, cache
  <2>4. WorkInTime'
    BY <2>1, <2>2, <1>i DEF WorkInTime, Working, task
  <2>5. Remembered' /\ TakenOnce'
    BY <2>1, <2>2, <1>i DEF Remembered, TakenOnce, LongGone, cache
  <2> QED BY <2>3, <2>4, <2>5 DEF OnceInv
<1>4. ASSUME NEW c \in Connections,
             \/ \E m \in Messages : Receive(c, m)
             \/ ReceiveOther(c) \/ RateLimited(c) \/ Stamp(c)
             \/ Duplicate(c) \/ Take(c) \/ BadlySigned(c)
      PROVE  OnceInv'
  <2>1. UNCHANGED <<clock, sent, timestamp>>
    BY <1>4 DEF Receive, ReceiveOther, RateLimited, Stamp, Duplicate, Take, BadlySigned, client
  <2>2. WorkInTime'
    <3> SUFFICES ASSUME \A d \in Connections : d # c =>
                          /\ stage'[d] = stage[d] /\ hand'[d] = hand[d]
                          /\ since'[d] = since[d] /\ now'[d] = now[d],
                        Working(c)'
                 PROVE  /\ hand'[c] \in sent
                        /\ since'[c] - timestamp[hand'[c]] <= Window
                        /\ since'[c] <= clock /\ clock <= since'[c] + MaxWait
                        /\ stage'[c] = "stamped" => since'[c] <= now'[c] /\ now'[c] <= clock
      <4>1. \A d \in Connections : d # c =>
              /\ stage'[d] = stage[d] /\ hand'[d] = hand[d]
              /\ since'[d] = since[d] /\ now'[d] = now[d]
        BY <1>4, <1>t DEF Receive, ReceiveOther, RateLimited, Stamp, Duplicate, Take,
                          BadlySigned, Close, LetGo
      <4> QED BY <4>1, <2>1, <1>i DEF WorkInTime, Working
    <3>1. CASE Close(c) \/ Take(c)
      BY <3>1, <1>t DEF Close, Take, Working
    <3>2. ASSUME NEW m \in Messages, Receive(c, m), ~Close(c)
          PROVE  /\ hand'[c] \in sent
                 /\ since'[c] - timestamp[hand'[c]] <= Window
                 /\ since'[c] <= clock /\ clock <= since'[c] + MaxWait
                 /\ stage'[c] # "stamped"
      <4>1. m \in sent /\ hand'[c] = m /\ since'[c] = clock /\ stage'[c] = "fresh" /\ Fresh(m)
        BY <3>2, <1>t DEF Receive
      <4>2. clock - timestamp[m] <= Window /\ clock <= clock + MaxWait
        BY <4>1, <1>t, Constants DEF Fresh
      <4> QED BY <4>1, <4>2, <1>t
    <3>3. CASE Stamp(c)
      <4>1. Working(c) /\ hand' = hand /\ since' = since /\ now'[c] = clock
        BY <3>3, <1>t DEF Stamp, Working
      <4> QED BY <4>1, <1>i, <1>t DEF WorkInTime
    <3> QED BY <3>1, <3>2, <3>3, <1>4 DEF ReceiveOther, RateLimited, Duplicate, BadlySigned
  <2>3. NoncesInTime' /\ Remembered' /\ TakenOnce'
    <3>1. CASE UNCHANGED cache
      BY <3>1, <2>1, <1>i DEF cache, NoncesInTime, Soon, Remembered, LongGone, TakenOnce
    <3>2. CASE Duplicate(c)
      BY <3>2, DuplicateOnce
    <3>3. CASE Take(c) \/ BadlySigned(c)
      <4>1. /\ stage[c] = "stamped" /\ hand[c] \notin DOMAIN YoungNonces(now[c])
            /\ Remember(hand[c], now[c])
        BY <3>3 DEF Take, BadlySigned
      <4>2. taken \in [Messages -> Nat] /\ hand[c] \in Messages
        BY <4>1 DEF TypeInv, TypeOK, InHand
      <4>3. /\ \A m \in Messages : m # hand[c] => taken'[m] = taken[m]
            /\ taken'[hand[c]] <= taken[hand[c]] + 1
        BY <3>3, <4>2 DEF Take, BadlySigned
      <4> QED BY <4>1, <4>3, <2>1, RememberOnce
    <3> QED BY <3>1, <3>2, <3>3, <1>4 DEF Receive, ReceiveOther, RateLimited, Stamp
  <2> QED BY <2>2, <2>3 DEF OnceInv
<1> QED BY <1>1, <1>2, <1>3, <1>4 DEF Next

\* A message is taken at most once, whatever clients' clocks say, unless its nonce was
\* evicted for want of room or its timestamp was ahead of the nonce by what the expiry
\* leaves over the window and the way to the lock.
THEOREM MessagesTakenOnce == Spec => []TakenOnce
<1>1. Init => OnceInv
  BY DEF Init, OnceInv, NoncesInTime, WorkInTime, Working, Remembered, TakenOnce
<1>2. OnceInv => TakenOnce
  BY DEF OnceInv
<1> QED BY <1>1, <1>2, TypeInit, TypeStep, OnceStep, PTL DEF Spec
=============================================================================
