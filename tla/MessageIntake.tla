--------------------------- MODULE MessageIntake ---------------------------
(***************************************************************************)
(* What a text goes through before a handler sees it: the read loop of     *)
(* handle_connection and the token bucket of poker_server/src/main.rs,     *)
(* SignedMessage and NonceCache of poker_protocol/src/lib.rs.              *)
(*                                                                         *)
(* Each connection has a read task and a bucket that only it uses; the     *)
(* nonce cache is shared by all.  `verify` reads the wall clock,           *)
(* `is_duplicate` reads the monotonic clock and only then takes the lock,  *)
(* so that the three are steps of their own and stamps may be stored out   *)
(* of order.  Both clocks are `clock` here: it goes on by itself and is    *)
(* never set back.  A message stands for its nonce.                        *)
(***************************************************************************)
EXTENDS Integers, FiniteSets, Functions, FiniteSetsExt

CONSTANTS
  Connections,       \* each with a read task of its own
  Messages,          \* signed messages, every one with a nonce of its own
  Genuine,           \* those signed with this server's key and well formed
  Nothing,           \* what a task holds that holds no message
  MaxTokens,         \* max_tokens of RateLimiter
  RefillRate,        \* refill_rate of RateLimiter
  Second,            \* ticks of the clock in a second
  Window,            \* MESSAGE_TIMESTAMP_MAX_DIFF_MS
  Expiry,            \* NONCE_EXPIRY_MS
  CacheSize,         \* NONCE_CACHE_SIZE
  Skews,             \* how far clients' clocks are ahead (or, negative, behind)
  MaxWait,           \* how long a task may take from verify's clock to the lock
  MaxClock           \* bound: when the model ends

ASSUME IntakeAssumption ==
  /\ IsFiniteSet(Messages)
  /\ Genuine \subseteq Messages
  /\ Nothing \notin Messages
  /\ {MaxTokens, RefillRate, Window, MaxWait, MaxClock} \subseteq Nat
  /\ Skews \subseteq Int
  /\ {Second, Expiry, CacheSize} \subseteq Nat \ {0}

VARIABLES
  clock,
  sent,              \* messages clients have made
  timestamp,         \* of each message, from its client's clock
  stage,             \* where each read task is
  hand,              \* the message it verifies
  since,             \* wall clock verify has read
  now,               \* stamp is_duplicate has taken before the lock
  tokens,            \* of each bucket
  last_update_ms,
  nonces,            \* the cache: nonce to stamp ...
  expiry_order,      \* ... and stamp to nonce, one for each stamp
  granted,           \* history: how often a bucket said yes
  taken,             \* history: how often a message reached its handler
  evicted,           \* history: messages whose nonce fell to CacheSize
  far_ahead          \* history: messages stamped Lead or more after their nonce

client == <<sent, timestamp>>
task == <<stage, hand, since, now>>
bucket == <<tokens, last_update_ms, granted>>
cache == <<nonces, expiry_order, taken, evicted, far_ahead>>
vars == <<clock, client, task, bucket, cache>>

Stages == {"reading", "fresh", "stamped", "closed"}

Init ==
  /\ clock = 0
  /\ sent = {} /\ timestamp = [m \in Messages |-> 0]
  /\ stage = [c \in Connections |-> "reading"]
  /\ hand = [c \in Connections |-> Nothing]
  /\ since = [c \in Connections |-> 0]
  /\ now = [c \in Connections |-> 0]
  /\ tokens = [c \in Connections |-> MaxTokens]
  /\ last_update_ms = [c \in Connections |-> 0]
  /\ nonces = << >> /\ expiry_order = << >>
  /\ granted = [c \in Connections |-> 0]
  /\ taken = [m \in Messages |-> 0]
  /\ evicted = {} /\ far_ahead = {}

\* Time goes on, but leaves no task between verify's clock and the lock for long.
Tick ==
  /\ clock < MaxClock
  /\ \A c \in Connections : stage[c] \in {"fresh", "stamped"} => clock < since[c] + MaxWait
  /\ clock' = clock + 1
  /\ UNCHANGED <<client, task, bucket, cache>>

\* SignedMessage::create.  By how much a client's clock is ahead is up to Skews.
Create(m) ==
  /\ m \notin sent
  /\ sent' = sent \cup {m}
  /\ \E skew \in Skews : timestamp' = [timestamp EXCEPT ![m] = clock + skew]
  /\ UNCHANGED <<clock, task, bucket, cache>>

-----------------------------------------------------------------------------
(* The token bucket.  One task calls it, so its loop succeeds at once.     *)

Refill(c) == RefillRate * ((clock - last_update_ms[c]) \div Second)

\* Mutant: what was not used in time is kept, beyond max_tokens.
AvailableUncapped(c) == tokens[c] + Refill(c)

\* available_tokens
Available(c) == Min({MaxTokens, tokens[c] + Refill(c)})

\* Mutant: the refill is not written down and counts again with the next message.
SpendForgetsRefill(c) ==
  /\ tokens' = [tokens EXCEPT ![c] = Available(c) - 1]
  /\ granted' = [granted EXCEPT ![c] = @ + 1]
  /\ UNCHANGED last_update_ms

\* allow returns true
Spend(c) ==
  /\ tokens' = [tokens EXCEPT ![c] = Available(c) - 1]
  /\ last_update_ms' = [last_update_ms EXCEPT ![c] = IF Refill(c) > 0 THEN clock ELSE @]
  /\ granted' = [granted EXCEPT ![c] = @ + 1]

-----------------------------------------------------------------------------
(* NonceCache                                                              *)

Young(t, s) == s - t < Expiry

\* Mutant: the order is not cleaned up with the nonces.
StaleOrder(s) == expiry_order

\* retain, on both maps, by the stamp s
YoungNonces(s) == Restrict(nonces, {m \in DOMAIN nonces : Young(nonces[m], s)})
YoungOrder(s) == Restrict(expiry_order, {t \in DOMAIN expiry_order : Young(t, s)})

Named(e, K) == {e[t] : t \in K}

\* Mutant: one nonce too many fits.
EvictedLate(n, e) ==
  {t \in DOMAIN e :
     Cardinality(DOMAIN n \ Named(e, {u \in DOMAIN e : u < t})) > CacheSize}

\* The loop takes the oldest stamp left as long as the cache is full: a stamp goes if
\* taking all before it left the cache full.
EvictedStamps(n, e) ==
  {t \in DOMAIN e :
     Cardinality(DOMAIN n \ Named(e, {u \in DOMAIN e : u < t})) >= CacheSize}

\* Of the time a nonce is kept for, the window and the way to the lock leave this to the
\* clocks: a message that is stamped so much later than its nonce stays fresh for longer
\* than the nonce is kept.
Lead == Expiry - Window - MaxWait

Put(f, x, y) == [z \in DOMAIN f \cup {x} |-> IF z = x THEN y ELSE f[z]]

\* What is_duplicate does with a nonce it does not hold.
Remember(m, s) ==
  LET n == YoungNonces(s)
      e == YoungOrder(s)
      K == EvictedStamps(n, e)
  IN  /\ nonces' = Put(Restrict(n, DOMAIN n \ Named(e, K)), m, s)
      /\ expiry_order' = Put(Restrict(e, DOMAIN e \ K), s, m)
      /\ evicted' = evicted \cup Named(e, K)
      /\ far_ahead' = IF timestamp[m] - s >= Lead THEN far_ahead \cup {m} ELSE far_ahead

-----------------------------------------------------------------------------
(* The read loop.                                                          *)

\* Mutant: any message is taken for fresh.
FreshAlways(m) == TRUE

\* Saturating: a stamp from the future is fresh, however far it is ahead.
Fresh(m) == clock - timestamp[m] <= Window

\* verify has returned; its variables are gone.
LetGo(c) ==
  /\ hand' = [hand EXCEPT ![c] = Nothing]
  /\ since' = [since EXCEPT ![c] = 0]
  /\ now' = [now EXCEPT ![c] = 0]

Close(c) ==
  /\ stage' = [stage EXCEPT ![c] = "closed"]
  /\ LetGo(c)

\* A signed text arrives, the first time or again, and is allowed; verify looks at its
\* time.
Receive(c, m) ==
  /\ stage[c] = "reading" /\ m \in sent
  /\ Available(c) > 0
  /\ Spend(c)
  /\ IF Fresh(m)
     THEN /\ stage' = [stage EXCEPT ![c] = "fresh"]
          /\ hand' = [hand EXCEPT ![c] = m]
          /\ since' = [since EXCEPT ![c] = clock]
          /\ UNCHANGED now
     ELSE Close(c)
  /\ UNCHANGED <<clock, client, cache>>

\* A text that is too large or is not a signed message.
ReceiveOther(c) ==
  /\ stage[c] = "reading"
  /\ Available(c) > 0
  /\ Spend(c)
  /\ Close(c)
  /\ UNCHANGED <<clock, client, cache>>

\* A text that the rate limiter refuses.
RateLimited(c) ==
  /\ stage[c] = "reading" /\ sent # {}
  /\ Available(c) = 0
  /\ Close(c)
  /\ UNCHANGED <<clock, client, bucket, cache>>

\* The first line of is_duplicate.
Stamp(c) ==
  /\ stage[c] = "fresh"
  /\ stage' = [stage EXCEPT ![c] = "stamped"]
  /\ now' = [now EXCEPT ![c] = clock]
  /\ UNCHANGED <<clock, client, hand, since, bucket, cache>>

\* is_duplicate under the lock says yes.
Duplicate(c) ==
  /\ stage[c] = "stamped" /\ hand[c] \in DOMAIN YoungNonces(now[c])
  /\ nonces' = YoungNonces(now[c])
  /\ expiry_order' = YoungOrder(now[c])
  /\ Close(c)
  /\ UNCHANGED <<clock, client, bucket, taken, evicted, far_ahead>>

\* It says no; the signature, which is looked at next, is good.
Take(c) ==
  /\ stage[c] = "stamped" /\ hand[c] \notin DOMAIN YoungNonces(now[c])
  /\ Remember(hand[c], now[c])
  /\ hand[c] \in Genuine
  /\ taken' = [taken EXCEPT ![hand[c]] = @ + 1]
  /\ stage' = [stage EXCEPT ![c] = "reading"]
  /\ LetGo(c)
  /\ UNCHANGED <<clock, client, bucket>>

\* It says no, but the signature or the text under it is bad: the nonce is used up.
BadlySigned(c) ==
  /\ stage[c] = "stamped" /\ hand[c] \notin DOMAIN YoungNonces(now[c])
  /\ Remember(hand[c], now[c])
  /\ hand[c] \notin Genuine
  /\ Close(c)
  /\ UNCHANGED <<clock, client, bucket, taken>>

Next ==
  \/ Tick
  \/ \E m \in Messages : Create(m)
  \/ \E c \in Connections :
       \/ \E m \in Messages : Receive(c, m)
       \/ ReceiveOther(c)
       \/ RateLimited(c)
       \/ Stamp(c)
       \/ Duplicate(c)
       \/ Take(c)
       \/ BadlySigned(c)

Spec == Init /\ [][Next]_vars

-----------------------------------------------------------------------------
(* Properties.                                                             *)

TypeOK ==
  /\ clock \in Nat
  /\ sent \subseteq Messages
  /\ timestamp \in [Messages -> Int]
  /\ stage \in [Connections -> Stages]
  /\ hand \in [Connections -> Messages \cup {Nothing}]
  /\ since \in [Connections -> Nat]
  /\ now \in [Connections -> Nat]
  /\ tokens \in [Connections -> 0..MaxTokens]
  /\ last_update_ms \in [Connections -> Nat]
  /\ DOMAIN nonces \subseteq Messages /\ nonces \in [DOMAIN nonces -> Nat]
  /\ DOMAIN expiry_order \subseteq Nat /\ expiry_order \in [DOMAIN expiry_order -> Messages]
  /\ granted \in [Connections -> Nat]
  /\ taken \in [Messages -> Nat]
  /\ evicted \subseteq Messages /\ far_ahead \subseteq Messages

\* A message reaches its handler once, however often it arrives, on however many
\* connections, and in whatever order the tasks get the lock of the nonce cache; with two
\* exceptions.  The cache may have had to give its nonce up for want of room.  And a client's
\* clock may be so far ahead, 30 seconds less the way to the lock, that the message is
\* still fresh when its nonce expires: verify takes any stamp of the future.
TakenOnce == \A m \in Messages \ (evicted \cup far_ahead) : taken[m] <= 1

\* The two maps of the nonce cache agree, though one holds a nonce for each stamp and
\* the other all of them: every entry of expiry_order names a nonce that is held, with
\* that stamp, so that evicting it makes room.
OrderNamesNonces ==
  \A t \in DOMAIN expiry_order :
    expiry_order[t] \in DOMAIN nonces /\ nonces[expiry_order[t]] = t

\* Nonces that lost their entry in expiry_order to another with the same stamp.
Orphans == DOMAIN nonces \ Named(expiry_order, DOMAIN expiry_order)

\* The cache never holds more than NONCE_CACHE_SIZE nonces: the eviction loop never
\* runs out of entries (its `break`), since the nonces it cannot see leave room.
NeverOverfull ==
  /\ Cardinality(DOMAIN nonces) <= CacheSize
  /\ Cardinality(Orphans) < CacheSize

\* A connection gets no more than its bucket's size and the refill of the whole
\* seconds that have gone by, though every message may bring a refill and the
\* fractions of a second are dropped at different times.
RateKept ==
  \A c \in Connections : granted[c] + tokens[c] <= MaxTokens + RefillRate * (clock \div Second)
=============================================================================
