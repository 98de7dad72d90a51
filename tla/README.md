# poker-rs in TLA+

A verification project for poker-rs, a Texas Hold'em server (`poker_server`), its
wire protocol (`poker_protocol`) and a desktop client (`poker_client`), all in Rust.
The modules here are translated from the sources; `PROJECT.json` says which lines
every definition stands for.

## The system

One server process holds one `PokerServer` behind a mutex, and in it one table,
`main_table`, a `PokerGame` behind a mutex of its own. Locks are taken in the order
server, then game. Every connection is a tokio task.

| part | state | operations | interacts with |
|---|---|---|---|
| Poker table (`game.rs`) | players with chips, bets and flags, board, deck, pot, street, turn, dealer, `min_raise`, stage | `add_player`, `sit_out`, `return_to_game`, `handle_action` (fold, check, call, bet, raise, all-in) | called by the server under both locks; publishes messages on a broadcast channel |
| Hand evaluation (`game.rs`, `types.rs`) | none | `evaluate_hand`, the `check_*` functions, the order of `HandEvaluation`, the winners of `showdown` | called by the table's showdown |
| Connections, sessions and seats (`server.rs`, `main.rs`) | connection counts in total and per address, registered players with sender and `connected` flag, sessions, seats, the shutdown flag | accept loop, admission, handshake, `handle_message`, `disconnect_player`, clean-up, shutdown | calls the table; answers through `send_to_player` |
| Inactivity task (`main.rs`) | none of its own | counts players that are in, sets the stage to waiting | the game's mutex, twice per round |
| Broadcast pipeline (`main.rs`, `server.rs`) | a channel of 100 messages, two semaphores, one spawned task per message and player | `broadcast_task`, `broadcast_to_game`, `send_to_player` | table, server, each connection's write task |
| Rate limiters (`main.rs`) | two token buckets per connection | `allow` | read loop, message handler |
| Signed messages and nonces (`lib.rs`) | the nonce cache | `SignedMessage::verify`, `is_duplicate` | read loop |
| Message formats (`lib.rs`, `network.rs`) | none | serialising and parsing | everything that sends |
| Client networking (`poker_client/src/main.rs`) | retry counters, the network task and the tasks of each session, the channels to and from the interface | connect with retries, read, write, forward, ping, reconnect | server, client view |
| Client view (`poker_client/src/game.rs`) | what the player sees | `apply_update` and its like | client networking |
| Configuration (`main.rs`) | none that changes | reading the environment at the start | everything |

What is hard here: one call of `handle_action` may validate, move chips, close a
betting round, open a street, pay side pots, end the hand, rotate the dealer and deal
the next hand; the order of the players is a hash map's; actors sit out and return
at any moment; the inactivity task acts between two locks; connections end at every
point of their life; a mutex that is not reentrant is locked from handlers that hold
it; a nonce is stamped before the lock under which it is stored; on the client, tasks of
old sessions live on while a new one connects. `PROJECT.json` lists these as hazards, each at its line.

What makes each part correct: chips never come from nowhere and are paid only at
showdowns out of what was collected; board, street and flags belong to the hand that
is being played; hands keep ending; the evaluation is the best hand; the counts equal
the connections and keep to their limits; a session has a sender and a seat; an ended
connection is cleaned up and the process ends when it is told to; a message is taken once
and no more often than the rate allows; what is published is shown; the client reads one
session, shows its true state and finds a new one when it breaks.

## The modules

**PokerGame** is the table. The struct is the record `table`; `&mut self` methods are
operators from table to table (`StartHand`, `EndHand`, `NextStreet`, `Showdown`,
`AdvanceAction`), public methods are actions (`AddPlayer`, `SitOut`, `ReturnToGame`,
`Fold`, `Check`, `Call`, `Bet`, `Raise`, `AllIn`). An action is the whole method under the
mutex: `handle_action` is its guard, the chips it moves and `Advance`, which is
everything that follows from it. The inactivity task has two actions because it
takes the lock twice. Abstracted:

- cards are counted; who wins a showdown is any ranking of the unfolded players
  (`Verdicts`), a superset of what the evaluation can return, in any order of ties;
- the map's iteration order is any permutation, drawn anew at each insertion;
- a refused request changes nothing and is a stuttering step;
- `hand_number`, `side_pots`, `game_id` and messages are left out: nothing reads them;
- integers are unbounded: `MaxPot` is checked before the pot grows, and the default
  stakes (buy-in 1000, ten players) stay far below 2^31. Amounts up to all the chips
  of the table are tried; larger ones are refused by the guards. They are signed: the
  amount of a call may be negative (`CallAmount`).
- a player joins once: identifiers are fresh UUIDs, one per connection.

**ChipMath** holds the two recursive functions the table is built from, an order
preserving filter and a sum, written as functions over an index so that they can be
proved about.

**ChipBank** is the abstract account a table must be: a buy-in is the only source of
chips, and otherwise what is held and staked never grows. PokerGame implements it
under a refinement mapping: purses are the players' chips, the escrow is the pot, and
after a showdown the escrow counts as paid. It says "never grows" and not "stays
equal" because the code does lose chips (see the findings). The refinement, and
`PaidOnlyAtShowdown`, hold of every step taken while the turn is with a player who has
not folded (`TurnIsInHand`); of the other steps the finding `FoldIsFinal` tells.

**HandEvaluation** has the evaluation, translated function by function, beside the
rules of poker written once as "the best of all five-card hands". Ranks are 2 to 14. A
function that loops over a hash map returns the set of everything it may return.
The state machine deals a showdown card by card, so that TLC walks through the hands.

**PokerServer** has the life of a connection (`phase`) from `accept()` to the end of
`handle_connection`, the server's maps, and the main task (`main`) with the shutdown flag.
A step is what a task does from `lock()` to the end of the guard: a new task looks at the
flag (`Start`, `TurnAway`), and admission takes the lock twice and is two steps, `Admit` and
`Register`. The one place where a task holds the lock
across steps is `Refused`: `send_error` locks again what its caller has locked, so the task
stays in "stuck" with the lock. The table is only its seats here, and whether it accepts an
action is left open. Connections are created once (a connection id is a fresh UUID). When
main returns, the runtime drops tasks that await something and waits for a thread that is
blocked on a mutex; `Exit` says so.

**MessageIntake** is what a text goes through before a handler sees it: the token bucket,
then `SignedMessage::verify` with the nonce cache. `verify` reads the wall clock,
`is_duplicate` reads the monotonic one and only then takes the lock, so `Receive`, `Stamp`
and `Take` (or `Duplicate`, `BadlySigned`) are steps of their own and tasks overtake each
other between them. A message stands for its nonce and is genuine or not. Time is counted
in ticks; both clocks are one, which is never set back, and `MaxWait` bounds how long a task
may take from one clock to the lock. Clients' clocks differ from it by any of `Skews`, on which
there is no bound: `verify` accepts whatever is stamped in the future. `Lead` is how far ahead a
stamp must be to be still fresh when the nonce has expired, and `far_ahead` remembers the
messages that were. The eviction loop is written by what it takes: the
stamps in front of which the cache is still full.

**BroadcastPipeline** follows a message from where it is published to the socket: the
channel with its capacity (a pump that falls behind stops for good), `broadcast_task`,
which takes a message and then the server's lock, one send task per message and player
with its permit and timeout, the players' queues and write tasks. Messages to one
player go around the channel (`Join`, `Leave`). A send task is the record of its message
and player, a permit its membership in `permitted`; the semaphores of the two kinds are
counted over that. Clients join, leave, break and stop reading when they like.

**ClientNetwork** is the client: the network task (`stage`), which dials with the shared
`ReconnectState`, greets and then waits for ever for the tasks it spawned; each session's
read task; the channels; and `handle_network_messages` with `trigger_reconnection`, which
aborts the network task and nothing that it has spawned. The task of `setup_network` and
those of `trigger_reconnection` differ in four places (what they report when giving up,
whether too large a message is reported, who forwards input, who pings), which `first` and
session number 1 tell apart. At the other end is an abstract server that breaks the
connection when it likes and sends, in any order (`Sent`), the session's id and the coming and
going of players: others, and this one's earlier and later selves. Every message of the server
is put into the queue by a task of its own, so the id need not come first, and the client may
take another's leaving for its own; `mistaken` remembers the sessions that it then left. That
the server says each thing once is left out. Pings and the rest of the game view are left out.

**MC_PokerGame**, **MC_HandEvaluation**, **MC_PokerServer**, **MC_MessageIntake** and
**MC_BroadcastPipeline** bound the modules for TLC: constraints and a view for the table,
a deck and a view for the evaluation, addresses up to renaming for the server, symmetry for the intake,
a steady client and few sends at a time for the pipeline. ClientNetwork needs nothing more
than the values of its .cfg file.

**ChipMathProofs**, **PokerGameProofs**, **PayoutProofs**, **PokerServerProofs**,
**MessageIntakeProofs**, **BroadcastPipelineProofs**, **ClientNetworkProofs** and
**EvaluationProofs** hold the proofs.

## The runs

| run | question | size |
|---|---|---|
| `three_handed` | do min_raise, pot and payouts stay right over many hands of three? | 287 thousand states |
| `heads_up` | do board, flags and turn belong to the hand, and do hands keep ending, with players sitting out and returning? | 261 thousand |
| `hands` | is the evaluation the best five cards? | 16 thousand hands |
| `server` | do counts (but for failed handshakes), limits, sessions and seats agree in every order of events, is every ended connection cleaned up, and does the process end? | 281 thousand |
| `intake` | is every message taken once (evicted nonces and stamps far in the future excepted) and at the right rate, and does the nonce cache keep its shape and size? | 4.4 million |
| `pipeline` | is nothing sent twice, do broadcasts end, and does a client get what was published whatever the others do? | 148 thousand |
| `client` | is one session read, the right state shown and the player's input sent under its own id until another's leaving is taken for its own, and is a broken session followed by another? | 572 thousand |
| `rounds_afresh`, `all_in_showdown`, `folded_calls`, `connection_leak`, `server_stuck` | what the documentation says and the code does not do | a counterexample each |

Bounds. Three players are the fewest with side pots of different contestants, a folded
third party, and a first player to act who is not a blind; stacks of 4 with blinds 1 and
2 give short blinds, short calls, all-ins of every depth, minimum raises and, after a
few hands, unequal stacks and busts. `MaxBetPerHand = 6` is reached by a raise over a
raise; `MaxPot = 100` is never reached and is there for the proofs, which hold for every
value. The `NobodySitsOut` constraint of `three_handed` leaves sitting out to
`heads_up`, where every interleaving of it is explored. `NoMoreThanBoughtIn` does not
follow up states with more chips on the table than were bought in: only a negative call
leads there (the steps into them are checked), and without the bound chips could grow
for ever. The view `ByPosition` merges states that differ by a renaming of the players,
which no property tells apart. An address allows one connection and the server two of three, so that each
limit is reached alone and together, and two admissions race for the last place; the
connections come from addresses of their own or two of them from the same; two seats are
filled and then refused. For `connection_leak` two connections and a limit of one are enough. The cache of `intake` holds two nonces of three messages, so that
it overflows and entries with the same stamp hide each other; two connections race for it; the
clock runs long enough for nonces to expire and for the bucket to refill after dropping a
fraction of a second. One client's clock is ahead by just less than a nonce can make up for
and the other by just too much, so that `far_ahead` matters and is not the rule. The deck of `hands` has seven ranks in a row in one suit, three and
four of a kind and two cards apart: every category occurs, nothing at all included,
straights of six and seven ranks, flushes of six
and seven cards, and hands with two full houses. Its view `CardsOnly` merges states that
differ by which cards of the one player are on the board, which no property tells apart. The pipeline has two clients, a channel
and queues of one message, one permit of each kind, two published messages and at most
three sends under way, so that the channel overflows, a queue is full, a permit is short
and two sends to one client race. One client is steady: it stays and reads, which the
constraint says and which is what the liveness properties are about; the other does
everything. Two sessions of the client are the first, which is special, and one after a
reconnection, which meets the id of the one before; three attempts let the delay reach its maximum, and
an inbox of two lets messages of two sessions, or of one in the wrong order, wait together. The
proofs of the safety properties hold for any number of sessions.

Deadlock is checked for the table, where nothing may ever stop. It is off for `hands`,
whose deal ends, for `server`, whose process ends, for `intake`, whose clock does, for
`pipeline`, whose messages run out, and for `client`, which may give up for good.

Fairness. `HandsEnd` assumes that players act again and again as long as a check or a
call of the one who has the turn would change the table (`FairSpec` spells this out;
`CanAnswer` is the ENABLED condition of those two). Nobody is assumed to fold or to bet,
so a hand that only a fold could end would violate it. That is a statement about the
players: the server has no turn timer. The inactivity task is assumed to go on once it
has counted; nothing is assumed of joining or returning. `ClosingEnds` and `ShutdownEnds` assume
weak fairness of the clean-up of each connection, of the accept loop's look at the flag and
of the end of main, whose waits have deadlines: tokio runs a task that can go on, and
a guard is given back within the step that took it. Handshakes and clients may be silent
for ever, and `accept()` may never return. In BroadcastPipeline the runtime never rests while the pump, a write task or a
send task can go on, and timers fire; with the bounded number of messages that gives
every task its turn, and nothing is assumed of who publishes, leaves, breaks or stalls. `Recovers` assumes that
the network task goes on (every wait of it has a limit: the dial a timeout, the sleep a
delay), that a read task sees its connection end, and that the interface draws frames;
whether a dial succeeds is open. MessageIntake has safety properties only.

What the properties do not say. `HandsEnd` is about tables nobody blocks: `Blocks`
names the players that have not acted, are not all in and are never given the turn,
because they sit out or had their last chips taken by a blind. Such a player stops the
hand for good in this code. `EvaluationIsBest` excepts three kinds of hands the
evaluation need not see through and names them; `NeverOverrated` shows that it errs
downwards there. The first of them is wider than the flaw: every hand with six cards of a suit
(`SixSuited`) is excepted, though only a straight flush among them can be missed. `PublishedIsShown` excepts a pump that fell behind and a send that timed
out: messages are lost there, and nowhere else. `ClosingEnds` excepts a lock that is kept
for ever, and `ShutdownEnds` that and an `accept()` that does not return: the flag is looked at between
two of them, so shutdown waits for one more client. `LimitsGiveWayToRaces` lets the limits be
passed, by as many as were admitted while another admission was under way, which is what
two locks in a row allow. `OnlyFailedHandshakesLeak` counts the places that failed handshakes keep
for ever beside those of the connections that are there, and says that there are no others;
`RefusedOnlyAtLimit` is the finding about them. `TakenOnce` has two exceptions. One is nonces that
the cache had to evict before they expired; with 1000 places and 60 seconds that takes more than
16 messages a second from all connections together. The other is messages stamped so far in the
future that they are fresh for longer than a nonce is kept: 30 seconds (60 less the window of
30), less what a task takes from the clock to the lock. `OneReader`, `StatusIsTrue` and
`ClicksAreOwn` hold until the client takes another's leaving for its own (`mistaken`); from
then on two sessions may be read, and what is shown is what came last. `StatusIsTrue`,
`ClicksAreOwn` and `Recovers` except sessions that got too large a message: a
reconnected session then stops reading and nobody notices (`Deaf`), and the first is left with its
connection open. None of the client's properties says that input arrives: after a
reconnection it does not, since the forward task of the first session keeps the channel.

## Findings

- `has_acted` is documented as belonging to the betting round and survives it: after
  the first round of a hand, each street closes with its first action
  (`RoundsStartAfresh`).
- When all who are left are all in, nobody is "active" and `advance_action` ends the
  hand: no showdown, and the pot is gone with the next deal (`AllInsAreShownDown`). The
  same branch takes the pot when the last active player folds.
- A call's amount is a signed difference. The last active player to fold keeps the turn;
  if it had more in front of it than those left, a call gives it chips that the pot keeps
  too or has already paid (`FoldIsFinal`).
- A connection whose handshake fails is counted for ever, as the `?` of `accept_async`
  skips the clean-up: the limits, documented as those of concurrent connections, refuse
  connections when fewer are there, and in the end all (`RefusedOnlyAtLimit`).
- A refused request blocks the server for good (`OthersAreServed`).

Met on the way and not given a run:

- Heads up, the first to act is the first of the map and not the dealer (`game.rs:303`);
  the first bet must be twice the big blind where the server's README names the big blind.
- A table that stopped waiting for players is never started by one who returns
  (`game.rs:175`).
- Connect of a 24-hour-old session is refused only on Reconnect, which needs the same
  connection.
- `showdown` looks for ties without `primary_rank` (`game.rs:848`): a lower pair, two pair or
  three of a kind with the same kickers shares the pot. `ShowdownMissesPrimaryOnly` proves that
  this is its one flaw.
- Two messages to one player are put into its queue by two tasks in any order, so the state
  shown last may be an old one (`server.rs:551`).
- For the same reason a client may hear that its earlier self, or the player it takes itself
  for, has left before it hears its new id; it then reconnects while the new session is
  still read (`poker_client/src/main.rs:470`).
- A message stamped more than 30 seconds in the future is still fresh when its nonce has expired
  after 60, and is then accepted again (`poker_protocol/src/lib.rs:489`), though the cache is
  there "to prevent replay attacks" (`lib.rs:23`).
- A client that sends nothing at all is never timed out: the inactivity check follows a
  frame (`main.rs:925`).
- The client's `trigger_reconnection` uses `tx_for_reconnect` after moving it into the read
  task (`poker_client/src/main.rs:663`), which the compiler should refuse. The model reads it as
  if the read task had a clone; the line in question is never reached, as the write task
  before it does not end.
- The client asks for a tokio runtime that nothing has started (`main.rs:242`), and its
  forward task blocks a thread of it.
- The client parses `PlayerUpdates` as a bare list (`network.rs:38`) where the server sends an
  object with a list in it, so these messages are dropped. It sends "action" unsigned
  where the server expects signed messages unless told otherwise.
- After a reconnection, what the player does goes to the first session's connection
  (`poker_client/src/main.rs:534`); a reconnected client does not ping; and
  having given up, the client never dials again, as only a success resets the count.

## The proofs

tlapm proves these for every value of the constants that the named assumption of each
module allows.

| module | theorems | from |
|---|---|---|
| PokerGameProofs | `TypeCorrect`; `RaisesDouble`; `PotCovers`; `BoardKeepsUp`; `TurnSkipsFolded`; `TurnStaysInHand`; `AllInMeansNoChips` | `TableAssumption`: small blind no larger than the big one, up to 23 players (2 MaxPlayers + 5 cards must fit the deck) |
| PayoutProofs | `WinningsWithinBets`; `PaidOnlyByShowdown`; `TableIsBank` | the same |
| PokerServerProofs | `TypeCorrect`; `CountsAreRight`; `SessionsCanBeWrittenTo`; `SessionsGetSeats`; `LimitsAreNearlyKept` | `ServerAssumption`: finitely many connections, natural limits |
| MessageIntakeProofs | `TypeCorrect`; `RateIsKept`; `CacheKeepsItsSize`; `OrderKeepsUp`; `MessagesTakenOnce` | `IntakeAssumption`: natural numbers, whatever clocks are ahead by |
| BroadcastPipelineProofs | `TypeCorrect`; `SentOnlyOnce` | `PipelineAssumption` |
| EvaluationProofs | `DealIsFair`; `EvaluationNeverOverrates`; `EvaluationIsTheBest`; `SomebodyAlwaysWins`; `ShowdownMissesPrimaryOnly` | `DeckAssumption`: ranks 2 to 14, at most four suits; `PlayersAssumption`: finitely many players, at least one |
| ClientNetworkProofs | `TypeCorrect`; `OneReaderAlways`; `StatusIsTrueAlways`; `ClicksAreOwnAlways`; `DelaysDoubleAlways` | `ClientAssumption` |

*The table.* One step runs through several tables: the stake,
the turn, the street, the payout, the end of the hand, the blinds of the next. So the
core of the inductive invariant, `Sane(t)`, is a predicate of a table and not of a state.
`Sane` adds to the three properties that the order is a permutation of the seated
and that nobody has bet before sitting down; without the latter a newcomer's bet
could break the other two. Each operator has a lemma that it keeps a table sane (or
makes it so: `StartHandSane` needs only the type, as the new hand clears bets and
pot), each action a lemma that composes those, and `NextIInv` collects the actions.
The heart of `PotCovers` is `NewBetSane`: a stake may replace the bet that stood, and
never raises it by more than it adds to the pot (`CalledFields` shows this for a call,
whose amount may be negative). `RaisesDouble` rests on
`CurrentBetIsMax`, since a call ends at the current bet and a raise sets `min_raise`
to twice a bet no smaller than it.

*The hand* goes along the same path with `HandOK(t)`, on top of `Sane`. Its parts need each
other: a call by an all-in player leaves it without chips because its amount is not
negative (`CalledReady`), which holds because whoever has the turn in a running hand
has not folded (`TurnUnfolded`), which holds because `AdvanceAction` gives the turn to an
active player only. `ReadyToAdvance` is what is left of `HandOK` between a fold and the
advance; a showdown breaks even that for a moment, and `EndHandOK` shows that the end of
the hand puts it right. That everybody all-in is seated (`AllInSeated`) is needed for
newcomers, who bring chips.

*The payout.* What a showdown pays is a double sum, over levels and over players, and is
summed twice. Level by level the shares of a side pot, odd chips included, come to no more
than the pot (`ShareSum`), which holds one step from everyone who contests it
(`SidePotSum`). Player by player the steps up to its bet come to no more than the bet
(`Ladder`). `SumSwap` puts the two together in `WinningsWithinBets`, and `PotCovers` makes
it a bound by the pot. It needs nothing of `winners`, which may name a player twice.

*The bank.* `TableIsBank` takes each operator along with `Held(t)`, the chips and the
escrow: `HandsOver(t, u)` says that nothing was gained before the advance, and `Pays(t, u)`
that the advance gave chips only by the showdown that closes the river, and only to the
unfolded (`FoldedWinNothing`). A buy-in is `JoiningPays`. Both theorems, like the properties
they prove, are about steps taken while the turn is with a player in the hand;
`TurnStaysInHand` says that this is so whenever a hand runs.

*The server.* `CountedMoves` says that only `Register` and `CleanUp` change who is counted,
there or failed; the counters follow by the cardinality of a set with one member more or less
(`CountsMatch`), and `OnlyFailedHandshakesLeak` splits that set in two. `Seated` says
who has entered and not left. For the limits the invariant is `WithinLimits`: the
connections that were admitted with no other admission under way (`Orderly`, which includes
those still on their way) are within them, since such an admission saw the true counts.

*The intake.* `Rated` bounds what a bucket granted by its size and the refill until the last
update, whose fractions are dropped (`DivAdds`). `CacheInv` has the two maps agree: every
entry of `expiry_order` names a nonce, so that an eviction (`RoomMade`) makes the room it
was to make; `OrderKeepsUp` is its part about the order. `MessagesTakenOnce` needs three
facts: the message of a nonce in the cache is stamped less than `Lead` after it, or is one of
`far_ahead` (`NoncesInTime`), the stamp a task holds is
not older than it may be (`WorkInTime`), and a nonce taken is remembered, or evicted for
want of room, or its message was far ahead or is too old to be verified again (`Remembered`).
Nothing is assumed of the clients' clocks.

*The pipeline.* A send is begun once: for a message the pump has passed on, to a player that
joined, or about one that left (`Begun`). From then on it is in one of four places,
which exclude each other (`Apart`): a task, the timed-out sends, a queue, a socket.

*The client.* `IInv` has four parts. `Calm`: while the client connects nobody reads and the
inbox is empty, and a disconnection is the last word in it. `Named`: while the client shows a
connection, its id is that of the last session. Both are claimed as long as nobody's leaving was
mistaken. `Over`: a session follows the first only when that is broken, got too large a message,
or was left by mistake; what is said of the first session then needs no order of
messages, only that such facts stay (`OverStays`). `Types` is what the argument needs of the types.
Each step has a lemma; `TypeCorrect` adds the counters. `DelaysDoubleAlways` follows the
delay through resets and attempts: cutting at the maximum before doubling and after
(`CutTwice`) comes to the same.

*The evaluation.* The question is about each of the seven cards' twenty-one hands of five, and
the proof enumerates none of them. `SeqLess`, the order of `Vec`, is a strict total order
(`SeqLessIrreflexive`, `SeqLessTransitive`, `SeqLessTotal`), so `BestOf` is what no five cards
exceed (`BestIs`). The lemmas named *Reads* say what each check returns, place by place;
those named *Made* find five of the cards that make it, or make something of a higher
category, whence `EvaluationNeverOverrates`. The other way, five cards are sorted by the
shape of their groups (`Categories`); the lemmas named *Found* say that the check of
their category finds something in the seven too, so the first check that found anything is
of that category or a higher one, and those named *Unbeaten* compare the ranks: the n highest
of more cards are place by place no lower than those of fewer (`DescendingOrder`). The three
kinds of hands that `EvaluationIsBest` excepts are what the *Found* and *Unbeaten* lemmas
need, one each: `SixSuited` (wider than need be) the straight flush, `LongWheel` the straight, `ManyFullHouses` the
full house. `DealIsFair` supplies seven different cards. The proof is also why the cases of
`RuleOf` exclude each other: as first written two of them could be true at once, and what a
CASE is then is anyone's choice.

*The winners.* `MeaningKeeps` relates the two orders: where what one evaluation says is less
than what another says, `Ord` finds it less too (it compares more, and for a high card or a
flush the first of the ranks twice). With that `ShowdownMissesPrimaryOnly` bounds what the
showdown gets wrong: a winner that does not hold the best hand ties, without `primary_rank`, with
a hand that is higher in it, or is up against one of the three kinds. `SomebodyAlwaysWins` is
what PokerGame relies on when it draws at least one winner (`Verdicts`). No run states these
two.

ChipMathProofs has the lemmas about the filter and the sum (a filter yields members of the
sequence; a sum changes by what one summand changes by, is monotone, additive, may be taken
in either order, and sums a constant over named players to no more than their number), and
about `Max` and `Min` of pairs and of finite sets of naturals. The library's induction
theorems take an operator as a parameter; `LeastNat` and `IndexInduction` are the
induction these sums need, over sets, from `WFMin`.

Left to TLC: liveness under fairness, which needs ENABLED (`HandsEnd`, `ClosingEnds`,
`ShutdownEnds`, `BroadcastsEnd`, `PublishedIsShown`, `Recovers`); and the counterexamples.

## Plan

Done: every part that keeps state is modelled and checked, and every safety property that a
passing run checks is stated by a theorem, as is the refinement of ChipBank. What could follow: the server with a table
that may refuse, in place of the choice it is now.

Not modelled, and why: the client's game view and its drawing (a copy of what the server
sends, without decisions), message texts and their parsing (conversions without state),
reading the environment (input), and cryptography (a library's; a message is genuine or
not).
