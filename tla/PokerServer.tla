---------------------------- MODULE PokerServer ----------------------------
(***************************************************************************)
(* Connections, sessions and seats, from the accept loop to the shutdown:  *)
(* PokerServer of poker_server/src/server.rs and main, handle_connection   *)
(* and MessageHandler of poker_server/src/main.rs.                         *)
(*                                                                         *)
(* Each connection is a task that goes through handle_connection.  The     *)
(* server sits behind one mutex, and what a task does from lock() to the   *)
(* end of the guard's scope is one step, with one exception: the handlers  *)
(* of MessageHandler call send_error while their guard is alive, and       *)
(* send_error takes the same lock, which is not reentrant.  A task whose   *)
(* request is refused therefore waits for itself and keeps the server.     *)
(*                                                                         *)
(* Of the table (PokerGame) only the seats matter here; whether it accepts *)
(* an action is its own affair.  Messages to clients belong to the         *)
(* broadcast pipeline, so chat, which only sends one, changes nothing.     *)
(***************************************************************************)
EXTENDS Integers, FiniteSets, FiniteSetsExt

CONSTANTS
  Connections,       \* connection ids, each also the id of its player
  Addresses,         \* IP addresses
  MaxConnections,    \* MAX_CONNECTIONS
  MaxPerAddress,     \* MAX_CONNECTIONS_PER_IP
  MaxSeats,          \* MAX_PLAYERS of game.rs
  Nobody             \* holds the lock when it is free

ASSUME ServerAssumption ==
  /\ IsFiniteSet(Connections)
  /\ {MaxConnections, MaxPerAddress, MaxSeats} \subseteq Nat
  /\ Nobody \notin Connections

VARIABLES
  phase,             \* how far each connection's task is
  should_shutdown,   \* the flag the signal task sets
  main,              \* where the main task is
  address,           \* where each connection comes from
  lock,              \* who keeps the server's mutex across steps
  connection_count,
  ip_connections,    \* 0 stands for an address the map does not hold
  connected,         \* players: flag `connected`
  senders,           \* players: those whose ws_sender is Some
  player_sessions,
  seats,             \* the keys of the main table's players
  sitting_out,       \* is_sitting_out of the main table's players
  raced              \* history: admitted while another admission was under way

counts == <<connection_count, ip_connections>>
players == <<connected, senders>>
table == <<seats, sitting_out>>
process == <<should_shutdown, main>>
vars == <<process, phase, address, lock, counts, players, player_sessions, table, raced>>

Phases == {"new", "spawned", "checked", "rejected", "admitted", "counted", "failed",
           "open", "stuck", "closing", "gone"}

Init ==
  /\ should_shutdown = FALSE /\ main = "checking"
  /\ phase = [c \in Connections |-> "new"]
  /\ address \in [Connections -> Addresses]
  /\ lock = Nobody
  /\ connection_count = 0
  /\ ip_connections = [a \in Addresses |-> 0]
  /\ connected = {} /\ senders = {} /\ player_sessions = {}
  /\ seats = {} /\ sitting_out = {}
  /\ raced = {}

\* A step of a task of connection c, which lives as long as the process.
Move(c, from, to) ==
  /\ main # "down" /\ UNCHANGED process
  /\ phase[c] = from /\ phase' = [phase EXCEPT ![c] = to]

\* The task gets the lock and gives it back.
Locked == lock = Nobody /\ lock' = Nobody

-----------------------------------------------------------------------------
(* The main task.                                                          *)

\* SIGTERM or Ctrl-C
Signal ==
  /\ main # "down"
  /\ should_shutdown' = TRUE
  /\ UNCHANGED <<main, phase, address, lock, counts, players, player_sessions, table, raced>>

\* The condition of the accept loop, looked at once before each accept().
CheckFlag ==
  /\ main = "checking"
  /\ main' = IF should_shutdown THEN "draining" ELSE "accepting"
  /\ UNCHANGED <<should_shutdown, phase, address, lock, counts, players, player_sessions, table,
                 raced>>

\* accept() returns a client, for whom a task is spawned, or an error.
Accept(c) ==
  /\ main = "accepting" /\ main' = "checking"
  /\ phase[c] = "new" /\ phase' = [phase EXCEPT ![c] = "spawned"]
  /\ UNCHANGED <<should_shutdown, address, lock, counts, players, player_sessions, table, raced>>

AcceptFails ==
  /\ main = "accepting" /\ main' = "checking"
  /\ UNCHANGED <<should_shutdown, phase, address, lock, counts, players, player_sessions, table,
                 raced>>

Ended == {"new", "rejected", "failed", "gone"}

\* Mutant: the connections are waited for without a deadline.
ExitWhenIdle ==
  /\ main = "draining" /\ main' = "down"
  /\ \A c \in Connections : phase[c] \in Ended
  /\ UNCHANGED <<should_shutdown, phase, address, lock, counts, players, player_sessions, table,
                 raced>>

\* The connections have ended or the deadlines are over.  main returns, and the runtime
\* waits for its threads: not for tasks that await, but for one blocked on a mutex.
Exit ==
  /\ main = "draining" /\ main' = "down"
  /\ lock = Nobody
  /\ UNCHANGED <<should_shutdown, phase, address, lock, counts, players, player_sessions, table,
                 raced>>

-----------------------------------------------------------------------------
(* handle_connection up to the read loop.                                  *)

\* Mutant: one connection too many in total.
CanAcceptOneMore(a) == connection_count <= MaxConnections /\ ip_connections[a] < MaxPerAddress

CanAccept(a) == connection_count < MaxConnections /\ ip_connections[a] < MaxPerAddress

\* The task has just been spawned and finds the flag set.
TurnAway(c) ==
  /\ should_shutdown
  /\ Move(c, "spawned", "rejected")
  /\ UNCHANGED <<address, lock, counts, players, player_sessions, table, raced>>

UnderWay == {c \in Connections : phase[c] = "admitted"}

\* It does not, and goes on to handle_connection.
Start(c) ==
  /\ ~should_shutdown
  /\ Move(c, "spawned", "checked")
  /\ UNCHANGED <<address, lock, counts, players, player_sessions, table, raced>>

\* can_accept_connection, under a lock of its own
Admit(c) ==
  /\ Locked
  /\ Move(c, "checked", IF CanAccept(address[c]) THEN "admitted" ELSE "rejected")
  /\ raced' = IF UnderWay # {} THEN raced \cup {c} ELSE raced
  /\ UNCHANGED <<address, counts, players, player_sessions, table>>

\* register_connection, under the next
Register(c) ==
  /\ Locked
  /\ Move(c, "admitted", "counted")
  /\ connection_count' = connection_count + 1
  /\ ip_connections' = [ip_connections EXCEPT ![address[c]] = @ + 1]
  /\ UNCHANGED <<address, players, player_sessions, table, raced>>

\* accept_async fails: the ? returns past the clean-up, and the count is never taken back.
HandshakeFails(c) ==
  /\ Move(c, "counted", "failed")
  /\ UNCHANGED <<address, lock, counts, players, player_sessions, table, raced>>

\* register_player and connect_player
Enter(c) ==
  /\ Locked
  /\ Move(c, "counted", "open")
  /\ connected' = connected \cup {c}
  /\ senders' = senders \cup {c}
  /\ UNCHANGED <<address, counts, player_sessions, table, raced>>

-----------------------------------------------------------------------------
(* Messages: handle_message under the lock MessageHandler took.            *)

\* The request changes nothing more and is granted.
Granted(c) == Locked /\ Move(c, "open", "open")

\* The request is refused: send_error locks what the handler has locked.
Refused(c) == lock = Nobody /\ lock' = c /\ Move(c, "open", "stuck")

\* Mutant: the last seat is never given.
TableHasRoomButOne == Cardinality(seats) + 1 < MaxSeats

\* add_player accepts
TableHasRoom == Cardinality(seats) < MaxSeats

\* Connect: seat_player opens the session before it asks the table.
HandleConnect(c) ==
  /\ IF c \in player_sessions
     THEN Granted(c) /\ UNCHANGED <<player_sessions, seats>>
     ELSE /\ player_sessions' = player_sessions \cup {c}
          /\ IF TableHasRoom
             THEN Granted(c) /\ seats' = seats \cup {c}
             ELSE Refused(c) /\ UNCHANGED seats
  /\ UNCHANGED <<address, counts, players, sitting_out, raced>>

\* Reconnect under the connection's own id; the session may have expired.
HandleReconnect(c) ==
  /\ \/ Granted(c) /\ connected' = connected \cup {c}
     \/ Refused(c) /\ UNCHANGED connected
  /\ UNCHANGED <<address, counts, senders, player_sessions, table, raced>>

\* Action: the table decides, if there is a session and a seat.
HandleAction(c) ==
  /\ \/ Granted(c) /\ c \in player_sessions \cap seats
     \/ Refused(c)
  /\ UNCHANGED <<address, counts, players, player_sessions, table, raced>>

\* SitOut and Return
HandleSitOut(c) ==
  /\ IF c \in player_sessions
     THEN Granted(c) /\ sitting_out' = sitting_out \cup ({c} \cap seats)
     ELSE Refused(c) /\ UNCHANGED sitting_out
  /\ UNCHANGED <<address, counts, players, player_sessions, seats, raced>>

HandleReturn(c) ==
  /\ IF c \in player_sessions
     THEN Granted(c) /\ sitting_out' = sitting_out \ {c}
     ELSE Refused(c) /\ UNCHANGED sitting_out
  /\ UNCHANGED <<address, counts, players, player_sessions, seats, raced>>

HandleMessage(c) ==
  \/ HandleConnect(c)
  \/ HandleReconnect(c)
  \/ HandleAction(c)
  \/ HandleSitOut(c)
  \/ HandleReturn(c)

-----------------------------------------------------------------------------
(* The end of a connection.                                                *)

\* The read loop ends: closed, broken, over the rate limit, too large a message,
\* badly signed or inactive.
ReadLoopEnds(c) ==
  /\ Move(c, "open", "closing")
  /\ UNCHANGED <<address, lock, counts, players, player_sessions, table, raced>>

\* Mutant: the session of a disconnected player stays.
DisconnectKeepsSession(c) ==
  /\ connected' = connected \ {c}
  /\ senders' = senders \ {c}
  /\ UNCHANGED player_sessions

\* Mutant: a player without a session is not disconnected.
DisconnectSeatedOnly(c) ==
  /\ c \in player_sessions
  /\ connected' = connected \ {c}
  /\ senders' = senders \ {c}
  /\ player_sessions' = player_sessions \ {c}

\* disconnect_player: the seat stays taken
Disconnect(c) ==
  /\ connected' = connected \ {c}
  /\ senders' = senders \ {c}
  /\ player_sessions' = player_sessions \ {c}

\* Mutant: the disconnection has counted down already, and nothing saturates.
UnregisterTwice(c) ==
  /\ connection_count' = connection_count - 2
  /\ ip_connections' = [ip_connections EXCEPT ![address[c]] = Max({0, @ - 1})]

\* Mutant: the address keeps its count.
UnregisterKeepsAddress(c) ==
  /\ connection_count' = Max({0, connection_count - 1})
  /\ UNCHANGED ip_connections

\* unregister_connection, with saturating_sub
Unregister(c) ==
  /\ connection_count' = Max({0, connection_count - 1})
  /\ ip_connections' = [ip_connections EXCEPT ![address[c]] = Max({0, @ - 1})]

CleanUp(c) ==
  /\ Locked
  /\ Move(c, "closing", "gone")
  /\ Disconnect(c)
  /\ Unregister(c)
  /\ UNCHANGED <<address, table, raced>>

Next ==
  \/ Signal
  \/ CheckFlag
  \/ AcceptFails
  \/ Exit
  \/ \E c \in Connections :
       \/ Accept(c)
       \/ TurnAway(c)
       \/ Start(c)
       \/ Admit(c)
       \/ Register(c)
       \/ HandshakeFails(c)
       \/ Enter(c)
       \/ HandleMessage(c)
       \/ ReadLoopEnds(c)
       \/ CleanUp(c)

Spec == Init /\ [][Next]_vars

\* The runtime runs every task that can go on, and the deadlines of the shutdown pass.
\* Only the clean-up of connections and the main task are asked to: a handshake may
\* hang, a client may be silent for ever, and none may ever come.
FairSpec ==
  /\ Spec
  /\ WF_vars(CheckFlag) /\ WF_vars(Exit)
  /\ \A c \in Connections : WF_vars(CleanUp(c))

-----------------------------------------------------------------------------
(* Properties.                                                             *)

TypeOK ==
  /\ should_shutdown \in BOOLEAN
  /\ main \in {"checking", "accepting", "draining", "down"}
  /\ phase \in [Connections -> Phases]
  /\ address \in [Connections -> Addresses]
  /\ lock \in Connections \cup {Nobody}
  /\ connection_count \in Nat
  /\ ip_connections \in [Addresses -> Nat]
  /\ {connected, senders, player_sessions, seats, sitting_out, raced} \subseteq SUBSET Connections

Live == {c \in Connections : phase[c] \in {"counted", "open", "stuck", "closing"}}

Failed == {c \in Connections : phase[c] = "failed"}

Counted == Live \cup Failed

\* A place is held by each connection that is registered and there, and lost to each whose
\* handshake failed, in total and from each address; no order of ends and no saturating
\* subtraction loses another or gives one back twice.
OnlyFailedHandshakesLeak ==
  /\ connection_count = Cardinality(Live) + Cardinality(Failed)
  /\ \A a \in Addresses :
       ip_connections[a] = Cardinality({c \in Live : address[c] = a})
                             + Cardinality({c \in Failed : address[c] = a})

\* poker_server/src/main.rs, "Maximum total concurrent connections to server" and "Maximum
\* concurrent connections from a single IP address": who is refused finds that many there.
RefusedOnlyAtLimit ==
  [][\A c \in Connections :
       phase[c] = "checked" /\ phase'[c] = "rejected" =>
         \/ Cardinality(Live) >= MaxConnections
         \/ Cardinality({d \in Live : address[d] = address[c]}) >= MaxPerAddress]_vars

\* A session belongs to a connection that is there and can be written to, so that
\* seat_player's own messages and the broadcasts find a sender, however players
\* connect, reconnect and leave.
SessionsHaveSenders ==
  /\ connected = senders
  /\ player_sessions \subseteq senders
  /\ \A c \in senders : phase[c] \in {"open", "stuck", "closing"}

\* seat_player leaves a session behind when add_player fails, so that later actions
\* of that player look seated to the server: only when the table was full.
SessionsAreSeated ==
  player_sessions \subseteq seats \/ Cardinality(seats) = MaxSeats

\* can_accept_connection and register_connection hold the lock one after the other, so
\* that the limits can be passed; but only by connections that were admitted while
\* another admission was under way, and by no more than there are of those.
LimitsGiveWayToRaces ==
  /\ connection_count <= MaxConnections + Cardinality(Counted \cap raced)
  /\ \A a \in Addresses :
       ip_connections[a] <= MaxPerAddress + Cardinality({c \in Counted \cap raced : address[c] = a})

\* A connection that ends is cleaned up, unless a refused request keeps the lock or the
\* process ends before.
ClosingEnds ==
  \A c \in Connections :
    phase[c] = "closing" ~> phase[c] = "gone" \/ lock # Nobody \/ main = "down"

\* A server that is told to shut down does, however long its connections stay: unless it
\* waits for one more client, whom accept() must return before the flag is looked at
\* again, or a thread is blocked on the lock a refused request keeps.
ShutdownEnds ==
  should_shutdown ~> main = "down" \/ main = "accepting" \/ lock # Nobody

\* poker_server/README.md, "Handle multiple client connections": a connection that ends is
\* cleaned up, whatever the others ask for.
OthersAreServed ==
  \A c \in Connections : phase[c] = "closing" ~> phase[c] = "gone" \/ main = "down"
=============================================================================
