------------------------- MODULE BroadcastPipeline -------------------------
(***************************************************************************)
(* How messages reach the clients: the broadcast channel of                *)
(* poker_server/src/game.rs, broadcast_task and the write tasks of         *)
(* poker_server/src/main.rs, and the send tasks of broadcast_to_game,      *)
(* broadcast_to_game_by_player and send_to_player of                       *)
(* poker_server/src/server.rs.                                             *)
(*                                                                         *)
(* The table and the chat publish on a channel; one task, the pump, takes  *)
(* a message from it, locks the server and spawns a task for every seated  *)
(* player that is connected.  That task takes a permit, and with it puts   *)
(* the message into the player's queue, from which the player's write task *)
(* sends it.  Messages to one player, and the news that a player left, go  *)
(* around the channel.  Messages have no content here: what matters is     *)
(* which one it is.  The server's lock is taken to be free in the end (see *)
(* PokerServer for when it is not).                                        *)
(***************************************************************************)
EXTENDS Integers, Sequences, FiniteSets, SequencesExt

CONSTANTS
  Clients,           \* players that are to join the table
  ChannelCapacity,   \* what the broadcast channel retains: 100, rounded up by tokio to 128
  BroadcastPermits,  \* MAX_BROADCAST_TASKS
  SendPermits,       \* MAX_SEND_TASKS
  QueueCapacity,     \* CHANNEL_CAPACITY of a player's queue
  MaxPublished       \* bound: how many messages are published

ASSUME PipelineAssumption ==
  /\ IsFiniteSet(Clients)
  /\ {ChannelCapacity, BroadcastPermits, SendPermits, QueueCapacity} \subseteq Nat \ {0}
  /\ MaxPublished \in Nat

VARIABLES
  published,   \* how many messages were published
  received,    \* how many of them the pump has received
  pump,        \* "idle", "waiting" for the server's lock, or "stopped"
  connected,   \* seated players with a sender
  joined,      \* who has joined, connected or not
  sends,       \* the send tasks that have not ended
  permitted,   \* those of them that have a permit
  queue,       \* each player's queue of messages to write
  writing,     \* whose write task runs
  reading,     \* who takes what is written to its socket
  shown,       \* the numbers of the published messages each client was sent
  dropped      \* the sends of published messages that timed out

channel == <<published, received, pump>>
members == <<connected, joined>>
tasks == <<sends, permitted, dropped>>
sockets == <<queue, writing, reading, shown>>
vars == <<channel, members, tasks, sockets>>

Published(n) == <<"published", n>>
Left(c) == <<"left", c>>
Messages ==
  (({"published"} \X (1..MaxPublished)) \cup ({"left"} \X Clients))
    \cup ({"direct"} \X {"Connected", "PlayerUpdates"})
Sends == [message: Messages, to: Clients]
Send(message, c) == [message |-> message, to |-> c]

IsDirect(s) == s.message[1] = "direct"

Init ==
  /\ published = 0 /\ received = 0 /\ pump = "idle"
  /\ connected = {} /\ joined = {}
  /\ sends = {} /\ permitted = {} /\ dropped = {}
  /\ queue = [c \in Clients |-> <<>>]
  /\ writing = Clients /\ reading = Clients
  /\ shown = [c \in Clients |-> {}]

-----------------------------------------------------------------------------
(* Publishing.                                                             *)

\* tx.send: never waits; with the pump gone nobody is subscribed any more.
PublishOne == published < MaxPublished /\ published' = published + 1

\* The table or the chat publishes.
Publish ==
  /\ PublishOne
  /\ UNCHANGED <<received, pump, members, tasks, sockets>>

\* seat_player: the table publishes PlayerConnected, the player gets two messages.
Join(c) ==
  /\ c \notin joined
  /\ PublishOne
  /\ joined' = joined \cup {c}
  /\ connected' = connected \cup {c}
  /\ sends' = sends \cup {Send(<<"direct", m>>, c) : m \in {"Connected", "PlayerUpdates"}}
  /\ UNCHANGED <<received, pump, permitted, dropped, sockets>>

\* disconnect_player: the others are told without the channel.
Leave(c) ==
  /\ c \in connected
  /\ connected' = connected \ {c}
  /\ sends' = sends \cup {Send(Left(c), d) : d \in connected \ {c}}
  /\ UNCHANGED <<channel, joined, permitted, dropped, sockets>>

-----------------------------------------------------------------------------
(* The pump: while let Ok(msg) = rx.recv().await.                          *)

\* A message the channel still has; a receiver that fell behind gets Lagged, which
\* is no Ok, and the task ends.
PumpReceive ==
  /\ pump = "idle"
  /\ received < published
  /\ IF published - received > ChannelCapacity
     THEN pump' = "stopped" /\ UNCHANGED received
     ELSE pump' = "waiting" /\ received' = received + 1
  /\ UNCHANGED <<published, members, tasks, sockets>>

\* broadcast_to_game under the server's lock
Spawned(m) == {Send(m, c) : c \in connected}

PumpSpawn ==
  /\ pump = "waiting"
  /\ pump' = "idle"
  /\ sends' = sends \cup Spawned(Published(received))
  /\ UNCHANGED <<published, received, members, permitted, dropped, sockets>>

-----------------------------------------------------------------------------
(* The send tasks.                                                         *)

\* Mutant: one semaphore for both kinds.
PermitFreeShared(s) ==
  Cardinality(permitted) < BroadcastPermits

\* Broadcasts and direct messages have a semaphore each.
PermitFree(s) ==
  LET sameKind == {t \in permitted : IsDirect(t) = IsDirect(s)}
  IN  Cardinality(sameKind) < IF IsDirect(s) THEN SendPermits ELSE BroadcastPermits

Acquire(s) ==
  /\ s \in sends \ permitted
  /\ PermitFree(s)
  /\ permitted' = permitted \cup {s}
  /\ UNCHANGED <<channel, members, sends, dropped, sockets>>

\* Mutant: a send that is through starts over.
EndsOver(s) == permitted' = permitted \ {s} /\ UNCHANGED sends

Ends(s) == sends' = sends \ {s} /\ permitted' = permitted \ {s}

\* Mutant: one message too many.
HasRoomForOneMore(c) == Len(queue[c]) <= QueueCapacity

HasRoom(c) == Len(queue[c]) < QueueCapacity

\* sender.send completes: the queue has room, or the write task is gone.
Enqueue(s) ==
  /\ s \in permitted
  /\ \/ /\ s.to \in writing /\ HasRoom(s.to)
        /\ queue' = [queue EXCEPT ![s.to] = Append(@, s.message)]
     \/ s.to \notin writing /\ UNCHANGED queue
  /\ Ends(s)
  /\ UNCHANGED <<channel, members, dropped, writing, reading, shown>>

\* Mutant: the timeout is forgotten.
TimesOutNever(s) == FALSE

\* Only broadcast sends are under a timeout.
TimesOut(s) == ~IsDirect(s)

\* timeout: the send waited too long for room.
Timeout(s) ==
  /\ s \in permitted
  /\ TimesOut(s)
  /\ s.to \in writing /\ ~HasRoom(s.to)
  /\ Ends(s)
  /\ dropped' = IF s.message[1] = "published" THEN dropped \cup {s} ELSE dropped
  /\ UNCHANGED <<channel, members, sockets>>

SendTask(s) == Acquire(s) \/ Enqueue(s) \/ Timeout(s)

-----------------------------------------------------------------------------
(* The write task and the client's end of the socket.                      *)

\* sink.send to a client that takes it
Write(c) ==
  /\ c \in writing \cap reading
  /\ queue[c] # <<>>
  /\ LET m == Head(queue[c])
     IN  IF m[1] = "published"
         THEN shown' = [shown EXCEPT ![c] = @ \cup {m[2]}]
         ELSE UNCHANGED shown
  /\ queue' = [queue EXCEPT ![c] = Tail(@)]
  /\ UNCHANGED <<channel, members, tasks, writing, reading>>

\* sink.send fails: the task ends and its queue with it.
WriteFails(c) ==
  /\ c \in writing
  /\ queue[c] # <<>>
  /\ writing' = writing \ {c}
  /\ queue' = [queue EXCEPT ![c] = <<>>]
  /\ UNCHANGED <<channel, members, tasks, reading, shown>>

\* The client's machine stops taking data without closing the connection.
Stall(c) ==
  /\ c \in joined \cap reading
  /\ reading' = reading \ {c}
  /\ UNCHANGED <<channel, members, tasks, queue, writing, shown>>

Next ==
  \/ Publish
  \/ PumpReceive
  \/ PumpSpawn
  \/ \E c \in Clients : Join(c) \/ Leave(c) \/ Write(c) \/ WriteFails(c) \/ Stall(c)
  \/ \E s \in sends : SendTask(s)

Spec == Init /\ [][Next]_vars

\* The runtime never rests while the pump, a write task or a send task can go on,
\* and timers fire; as what is published is bounded, each gets its turn.  Who
\* publishes, joins, leaves, breaks or stalls is up to the clients.
FairSpec ==
  /\ Spec
  /\ WF_vars(PumpReceive \/ PumpSpawn)
  /\ WF_vars(\E c \in Clients : Write(c))
  /\ WF_vars(\E s \in sends : SendTask(s))

-----------------------------------------------------------------------------
(* Properties.                                                             *)

TypeOK ==
  /\ published \in 0..MaxPublished /\ received \in 0..published
  /\ pump \in {"idle", "waiting", "stopped"}
  /\ connected \subseteq joined /\ joined \subseteq Clients
  /\ permitted \subseteq sends /\ sends \subseteq Sends /\ dropped \subseteq Sends
  /\ {writing, reading} \subseteq SUBSET Clients
  /\ queue \in [Clients -> Seq(Messages)] /\ shown \in [Clients -> SUBSET (1..MaxPublished)]
  /\ \A c \in Clients : Len(queue[c]) <= QueueCapacity

\* A message is sent to a client once, whatever else becomes of it: waiting for a
\* permit or for room, in the queue, shown and dropped exclude each other.
SentOnce ==
  \A c \in Clients :
    /\ IsInjective(queue[c])
    /\ \A n \in 1..MaxPublished :
         LET s == Send(Published(n), c)
             places == <<s \in sends, s \in dropped, Contains(queue[c], Published(n)),
                         n \in shown[c]>>
         IN  \A i, j \in DOMAIN places : places[i] /\ places[j] => i = j

\* The broadcast sends come to an end, even if clients stop reading and the other
\* kind of sends waits for them for ever.
BroadcastsEnd == []<>(\A s \in sends : IsDirect(s))

\* What is published while a client is there reaches it in the end, through the
\* channel, the pump, a permit, a queue and a socket, unless the pump has stopped,
\* this send timed out, or the client left, broke or stopped reading itself: what
\* other clients do is no reason.
PublishedIsShown ==
  \A c \in Clients, n \in 1..MaxPublished :
    c \in connected /\ published = n ~>
      \/ n \in shown[c]
      \/ pump = "stopped"
      \/ Send(Published(n), c) \in dropped
      \/ c \notin connected \cap writing \cap reading
=============================================================================
