--------------------------- MODULE ClientNetwork ---------------------------
(***************************************************************************)
(* The client's network: connecting with retries, the tasks of a session,  *)
(* the two channels to and from the interface, and reconnecting            *)
(* (setup_network, connect_with_retry, handle_network_messages and         *)
(* trigger_reconnection of poker_client/src/main.rs).                      *)
(*                                                                         *)
(* A session is a connection the client has made; the server gives each of *)
(* them an id of its own, here its number.  The network task connects,     *)
(* greets and then waits for the tasks it has spawned, for ever: some of   *)
(* them never end.  A new network task aborts the one before, but not what *)
(* that one has spawned; and only the first session has the task that      *)
(* forwards what the interface sends.                                      *)
(*                                                                         *)
(* Of the game view only the player's id matters here.  Messages that      *)
(* change the rest of it, error texts and pings are left out, and since    *)
(* the chat may send at any time it makes no difference when the buttons   *)
(* may.  setup_network asks for the current tokio runtime; that there is   *)
(* one is assumed.                                                         *)
(***************************************************************************)
EXTENDS Integers, Sequences, FiniteSets, FiniteSetsExt

CONSTANTS
  MaxSessions,       \* bound: how often a connection succeeds
  MaxInbox,          \* bound: messages of the server waiting for the interface
  MaxClicks,         \* bound: what the player sends waits in the channel
  MaxAttempts,       \* MAX_RECONNECT_ATTEMPTS
  InitialDelay,      \* INITIAL_RECONNECT_DELAY_MS
  MaxDelay,          \* MAX_RECONNECT_DELAY_MS
  Others,            \* ids of other players
  Nobody             \* the empty id

Sessions == 1..MaxSessions
Ids == Sessions \cup Others

ASSUME ClientAssumption ==
  /\ {MaxSessions, MaxInbox, MaxClicks, MaxAttempts, InitialDelay, MaxDelay} \subseteq Nat
  /\ InitialDelay <= MaxDelay
  /\ Others \cap Int = {} /\ Nobody \notin Ids

VARIABLES
  stage,             \* where the network task is
  first,             \* it is the one of setup_network
  attempt,           \* ReconnectState, shared by all network tasks
  delay_ms,
  session,           \* how many sessions there were, the number of the last one
  broken,            \* sessions whose connection the server or the net has ended
  reading,           \* sessions whose read task runs
  inbox,             \* tx to rx: from the tasks to the interface
  ui,                \* ui_tx to ui_rx and write_tx to write_rx: from there to the socket
  connected,         \* of AppState
  my_id,             \* of PokerGameState
  forwarding,        \* the forward task: to come, running or never to come
  overlong,          \* history: sessions that got too large a message
  mistaken           \* history: sessions left because a player's leaving was taken for this one's

reconnect_state == <<attempt, delay_ms>>
history == <<overlong, mistaken>>
channels == <<inbox, ui, forwarding>>
app_state == <<connected, my_id>>
vars == <<stage, first, reconnect_state, session, broken, reading, channels, app_state, history>>

Disconnected == [type |-> "Disconnected", id |-> Nobody]

Init ==
  /\ stage = "retrying" /\ first = TRUE
  /\ attempt = 0 /\ delay_ms = InitialDelay
  /\ session = 0
  /\ broken = {} /\ reading = {}
  /\ inbox = <<>> /\ ui = <<>> /\ forwarding = "to come"
  /\ connected = FALSE /\ my_id = Nobody
  /\ overlong = {} /\ mistaken = {}

-----------------------------------------------------------------------------
(* The network task.                                                       *)

\* Mutant: one attempt too many.
DialOnceMore ==
  /\ stage = "retrying" /\ stage' = "dialling"
  /\ attempt <= MaxAttempts
  /\ attempt' = attempt + 1
  /\ delay_ms' = Min({delay_ms * 2, MaxDelay})
  /\ UNCHANGED <<first, session, broken, reading, channels, app_state, history>>

\* next_attempt grants another attempt; connect_async is called.
Dial ==
  /\ stage = "retrying" /\ stage' = "dialling"
  /\ attempt < MaxAttempts
  /\ attempt' = attempt + 1
  /\ delay_ms' = Min({delay_ms * 2, MaxDelay})
  /\ UNCHANGED <<first, session, broken, reading, channels, app_state, history>>

\* A task that ends before it has spawned the forward task takes ui_rx with it.
Report ==
  /\ inbox' = Append(inbox, Disconnected)
  /\ forwarding' = IF first THEN "never" ELSE forwarding

\* It refuses: the task of setup_network reports a disconnection, the others just end.
GiveUp ==
  /\ stage = "retrying" /\ stage' = "ended"
  /\ attempt >= MaxAttempts
  /\ IF first THEN Report ELSE UNCHANGED <<inbox, forwarding>>
  /\ UNCHANGED <<first, reconnect_state, session, broken, reading, ui, app_state, history>>

\* connect_async fails or times out; the task sleeps.
DialFails ==
  /\ stage = "dialling" /\ stage' = "retrying"
  /\ UNCHANGED <<first, reconnect_state, session, broken, reading, channels, app_state, history>>

\* Mutant: the delay stays where it was.
ResetAttempts == attempt' = 0 /\ UNCHANGED delay_ms

\* ReconnectState::reset
Reset == attempt' = 0 /\ delay_ms' = InitialDelay

DialSucceeds ==
  /\ stage = "dialling" /\ stage' = "greeting"
  /\ session < MaxSessions
  /\ session' = session + 1
  /\ Reset
  /\ UNCHANGED <<first, broken, reading, channels, app_state, history>>

\* The connect message goes out, or so it seems; the tasks of the session are spawned.
Greet ==
  /\ stage = "greeting" /\ stage' = "serving"
  /\ reading' = reading \cup {session}
  /\ forwarding' = IF first THEN "running" ELSE forwarding
  /\ UNCHANGED <<first, reconnect_state, session, broken, inbox, ui, app_state, history>>

GreetFails ==
  /\ stage = "greeting" /\ stage' = "ended"
  /\ session \in broken
  /\ Report
  /\ UNCHANGED <<first, reconnect_state, session, broken, reading, ui, app_state, history>>

-----------------------------------------------------------------------------
(* A session's read task, and the server at the other end.                 *)

\* The server closes the connection, or the net breaks it.
Break(s) ==
  /\ s <= session /\ s \notin broken
  /\ broken' = broken \cup {s}
  /\ UNCHANGED <<stage, first, reconnect_state, session, reading, channels, app_state, history>>

\* What the server sends to session s, each message by a task of its own and so in any order:
\* Connected, if it seats the player; and of players, this one and its earlier and later
\* selves included, that they come and go.  That it says so once is left out.
Sent(s) ==
  {[type |-> "PlayerIdConfirmed", id |-> s]}
    \cup {[type |-> "PlayerConnected", id |-> i] : i \in Others \cup 1..session}
    \cup {[type |-> "PlayerDisconnected", id |-> i] : i \in Others \cup (1..session \ {s})}

ReadMessage(s) ==
  /\ s \in reading \ broken
  /\ Len(inbox) < MaxInbox
  /\ \E m \in Sent(s) : inbox' = Append(inbox, m)
  /\ UNCHANGED <<stage, first, reconnect_state, session, broken, reading, ui, forwarding,
                 app_state, history>>

\* Mutant: the read task goes on after a message that is too large.
ReadOverlongAndOn(s) ==
  /\ s \in reading \ broken
  /\ overlong' = overlong \cup {s}
  /\ inbox' = IF s = 1 /\ s \notin overlong THEN Append(inbox, Disconnected) ELSE inbox
  /\ UNCHANGED <<stage, first, reconnect_state, session, broken, reading, ui, forwarding,
                 app_state, mistaken>>

\* A message of more than MAX_MESSAGE_SIZE ends the read task, and nothing else: the
\* connection stays.  After a reconnection the interface is not told.
ReadOverlong(s) ==
  /\ s \in reading \ broken
  /\ reading' = reading \ {s}
  /\ overlong' = overlong \cup {s}
  /\ inbox' = IF s = 1 THEN Append(inbox, Disconnected) ELSE inbox
  /\ UNCHANGED <<stage, first, reconnect_state, session, broken, ui, forwarding, app_state,
                 mistaken>>

\* Mutant: the interface is not told.
ReadEndsQuietly(s) ==
  /\ s \in reading \cap broken
  /\ reading' = reading \ {s}
  /\ UNCHANGED <<stage, first, reconnect_state, session, broken, channels, app_state, history>>

\* A close frame or an error.
ReadEnds(s) ==
  /\ s \in reading \cap broken
  /\ reading' = reading \ {s}
  /\ inbox' = Append(inbox, Disconnected)
  /\ UNCHANGED <<stage, first, reconnect_state, session, broken, ui, forwarding, app_state,
                 history>>

-----------------------------------------------------------------------------
(* The interface.                                                          *)

\* trigger_reconnection: a new network task, whatever the old one was doing
Trigger == stage' = "retrying" /\ first' = FALSE

Stay == UNCHANGED <<stage, first>>

HandleConfirmed(m) ==
  /\ m.type = "PlayerIdConfirmed"
  /\ connected' = TRUE /\ my_id' = m.id
  /\ Stay /\ UNCHANGED mistaken

\* Mutant: the interface goes on showing a connection.
HandleDisconnectedQuietly(m) == m.type = "Disconnected" /\ Trigger /\ UNCHANGED <<app_state, mistaken>>

HandleDisconnected(m) ==
  /\ m.type = "Disconnected"
  /\ connected' = FALSE /\ Trigger
  /\ UNCHANGED <<my_id, mistaken>>

\* Another player has left; if the id is the one taken for this player's, reconnect.
HandlePlayerDisconnected(m) ==
  /\ m.type = "PlayerDisconnected"
  /\ IF m.id = my_id
       THEN connected' = FALSE /\ Trigger /\ mistaken' = mistaken \cup {session}
       ELSE Stay /\ UNCHANGED <<connected, mistaken>>
  /\ UNCHANGED my_id

\* Mutant: whoever comes is taken to be this player.
HandleAnyPlayerConnected(m) ==
  /\ m.type = "PlayerConnected"
  /\ my_id' = m.id
  /\ Stay /\ UNCHANGED <<connected, mistaken>>

\* The first player heard of is taken to be this one, until the server confirms an id.
HandlePlayerConnected(m) ==
  /\ m.type = "PlayerConnected"
  /\ my_id' = IF my_id = Nobody THEN m.id ELSE my_id
  /\ Stay /\ UNCHANGED <<connected, mistaken>>

\* handle_network_messages takes one message after the other.
HandleMessage ==
  /\ inbox # <<>> /\ inbox' = Tail(inbox)
  /\ LET m == Head(inbox) IN
       \/ HandleConfirmed(m)
       \/ HandleDisconnected(m)
       \/ HandlePlayerDisconnected(m)
       \/ HandlePlayerConnected(m)
  /\ UNCHANGED <<reconnect_state, session, broken, reading, ui, forwarding, overlong>>

\* A button or the chat; neither asks whether the client is connected.  What nobody will
\* receive is not sent.  Of what is sent matters under which id "Connected" was shown.
Click ==
  /\ Len(ui) < MaxClicks
  /\ forwarding # "never"
  /\ ui' = Append(ui, IF connected THEN my_id ELSE Nobody)
  /\ UNCHANGED <<stage, first, reconnect_state, session, broken, reading, inbox, forwarding,
                 app_state, history>>

\* The forward and write tasks take what was sent to the socket of the first session; when
\* writing fails they go on.
Forward ==
  /\ forwarding = "running"
  /\ ui # <<>> /\ ui' = Tail(ui)
  /\ UNCHANGED <<stage, first, reconnect_state, session, broken, reading, inbox, forwarding,
                 app_state, history>>

Next ==
  \/ Dial
  \/ GiveUp
  \/ DialFails
  \/ DialSucceeds
  \/ Greet
  \/ GreetFails
  \/ \E s \in Sessions :
       \/ Break(s)
       \/ ReadMessage(s)
       \/ ReadOverlong(s)
       \/ ReadEnds(s)
  \/ HandleMessage
  \/ Click
  \/ Forward

Spec == Init /\ [][Next]_vars

\* The runtime runs the network task, whose every wait has a limit, and the read tasks;
\* the interface draws frames.
FairSpec ==
  /\ Spec
  /\ WF_vars(Dial) /\ WF_vars(GiveUp)
  /\ WF_vars(DialFails \/ DialSucceeds) /\ WF_vars(Greet \/ GreetFails)
  /\ \A s \in Sessions : WF_vars(ReadEnds(s))
  /\ WF_vars(HandleMessage)

-----------------------------------------------------------------------------
(* Properties.                                                             *)

Messages ==
  [type : {"PlayerIdConfirmed", "PlayerConnected", "PlayerDisconnected", "Disconnected"},
   id : Ids \cup {Nobody}]

TypeOK ==
  /\ stage \in {"retrying", "dialling", "greeting", "serving", "ended"}
  /\ first \in BOOLEAN /\ connected \in BOOLEAN
  /\ attempt \in 0..MaxAttempts /\ delay_ms \in InitialDelay..MaxDelay
  /\ session \in 0..MaxSessions
  /\ {broken, reading, overlong, mistaken} \subseteq SUBSET (1..session)
  /\ inbox \in Seq(Messages)
  /\ ui \in Seq(Ids \cup {Nobody})
  /\ forwarding \in {"to come", "running", "never"}
  /\ my_id \in Ids \cup {Nobody}

\* The read tasks of earlier sessions are never aborted, and yet at most one session is read,
\* the last, and none while the client reconnects: messages of two never mix, and a connection
\* that is there is not left for another.  So it is until a player's leaving is taken for this
\* one's, which overtakes Connected and meets an id of before: that session is left, and read.
OneReader ==
  mistaken = {} =>
    /\ reading \subseteq {session}
    /\ stage \in {"retrying", "dialling", "greeting"} => reading = {}

\* InitialDelay * 2^n: the delay after n attempts in a row, were there no limit to it.
Doubled[n \in 0..MaxAttempts] == IF n = 0 THEN InitialDelay ELSE 2 * Doubled[n-1]

\* next_attempt and reset, which several tasks call, keep the count and the delay in step:
\* the n-th attempt in a row waits the n-th delay.
DelaysDouble == delay_ms = Min({Doubled[attempt], MaxDelay})

\* The interface is about to learn that the session has ended.
DisconnectionKnown == \E i \in DOMAIN inbox : inbox[i].type = "Disconnected"

\* A reconnected session that got too large a message: open, and no longer read.
Deaf(s) == s > 1 /\ s \in overlong

\* "Connected" is shown under the id of the last session, which is read unless the interface
\* is about to learn that it is not; or it has gone deaf, which nobody reports.  It may be
\* shown under another's once a leaving was mistaken and two sessions are read.
StatusIsTrue ==
  connected /\ mistaken = {} =>
    my_id = session /\ (session \in reading \/ DisconnectionKnown \/ Deaf(session))

\* What the player sends while "Connected" is shown goes to the first session.  It reaches the
\* server there under the id the server gave that session: a later one is shown only when the
\* first has been left, because its connection ended, because of too large a message, or
\* because a leaving was mistaken for this player's.
ClicksAreOwn ==
  \A i \in DOMAIN ui :
    ui[i] \in {1, Nobody} \/ 1 \in broken \cup overlong \cup mistaken

\* A session that ends is followed by another, or all attempts are used up; but one that is
\* deaf is not missed.
Recovers ==
  \A s \in Sessions :
    session = s /\ s \in broken ~>
      session > s \/ (stage = "ended" /\ attempt = MaxAttempts) \/ Deaf(s)
=============================================================================
