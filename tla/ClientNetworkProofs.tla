------------------------ MODULE ClientNetworkProofs ------------------------
(***************************************************************************)
(* What holds of any number of sessions, attempts and messages: one        *)
(* session is read at a time, the status shown is the true one, and what   *)
(* the player sends is not taken for somebody else's; until a message that *)
(* overtakes Connected makes the client leave a session that is still read.*)
(***************************************************************************)
EXTENDS ClientNetwork, ChipMathProofs

\* Which types the argument needs; before the first session the server has said nothing.
Types ==
  /\ stage \in {"retrying", "dialling", "greeting", "serving", "ended"}
  /\ first \in BOOLEAN /\ connected \in BOOLEAN
  /\ session \in 0..MaxSessions
  /\ broken \subseteq 1..session /\ reading \subseteq 1..session
  /\ overlong \subseteq 1..session /\ mistaken \subseteq 1..session
  /\ inbox \in Seq(Messages)
  /\ session = 0 => \A i \in DOMAIN inbox : inbox[i].type = "Disconnected"
  /\ ui \in Seq(Ids \cup {Nobody})
  /\ my_id \in Ids \cup {Nobody}

\* While it connects nobody reads and nothing waits; a disconnection is the last word.
Calm ==
  /\ reading \subseteq {session}
  /\ stage # "serving" => reading = {}
  /\ stage \in {"retrying", "dialling", "greeting"} => inbox = <<>>
  /\ \A i \in DOMAIN inbox :
       inbox[i].type = "Disconnected" => i = Len(inbox) /\ reading = {}
  /\ stage = "serving" =>
       1 <= session /\ (session \in reading \/ DisconnectionKnown \/ Deaf(session))
  /\ stage = "greeting" => 1 <= session

\* Ids: what the server confirms is the last session, and it is served.
Named ==
  /\ connected => my_id = session /\ stage = "serving"
  /\ \A i \in DOMAIN inbox :
       inbox[i].type = "PlayerIdConfirmed" => inbox[i].id = session /\ stage = "serving"

\* The first session is over, for this reason or that.
FirstOver == 1 \in broken \cup overlong \cup mistaken

\* What is shown and sent before that is the first session's.
Over ==
  /\ mistaken # {} => FirstOver
  /\ session > 1 => FirstOver
  /\ session = 1 /\ (stage \in {"retrying", "dialling", "ended"} \/ DisconnectionKnown) => FirstOver
  /\ \A i \in DOMAIN ui : ui[i] \in {1, Nobody} \/ FirstOver

IInv == Types /\ (mistaken = {} => Calm /\ Named) /\ Over

-----------------------------------------------------------------------------
(* Facts of the values.                                                    *)

LEMMA Bounds ==
  /\ MaxSessions \in Nat /\ Others \cap Int = {} /\ Nobody \notin Ids
  /\ \A n \in 1..MaxSessions : n \in Ids /\ n # Nobody /\ n \notin Others
BY ClientAssumption DEF Ids, Sessions

LEMMA Longer ==
  ASSUME NEW M, NEW q \in Seq(M), NEW m \in M
  PROVE  /\ Append(q, m) \in Seq(M) /\ Len(q) \in Nat
         /\ DOMAIN q = 1..Len(q) /\ DOMAIN Append(q, m) = 1..(Len(q) + 1)
         /\ Len(Append(q, m)) = Len(q) + 1
         /\ \A i \in 1..Len(q) : Append(q, m)[i] = q[i]
         /\ Append(q, m)[Len(q) + 1] = m
OBVIOUS

LEMMA Shorter ==
  ASSUME NEW M, NEW q \in Seq(M), q # <<>>
  PROVE  /\ Tail(q) \in Seq(M) /\ Head(q) = q[1] /\ q[1] \in M
         /\ Len(q) \in Nat \ {0} /\ DOMAIN q = 1..Len(q) /\ DOMAIN Tail(q) = 1..(Len(q) - 1)
         /\ Len(Tail(q)) = Len(q) - 1
         /\ \A i \in 1..(Len(q) - 1) : Tail(q)[i] = q[i + 1]
OBVIOUS

\* What is over stays over, and nothing else is claimed of what follows.
LEMMA OverStays ==
  ASSUME FirstOver, broken \subseteq broken', overlong \subseteq overlong', mistaken \subseteq mistaken'
  PROVE  Over'
BY DEF FirstOver, Over

\* As long as the first session is not over, it is the only one and nothing was mistaken.
LEMMA NotOver ==
  ASSUME IInv, ~FirstOver
  PROVE  /\ mistaken = {} /\ Calm /\ Named /\ session \in {0, 1}
         /\ \A i \in DOMAIN ui : ui[i] \in {1, Nobody}
         /\ session = 1 => stage \in {"greeting", "serving"} /\ ~DisconnectionKnown
BY DEF IInv, Over, Types

\* One session is read, and it is the last.
LEMMA Reader ==
  ASSUME Types, Calm, NEW s \in reading
  PROVE  s = session /\ stage = "serving" /\ 1 <= session /\ session \in 1..MaxSessions
         /\ \A i \in DOMAIN inbox : inbox[i].type # "Disconnected"
BY DEF Types, Calm

LEMMA DisconnectedIs ==
  Disconnected \in Messages /\ Disconnected.type = "Disconnected"
BY DEF Disconnected, Messages

-----------------------------------------------------------------------------
(* Each action keeps the invariant.                                        *)

LEMMA DialStep ==
  ASSUME IInv, Dial \/ DialFails
  PROVE  IInv'
<1>1. /\ stage \in {"retrying", "dialling"} /\ stage' \in {"retrying", "dialling"}
      /\ UNCHANGED <<first, session, broken, reading, inbox, ui, connected, my_id, overlong, mistaken>>
  BY DEF Dial, DialFails, channels, app_state, history
<1>2. Types'
  BY <1>1 DEF IInv, Types
<1>3. ASSUME mistaken = {}
      PROVE  Calm' /\ Named'
  <2>1. Calm /\ Named /\ inbox = <<>> /\ reading = {} /\ connected = FALSE
    BY <1>1, <1>3 DEF IInv, Types, Calm, Named
  <2> QED BY <1>1, <2>1 DEF Calm, Named
<1>4. Over'
  BY <1>1 DEF IInv, Over, FirstOver, DisconnectionKnown
<1> QED BY <1>1, <1>2, <1>3, <1>4 DEF IInv

LEMMA SucceedStep ==
  ASSUME IInv, DialSucceeds
  PROVE  IInv'
<1>1. /\ stage = "dialling" /\ stage' = "greeting" /\ session < MaxSessions /\ session' = session + 1
      /\ UNCHANGED <<first, broken, reading, inbox, ui, connected, my_id, overlong, mistaken>>
  BY DEF DialSucceeds, channels, app_state, history
<1>2. Types'
  BY <1>1, Bounds DEF IInv, Types
<1>3. ASSUME mistaken = {}
      PROVE  Calm' /\ Named'
  <2>1. Types /\ Calm /\ Named /\ inbox = <<>> /\ reading = {} /\ connected = FALSE
    BY <1>1, <1>3 DEF IInv, Types, Calm, Named
  <2> QED BY <1>1, <2>1 DEF Types, Calm, Named
<1>4. Over'
  <2>1. CASE FirstOver
    BY <1>1, <2>1, OverStays
  <2>2. CASE ~FirstOver
    <3>1. session = 0 /\ mistaken = {} /\ inbox = <<>> /\ \A i \in DOMAIN ui : ui[i] \in {1, Nobody}
      BY <1>1, <2>2, NotOver DEF Calm
    <3>2. ~DisconnectionKnown'
      BY <1>1, <3>1 DEF DisconnectionKnown
    <3> QED BY <1>1, <3>1, <3>2 DEF Over
  <2> QED BY <2>1, <2>2
<1> QED BY <1>1, <1>2, <1>3, <1>4 DEF IInv

LEMMA GreetStep ==
  ASSUME IInv, Greet
  PROVE  IInv'
<1>1. /\ stage = "greeting" /\ stage' = "serving" /\ reading' = reading \cup {session}
      /\ UNCHANGED <<first, session, broken, inbox, ui, connected, my_id, overlong, mistaken>>
  BY DEF Greet, app_state, history
<1>2. ASSUME mistaken = {}
      PROVE  Calm' /\ Named'
  <2>1. Types /\ Calm /\ Named /\ inbox = <<>> /\ connected = FALSE
    BY <1>1, <1>2 DEF IInv, Types, Calm, Named
  <2> QED BY <1>1, <2>1 DEF Types, Calm, Named, DisconnectionKnown, Deaf
<1>3. session \in 1..session
  <2>1. session \in Nat /\ mistaken \subseteq 1..session
    BY DEF IInv, Types
  <2>2. CASE mistaken = {}
    BY <1>1, <2>1, <2>2 DEF IInv, Calm
  <2>3. CASE mistaken # {}
    <3>1. PICK t \in mistaken : t \in 1..session
      BY <2>1, <2>3
    <3> QED BY <2>1, <3>1
  <2> QED BY <2>2, <2>3
<1>4. Types'
  <2>1. Types /\ reading' \subseteq 1..session
    BY <1>1, <1>3 DEF IInv, Types
  <2> QED BY <1>1, <2>1 DEF Types
<1>5. Over'
  BY <1>1 DEF IInv, Over, FirstOver, DisconnectionKnown
<1> QED BY <1>1, <1>2, <1>4, <1>5 DEF IInv

\* What ends before it serves may report it, and then nothing else is waiting.
LEMMA EndStep ==
  ASSUME IInv, GiveUp \/ GreetFails
  PROVE  IInv'
<1>1. /\ stage \in {"retrying", "greeting"} /\ stage' = "ended"
      /\ stage = "greeting" => session \in broken
      /\ inbox' \in {inbox, Append(inbox, Disconnected)}
      /\ UNCHANGED <<first, session, broken, reading, ui, connected, my_id, overlong, mistaken>>
  BY DEF GiveUp, GreetFails, Report, app_state, history
<1>2. /\ Append(inbox, Disconnected) \in Seq(Messages) /\ DOMAIN inbox = 1..Len(inbox)
      /\ Len(inbox) \in Nat /\ DOMAIN Append(inbox, Disconnected) = 1..(Len(inbox) + 1)
      /\ \A i \in 1..Len(inbox) : Append(inbox, Disconnected)[i] = inbox[i]
      /\ Append(inbox, Disconnected)[Len(inbox) + 1] = Disconnected
  BY DisconnectedIs, Longer DEF IInv, Types
<1>3. Types'
  <2>1. inbox' \in Seq(Messages)
    BY <1>1, <1>2 DEF IInv, Types
  <2>2. session' = 0 => \A i \in DOMAIN inbox' : inbox'[i].type = "Disconnected"
    <3>1. CASE inbox' = inbox
      BY <1>1, <3>1 DEF IInv, Types
    <3>2. CASE inbox' = Append(inbox, Disconnected)
      BY <1>1, <1>2, <3>2, DisconnectedIs DEF IInv, Types
    <3> QED BY <1>1, <3>1, <3>2
  <2> QED BY <1>1, <2>1, <2>2 DEF IInv, Types
<1>4. ASSUME mistaken = {}
      PROVE  Calm' /\ Named'
  <2>1. inbox = <<>> /\ reading = {} /\ connected = FALSE
    BY <1>1, <1>4 DEF IInv, Types, Calm, Named
  <2>2. \A i \in DOMAIN inbox' : i = Len(inbox') /\ inbox'[i].type = "Disconnected"
    <3>1. CASE inbox' = <<>>
      BY <3>1
    <3>2. CASE inbox' = <<Disconnected>>
      BY <3>2, DisconnectedIs
    <3> QED BY <1>1, <2>1, <3>1, <3>2
  <2> QED BY <1>1, <2>1, <2>2 DEF Calm, Named
<1>5. Over'
  <2>1. CASE FirstOver
    BY <1>1, <2>1, OverStays
  <2>2. CASE ~FirstOver
    <3>1. session = 0 /\ mistaken = {} /\ \A i \in DOMAIN ui : ui[i] \in {1, Nobody}
      BY <1>1, <2>2, NotOver DEF FirstOver
    <3> QED BY <1>1, <3>1 DEF Over
  <2> QED BY <2>1, <2>2
<1> QED BY <1>1, <1>3, <1>4, <1>5 DEF IInv

LEMMA BreakStep ==
  ASSUME IInv, NEW s \in Sessions, Break(s)
  PROVE  IInv'
<1>1. /\ s \in 1..session /\ broken' = broken \cup {s}
      /\ UNCHANGED <<stage, first, session, reading, inbox, ui, connected, my_id, overlong, mistaken>>
  BY DEF Break, channels, app_state, history, IInv, Types, Sessions
<1>2. Types'
  BY <1>1 DEF IInv, Types
<1>3. mistaken = {} => Calm' /\ Named'
  BY <1>1 DEF IInv, Calm, Named, DisconnectionKnown, Deaf
<1>4. Over'
  BY <1>1 DEF IInv, Over, FirstOver, DisconnectionKnown
<1> QED BY <1>1, <1>2, <1>3, <1>4 DEF IInv

LEMMA OverlongStep ==
  ASSUME IInv, NEW s \in Sessions, ReadOverlong(s) \/ ReadEnds(s)
  PROVE  IInv'
<1>1. /\ s \in reading /\ reading' = reading \ {s} /\ overlong' \in {overlong, overlong \cup {s}}
      /\ inbox' = Append(inbox, Disconnected) \/ (inbox' = inbox /\ s # 1 /\ s \in overlong')
      /\ s \in overlong' \/ s \in broken
      /\ UNCHANGED <<stage, first, session, broken, ui, connected, my_id, mistaken>>
  BY DEF ReadOverlong, ReadEnds, app_state, history
<1>2. /\ Append(inbox, Disconnected) \in Seq(Messages) /\ Len(inbox) \in Nat
      /\ DOMAIN inbox = 1..Len(inbox) /\ DOMAIN Append(inbox, Disconnected) = 1..(Len(inbox) + 1)
      /\ Len(Append(inbox, Disconnected)) = Len(inbox) + 1
      /\ \A i \in 1..Len(inbox) : Append(inbox, Disconnected)[i] = inbox[i]
      /\ Append(inbox, Disconnected)[Len(inbox) + 1] = Disconnected
  BY DisconnectedIs, Longer DEF IInv, Types
<1>3. s \in 1..session /\ session # 0
  BY <1>1 DEF IInv, Types
<1>4. Types'
  BY <1>1, <1>2, <1>3 DEF IInv, Types
<1>5. ASSUME mistaken = {}
      PROVE  Calm' /\ Named'
  <2>1. /\ s = session /\ stage = "serving" /\ 1 <= session /\ session \in 1..MaxSessions
        /\ \A i \in DOMAIN inbox : inbox[i].type # "Disconnected"
    BY <1>1, <1>5, Reader DEF IInv
  <2>2. reading' = {}
    BY <1>1, <1>5, <2>1 DEF IInv, Calm
  <2>3. Calm'
    BY <1>1, <1>2, <2>1, <2>2, DisconnectedIs DEF Calm, DisconnectionKnown, Deaf
  <2>4. \A i \in DOMAIN inbox' :
          inbox'[i].type # "Disconnected" => i \in DOMAIN inbox /\ inbox'[i] = inbox[i]
    BY <1>1, <1>2, DisconnectedIs
  <2>5. Named'
    BY <1>1, <1>5, <2>4 DEF IInv, Named
  <2> QED BY <2>3, <2>5
<1>6. Over'
  <2>1. CASE FirstOver
    BY <1>1, <2>1, OverStays
  <2>2. CASE ~FirstOver
    <3>1. s = 1 /\ mistaken = {}
      BY <1>3, <2>2, NotOver
    <3>2. FirstOver'
      BY <1>1, <3>1 DEF FirstOver
    <3> QED BY <3>2 DEF Over
  <2> QED BY <2>1, <2>2
<1> QED BY <1>1, <1>4, <1>5, <1>6 DEF IInv

LEMMA MessageRead ==
  ASSUME IInv, NEW s \in Sessions, ReadMessage(s)
  PROVE  IInv'
<1>1. PICK m \in Sent(s) : inbox' = Append(inbox, m)
  BY DEF ReadMessage
<1>2. /\ s \in reading
      /\ UNCHANGED <<stage, first, session, broken, reading, ui, connected, my_id, overlong, mistaken>>
  BY DEF ReadMessage, app_state, history
<1>3. s \in 1..session /\ session # 0 /\ session \in 1..MaxSessions
  BY <1>2, Bounds DEF IInv, Types
<1>4. \A t \in 1..session : t \in Ids
  BY <1>3, Bounds
<1>5. /\ m \in Messages /\ m.type # "Disconnected"
      /\ m.type = "PlayerIdConfirmed" => m.id = s
  <2>1. CASE m = [type |-> "PlayerIdConfirmed", id |-> s]
    BY <1>3, <1>4, <2>1 DEF Messages
  <2>2. CASE \E i \in Others \cup 1..session : m = [type |-> "PlayerConnected", id |-> i]
    BY <1>4, <2>2 DEF Messages, Ids
  <2>3. CASE \E i \in Others \cup (1..session \ {s}) : m = [type |-> "PlayerDisconnected", id |-> i]
    BY <1>4, <2>3 DEF Messages, Ids
  <2> QED BY <2>1, <2>2, <2>3 DEF Sent
<1>6. /\ inbox' \in Seq(Messages) /\ Len(inbox) \in Nat
      /\ DOMAIN inbox = 1..Len(inbox) /\ DOMAIN inbox' = 1..(Len(inbox) + 1)
      /\ \A i \in 1..Len(inbox) : inbox'[i] = inbox[i]
      /\ inbox'[Len(inbox) + 1] = m
  BY <1>1, <1>5, Longer DEF IInv, Types
<1>7. Types'
  BY <1>2, <1>3, <1>6 DEF IInv, Types
<1>8. ASSUME mistaken = {}
      PROVE  Calm' /\ Named' /\ ~DisconnectionKnown'
  <2>1. /\ s = session /\ stage = "serving" /\ 1 <= session
        /\ \A i \in DOMAIN inbox : inbox[i].type # "Disconnected"
    BY <1>2, <1>8, Reader DEF IInv
  <2>2. \A i \in DOMAIN inbox' : inbox'[i].type # "Disconnected"
    BY <1>5, <1>6, <2>1
  <2>3. Calm'
    BY <1>2, <1>8, <2>1, <2>2 DEF IInv, Calm
  <2>4. Named'
    BY <1>2, <1>5, <1>6, <1>8, <2>1 DEF IInv, Named
  <2> QED BY <2>2, <2>3, <2>4 DEF DisconnectionKnown
<1>9. Over'
  <2>1. CASE FirstOver
    BY <1>2, <2>1, OverStays
  <2>2. CASE ~FirstOver
    BY <1>2, <1>8, <2>2, NotOver DEF Over
  <2> QED BY <2>1, <2>2
<1> QED BY <1>2, <1>7, <1>8, <1>9 DEF IInv

\* The interface takes the first message: what the rest says is as true as before, unless the
\* message was mistaken.
LEMMA HandleStep ==
  ASSUME IInv, HandleMessage
  PROVE  IInv'
<1> DEFINE m == Head(inbox)
<1>1. /\ inbox # <<>> /\ inbox' = Tail(inbox)
      /\ UNCHANGED <<session, broken, reading, ui, overlong>>
  BY DEF HandleMessage
<1>2. inbox \in Seq(Messages) /\ Types /\ Over
  BY DEF IInv, Types
<1>3. /\ inbox' \in Seq(Messages) /\ m = inbox[1] /\ m \in Messages
      /\ Len(inbox) \in Nat \ {0} /\ DOMAIN inbox = 1..Len(inbox)
      /\ DOMAIN inbox' = 1..(Len(inbox) - 1) /\ Len(inbox') = Len(inbox) - 1
      /\ \A i \in 1..(Len(inbox) - 1) : inbox'[i] = inbox[i + 1]
  BY <1>1, <1>2, Shorter
<1>4. m.id \in Ids \cup {Nobody}
  BY <1>3 DEF Messages
<1>5. DisconnectionKnown' => DisconnectionKnown
  BY <1>3 DEF DisconnectionKnown
<1>6. ASSUME my_id' \in Ids \cup {Nobody}, connected' \in BOOLEAN, mistaken' \subseteq 1..session,
             stage' \in {stage, "retrying"}, first' \in BOOLEAN
      PROVE  Types'
  <2>1. session' = 0 => \A i \in DOMAIN inbox' : inbox'[i].type = "Disconnected"
    BY <1>1, <1>2, <1>3 DEF Types
  <2> QED BY <1>1, <1>2, <1>3, <1>6, <2>1 DEF Types
<1>7. CASE HandleDisconnected(m)
  <2>1. /\ m.type = "Disconnected" /\ connected' = FALSE /\ stage' = "retrying" /\ first' = FALSE
        /\ my_id' = my_id /\ mistaken' = mistaken
    BY <1>7 DEF HandleDisconnected, Trigger
  <2>2. Types'
    BY <1>2, <1>6, <2>1 DEF Types
  <2>3. ASSUME mistaken = {}
        PROVE  Calm' /\ Named'
    <3>1. Len(inbox) = 1 /\ reading = {}
      BY <1>3, <2>1, <2>3 DEF IInv, Calm
    <3>2. inbox' = <<>>
      BY <1>3, <3>1
    <3> QED BY <1>1, <2>1, <3>1, <3>2 DEF Calm, Named
  <2>4. Over'
    <3>1. DisconnectionKnown
      BY <1>3, <2>1 DEF DisconnectionKnown
    <3> QED BY <1>1, <1>2, <2>1, <3>1 DEF Over, FirstOver
  <2> QED BY <2>1, <2>2, <2>3, <2>4 DEF IInv
<1>8. ASSUME m.type # "Disconnected", UNCHANGED <<stage, first, mistaken>>,
             my_id' \in Ids \cup {Nobody}, connected' \in BOOLEAN,
             mistaken = {} => (connected' => my_id' = session /\ stage = "serving")
      PROVE  IInv'
  <2>1. Types'
    BY <1>2, <1>6, <1>8 DEF Types
  <2>2. ASSUME mistaken = {}
        PROVE  Calm' /\ Named'
    <3>1. Calm /\ Named
      BY <2>2 DEF IInv
    <3>2. stage \in {"serving", "ended"}
      BY <1>1, <1>2, <3>1 DEF Types, Calm
    <3>3. ASSUME DisconnectionKnown
          PROVE  DisconnectionKnown'
      <4>1. PICK i \in DOMAIN inbox : inbox[i].type = "Disconnected"
        BY <3>3 DEF DisconnectionKnown
      <4>2. i # 1
        BY <1>3, <1>8, <4>1
      <4>3. i - 1 \in DOMAIN inbox' /\ inbox'[i - 1] = inbox[i]
        BY <1>3, <4>1, <4>2
      <4> QED BY <4>1, <4>3 DEF DisconnectionKnown
    <3>4. \A i \in DOMAIN inbox' :
            inbox'[i].type = "Disconnected" => i = Len(inbox') /\ reading = {}
      BY <1>3, <3>1 DEF Calm
    <3>5. Calm'
      BY <1>1, <1>8, <3>1, <3>2, <3>3, <3>4 DEF Calm, Deaf
    <3>6. Named'
      BY <1>1, <1>3, <1>8, <2>2, <3>1 DEF Named
    <3> QED BY <3>5, <3>6
  <2>3. Over'
    BY <1>1, <1>2, <1>5, <1>8 DEF Over, FirstOver
  <2> QED BY <1>8, <2>1, <2>2, <2>3 DEF IInv
<1>9. CASE HandleConfirmed(m)
  <2>1. /\ m.type = "PlayerIdConfirmed" /\ connected' = TRUE /\ my_id' = m.id
        /\ UNCHANGED <<stage, first, mistaken>>
    BY <1>9 DEF HandleConfirmed, Stay
  <2>2. mistaken = {} => m.id = session /\ stage = "serving"
    BY <1>3, <2>1 DEF IInv, Named
  <2> QED BY <1>4, <1>8, <2>1, <2>2
<1>10. CASE HandlePlayerConnected(m)
  <2>1. /\ m.type = "PlayerConnected" /\ my_id' = IF my_id = Nobody THEN m.id ELSE my_id
        /\ UNCHANGED <<stage, first, connected, mistaken>>
    BY <1>10 DEF HandlePlayerConnected, Stay
  <2>2. my_id \in Ids \cup {Nobody} /\ connected \in BOOLEAN
    BY <1>2 DEF Types
  <2>3. ASSUME mistaken = {}, connected
        PROVE  my_id = session /\ stage = "serving" /\ session # Nobody
    <3>1. my_id = session /\ stage = "serving" /\ session \in 1..MaxSessions
      BY <1>2, <2>3 DEF IInv, Types, Calm, Named
    <3> QED BY <3>1, Bounds
  <2> QED BY <1>4, <1>8, <2>1, <2>2, <2>3
<1>11. CASE HandlePlayerDisconnected(m)
  <2>1. m.type = "PlayerDisconnected" /\ my_id' = my_id
    BY <1>11 DEF HandlePlayerDisconnected
  <2>2. my_id \in Ids \cup {Nobody} /\ connected \in BOOLEAN /\ mistaken \subseteq 1..session
    BY <1>2 DEF Types
  <2>3. CASE m.id # my_id
    <3>1. UNCHANGED <<stage, first, connected, mistaken>>
      BY <1>11, <2>3 DEF HandlePlayerDisconnected, Stay
    <3>2. mistaken = {} => (connected => my_id = session /\ stage = "serving")
      BY DEF IInv, Named
    <3> QED BY <1>8, <2>1, <2>2, <3>1, <3>2
  <2>4. CASE m.id = my_id
    <3>1. /\ connected' = FALSE /\ stage' = "retrying" /\ first' = FALSE
          /\ mistaken' = mistaken \cup {session}
      BY <1>11, <2>4 DEF HandlePlayerDisconnected, Trigger
    <3>2. session \in 1..session
      <4>1. session # 0
        BY <1>2, <1>3, <2>1 DEF Types
      <4> QED BY <1>2, <4>1 DEF Types
    <3>3. Types'
      BY <1>6, <2>1, <2>2, <3>1, <3>2
    <3>4. Over'
      <4>1. CASE FirstOver
        BY <1>1, <3>1, <4>1, OverStays
      <4>2. CASE ~FirstOver
        <5>1. session = 1
          BY <3>2, <4>2, NotOver
        <5>2. FirstOver'
          BY <3>1, <5>1 DEF FirstOver
        <5> QED BY <5>2 DEF Over
      <4> QED BY <4>1, <4>2
    <3> QED BY <3>1, <3>3, <3>4 DEF IInv
  <2> QED BY <2>3, <2>4
<1> QED BY <1>7, <1>9, <1>10, <1>11 DEF HandleMessage

LEMMA ClickStep ==
  ASSUME IInv, Click \/ Forward
  PROVE  IInv'
<1>1. UNCHANGED <<stage, first, session, broken, reading, inbox, connected, my_id, overlong, mistaken>>
  BY DEF Click, Forward, app_state, history
<1>2. mistaken' = {} => Calm' /\ Named'
  BY <1>1 DEF IInv, Calm, Named, DisconnectionKnown, Deaf
<1> DEFINE c == IF connected THEN my_id ELSE Nobody
<1>3. ui \in Seq(Ids \cup {Nobody}) /\ c \in Ids \cup {Nobody}
  BY DEF IInv, Types
<1>4. \A i \in DOMAIN ui : ui[i] \in {1, Nobody} \/ FirstOver
  BY DEF IInv, Over
<1>5. c \in {1, Nobody} \/ FirstOver
  <2>1. ASSUME ~FirstOver, connected
        PROVE  my_id = 1
    <3>1. my_id = session /\ session \in {0, 1} /\ stage = "serving" /\ Calm
      BY <2>1, NotOver DEF Named
    <3> QED BY <3>1 DEF Calm
  <2> QED BY <2>1
<1> HIDE DEF c
<1>6. ui' \in Seq(Ids \cup {Nobody}) /\ \A i \in DOMAIN ui' : ui'[i] \in {1, Nobody} \/ FirstOver
  <2>1. CASE Click
    <3>1. ui' = Append(ui, c)
      BY <2>1 DEF Click, c
    <3>2. /\ Append(ui, c) \in Seq(Ids \cup {Nobody}) /\ Len(ui) \in Nat
          /\ DOMAIN ui = 1..Len(ui) /\ DOMAIN Append(ui, c) = 1..(Len(ui) + 1)
          /\ \A i \in 1..Len(ui) : Append(ui, c)[i] = ui[i]
          /\ Append(ui, c)[Len(ui) + 1] = c
      BY <1>3, Longer
    <3> QED BY <1>4, <1>5, <3>1, <3>2
  <2>2. CASE Forward
    <3>1. ui # <<>> /\ ui' = Tail(ui)
      BY <2>2 DEF Forward
    <3>2. /\ Tail(ui) \in Seq(Ids \cup {Nobody}) /\ DOMAIN ui = 1..Len(ui) /\ Len(ui) \in Nat
          /\ DOMAIN Tail(ui) = 1..(Len(ui) - 1)
          /\ \A i \in 1..(Len(ui) - 1) : Tail(ui)[i] = ui[i + 1]
      BY <1>3, <3>1, Shorter
    <3> QED BY <1>4, <3>1, <3>2
  <2> QED BY <2>1, <2>2
<1>7. Types'
  BY <1>1, <1>6 DEF IInv, Types
<1>8. Over'
  BY <1>1, <1>6 DEF IInv, Over, FirstOver, DisconnectionKnown
<1> QED BY <1>2, <1>7, <1>8 DEF IInv

-----------------------------------------------------------------------------
(* The theorems.                                                           *)

LEMMA Always == Spec => []IInv
<1>1. Init => IInv
  <2> SUFFICES ASSUME Init PROVE IInv
    OBVIOUS
  <2>1. <<>> \in Seq(Messages) /\ <<>> \in Seq(Ids \cup {Nobody})
    OBVIOUS
  <2>2. /\ stage = "retrying" /\ first = TRUE /\ connected = FALSE /\ session = 0 /\ my_id = Nobody
        /\ broken = {} /\ reading = {} /\ overlong = {} /\ mistaken = {} /\ inbox = <<>> /\ ui = <<>>
    BY DEF Init
  <2>3. DOMAIN inbox = {} /\ DOMAIN ui = {}
    BY <2>2
  <2>4. Types
    <3>1. 0 \in 0..MaxSessions
      BY Bounds
    <3>2. session \in 0..MaxSessions
      BY <2>2, <3>1
    <3> QED BY <2>1, <2>2, <2>3, <3>2 DEF Types
  <2>5. Calm
    BY <2>2, <2>3 DEF Calm
  <2>6. Named
    BY <2>2, <2>3 DEF Named
  <2>7. Over
    BY <2>2, <2>3 DEF Over
  <2> QED BY <2>4, <2>5, <2>6, <2>7 DEF IInv
<1>2. IInv /\ [Next]_vars => IInv'
  <2> SUFFICES ASSUME IInv, [Next]_vars PROVE IInv'
    OBVIOUS
  <2>1. CASE UNCHANGED vars
    BY <2>1 DEF vars, IInv, Types, Calm, Named, Over, FirstOver, DisconnectionKnown, Deaf,
                channels, app_state, history
  <2> QED BY <2>1, DialStep, SucceedStep, GreetStep, EndStep, BreakStep, OverlongStep, MessageRead,
             HandleStep, ClickStep DEF Next
<1> QED BY <1>1, <1>2, PTL DEF Spec

\* The count of attempts and the delay stay within their limits.
Counters ==
  /\ attempt \in 0..MaxAttempts /\ delay_ms \in InitialDelay..MaxDelay
  /\ forwarding \in {"to come", "running", "never"}

LEMMA Delays ==
  /\ MaxAttempts \in Nat /\ InitialDelay \in Nat /\ MaxDelay \in Nat /\ InitialDelay <= MaxDelay
  /\ 0 \in 0..MaxAttempts /\ InitialDelay \in InitialDelay..MaxDelay
<1>1. MaxAttempts \in Nat /\ InitialDelay \in Nat /\ MaxDelay \in Nat /\ InitialDelay <= MaxDelay
  BY ClientAssumption
<1> QED BY <1>1

LEMMA CountersKept ==
  ASSUME Counters, Next
  PROVE  Counters'
<1>1. CASE Dial
  <2>1. /\ MaxAttempts \in Nat /\ InitialDelay \in Nat /\ MaxDelay \in Nat /\ InitialDelay <= MaxDelay
        /\ attempt \in Nat /\ delay_ms \in Nat /\ InitialDelay <= delay_ms
    <3>1. /\ MaxAttempts \in Nat /\ InitialDelay \in Nat /\ MaxDelay \in Nat
          /\ InitialDelay <= MaxDelay
      BY Delays
    <3>2. attempt \in 0..MaxAttempts /\ delay_ms \in InitialDelay..MaxDelay
      BY DEF Counters
    <3> QED BY <3>1, <3>2
  <2> DEFINE twice == delay_ms * 2
  <2>2. twice \in Int /\ MaxDelay \in Int /\ twice >= delay_ms
    BY <2>1
  <2>3. delay_ms' = Min({twice, MaxDelay})
    BY <1>1 DEF Dial
  <2>4. Min({twice, MaxDelay}) \in InitialDelay..MaxDelay
    <3> HIDE DEF twice
    <3>1. /\ Min({twice, MaxDelay}) <= MaxDelay
          /\ (Min({twice, MaxDelay}) = twice \/ Min({twice, MaxDelay}) = MaxDelay)
      BY <2>2, MinPair, Zenon
    <3> QED BY <2>1, <2>2, <3>1
  <2>5. attempt' \in 0..MaxAttempts
    BY <1>1, <2>1 DEF Dial
  <2> QED BY <1>1, <2>3, <2>4, <2>5 DEF Dial, Counters, channels
<1>2. CASE DialSucceeds
  BY <1>2, Delays DEF DialSucceeds, Reset, Counters, channels
<1>3. CASE ~Dial /\ ~DialSucceeds
  <2>1. UNCHANGED reconnect_state
    BY <1>3 DEF Next, GiveUp, DialFails, Greet, GreetFails, Break, ReadMessage, ReadOverlong, ReadEnds,
                HandleMessage, Click, Forward
  <2>2. forwarding' \in {forwarding, "running", "never"}
    BY <1>3 DEF Next, GiveUp, DialFails, Greet, GreetFails, Report, Break, ReadMessage, ReadOverlong,
                ReadEnds, HandleMessage, Click, Forward, channels
  <2> QED BY <2>1, <2>2 DEF Counters, reconnect_state
<1> QED BY <1>1, <1>2, <1>3

\* Everything is of its declared type; attempts and delays do not outgrow their limits.
THEOREM TypeCorrect == Spec => []TypeOK
<1>1. Init => Counters
  BY Delays DEF Init, Counters
<1>2. Counters /\ [Next]_vars => Counters'
  <2> SUFFICES ASSUME Counters, [Next]_vars PROVE Counters'
    OBVIOUS
  <2>1. CASE UNCHANGED vars
    BY <2>1 DEF vars, Counters, reconnect_state, channels
  <2> QED BY <2>1, CountersKept
<1>3. IInv /\ Counters => TypeOK
  <2> SUFFICES ASSUME IInv, Counters PROVE TypeOK
    OBVIOUS
  <2>1. Types
    BY DEF IInv
  <2> QED BY <2>1 DEF Types, Counters, TypeOK
<1> QED BY <1>1, <1>2, <1>3, Always, PTL DEF Spec

-----------------------------------------------------------------------------
(* Attempts and delays.                                                    *)

\* Doubled starts at InitialDelay and doubles from each attempt to the next.
LEMMA DoubledIs ==
  /\ Doubled[0] = InitialDelay
  /\ \A n \in 1..MaxAttempts : Doubled[n] = 2 * Doubled[n-1]
  /\ \A n \in 0..MaxAttempts : Doubled[n] \in Nat
<1> DEFINE step == [n \in 1..MaxAttempts |-> [q \in Nat |-> 2 * q]]
           Doubling(h) == [n \in 0..MaxAttempts |->
                             IF n = 0 THEN InitialDelay ELSE 2 * h[n-1]]
           d == CHOOSE h : h = Doubling(h)
<1>1. Doubled = d
  BY DEF Doubled
<1>2. MaxAttempts \in Nat /\ InitialDelay \in Nat /\ step \in [1..MaxAttempts -> [Nat -> Nat]]
  BY Delays
<1>3. PICK g \in [0..MaxAttempts -> Nat] : Recursion(g, MaxAttempts, InitialDelay, step)
  <2> HIDE DEF step
  <2> QED BY <1>2, RecursionExists, Zenon
<1>4. g = Doubling(g)
  <2>1. ASSUME NEW n \in 0..MaxAttempts PROVE g[n] = Doubling(g)[n]
    <3>1. CASE n = 0
      BY <3>1, <1>3 DEF Recursion
    <3>2. CASE n # 0
      <4>1. n \in 1..MaxAttempts /\ g[n-1] \in Nat
        BY <1>2, <3>2
      <4> QED BY <4>1, <3>2, <1>3 DEF Recursion
    <3> QED BY <3>1, <3>2
  <2> QED BY <2>1
<1>5. d = Doubling(d)
  <2> HIDE DEF Doubling
  <2> QED BY <1>4
<1> HIDE DEF d
<1>6. d[0] = InitialDelay /\ \A n \in 1..MaxAttempts : d[n] = 2 * d[n-1]
  <2>1. Doubling(d)[0] = InitialDelay
    BY <1>2
  <2>2. ASSUME NEW n \in 1..MaxAttempts PROVE Doubling(d)[n] = 2 * d[n-1]
    <3>1. n \in 0..MaxAttempts /\ n # 0
      BY <1>2
    <3> QED BY <3>1
  <2>3. \A n \in 0..MaxAttempts : d[n] = Doubling(d)[n]
    BY <1>5, Zenon
  <2>4. 0 \in 0..MaxAttempts /\ \A n \in 1..MaxAttempts : n \in 0..MaxAttempts
    BY <1>2
  <2> HIDE DEF Doubling
  <2> QED BY <2>1, <2>2, <2>3, <2>4
<1>7. \A n \in 0..MaxAttempts : d[n] \in Nat
  <2> DEFINE T == {n \in 0..MaxAttempts : d[n] \in Nat}
  <2>1. 0 \in T
    BY <1>2, <1>6
  <2>2. ASSUME NEW n \in 1..MaxAttempts, n - 1 \in T PROVE n \in T
    <3>1. d[n] = 2 * d[n-1] /\ d[n-1] \in Nat /\ n \in 0..MaxAttempts
      BY <1>2, <1>6, <2>2
    <3>2. d[n] \in Nat
      BY <3>1
    <3> QED BY <3>1, <3>2
  <2>3. \A n \in 0..MaxAttempts : n \in T
    <3> HIDE DEF T
    <3> QED BY <1>2, <2>1, <2>2, IndexInduction
  <2> QED BY <2>3
<1> QED BY <1>1, <1>6, <1>7

\* Doubling what is cut off at a limit, and cutting again, is cutting what is doubled.
LEMMA CutTwice ==
  ASSUME NEW a \in Nat, NEW limit \in Nat
  PROVE  Min({Min({a, limit}) * 2, limit}) = Min({2 * a, limit})
<1> DEFINE cut == Min({a, limit})
           twice == cut * 2
           double == 2 * a
<1>1. a \in Int /\ limit \in Int
  OBVIOUS
<1>2. cut \in Int /\ cut <= a /\ cut <= limit /\ (cut = a \/ cut = limit)
  BY <1>1, MinPair, Zenon
<1> HIDE DEF cut
<1>3. twice \in Int /\ double \in Int
  BY <1>2
<1> HIDE DEF twice, double
<1>4. /\ Min({twice, limit}) <= twice /\ Min({twice, limit}) <= limit
      /\ Min({twice, limit}) = twice \/ Min({twice, limit}) = limit
      /\ Min({twice, limit}) \in Int
  BY <1>1, <1>3, MinPair, Zenon
<1>5. /\ Min({double, limit}) <= double /\ Min({double, limit}) <= limit
      /\ Min({double, limit}) = double \/ Min({double, limit}) = limit
      /\ Min({double, limit}) \in Int
  BY <1>1, <1>3, MinPair, Zenon
<1> DEFINE x == Min({twice, limit})
           y == Min({double, limit})
<1>6. x = y
  <2>1. twice = cut * 2 /\ double = 2 * a
    BY DEF twice, double
  <2>2. x \in Int /\ x <= twice /\ x <= limit /\ (x = twice \/ x = limit)
    BY <1>4
  <2>3. y \in Int /\ y <= double /\ y <= limit /\ (y = double \/ y = limit)
    BY <1>5
  <2> HIDE DEF x, y
  <2> QED BY <1>2, <1>3, <2>1, <2>2, <2>3
<1> QED BY <1>6 DEF cut, twice, double

\* The first delay is within the limit.
LEMMA FirstDelay == InitialDelay = Min({Doubled[0], MaxDelay})
<1>1. InitialDelay \in Nat /\ MaxDelay \in Nat /\ InitialDelay <= MaxDelay
  BY Delays
<1>2. InitialDelay \in Int /\ MaxDelay \in Int
  BY <1>1
<1> DEFINE least == Min({InitialDelay, MaxDelay})
<1>3. least \in Int /\ least <= InitialDelay /\ (least = InitialDelay \/ least = MaxDelay)
  BY <1>2, MinPair, Zenon
<1>4. Doubled[0] = InitialDelay
  BY DoubledIs
<1> HIDE DEF least
<1>5. least = InitialDelay
  BY <1>1, <1>3
<1> QED BY <1>4, <1>5 DEF least

LEMMA DelayKept ==
  ASSUME Counters, DelaysDouble, Next
  PROVE  DelaysDouble'
<1>0. MaxAttempts \in Nat /\ InitialDelay \in Nat /\ MaxDelay \in Nat /\ InitialDelay <= MaxDelay
  BY Delays
<1>1. CASE Dial
  <2>1. attempt + 1 \in 1..MaxAttempts /\ attempt \in 0..MaxAttempts
    <3>1. attempt < MaxAttempts
      BY <1>1 DEF Dial
    <3>2. attempt \in 0..MaxAttempts
      BY DEF Counters
    <3> QED BY <1>0, <3>1, <3>2
  <2>2. attempt' = attempt + 1 /\ delay_ms' = Min({delay_ms * 2, MaxDelay})
    BY <1>1 DEF Dial
  <2>3. delay_ms = Min({Doubled[attempt], MaxDelay})
    BY DEF DelaysDouble
  <2>4. Doubled[attempt] \in Nat
    BY <2>1, DoubledIs
  <2>5. delay_ms' = Min({2 * Doubled[attempt], MaxDelay})
    BY <1>0, <2>2, <2>3, <2>4, CutTwice
  <2>6. Doubled[attempt'] = 2 * Doubled[attempt]
    <3>1. Doubled[attempt + 1] = 2 * Doubled[(attempt + 1) - 1]
      BY <2>1, DoubledIs
    <3>2. (attempt + 1) - 1 = attempt
      BY <2>1
    <3> QED BY <2>2, <3>1, <3>2
  <2> QED BY <2>5, <2>6 DEF DelaysDouble
<1>2. CASE DialSucceeds
  BY <1>2, FirstDelay DEF DialSucceeds, Reset, DelaysDouble
<1>3. CASE ~Dial /\ ~DialSucceeds
  <2>1. UNCHANGED reconnect_state
    BY <1>3 DEF Next, GiveUp, DialFails, Greet, GreetFails, Break, ReadMessage, ReadOverlong, ReadEnds,
                HandleMessage, Click, Forward
  <2> QED BY <2>1 DEF DelaysDouble, reconnect_state
<1> QED BY <1>1, <1>2, <1>3

\* However attempts fail, succeed and start again, in whichever task, the delay is the one
\* of the attempt.
THEOREM DelaysDoubleAlways == Spec => []DelaysDouble
<1>1. Init => Counters /\ DelaysDouble
  BY Delays, FirstDelay DEF Init, Counters, DelaysDouble
<1>2. Counters /\ DelaysDouble /\ [Next]_vars => (Counters /\ DelaysDouble)'
  <2> SUFFICES ASSUME Counters, DelaysDouble, [Next]_vars PROVE Counters' /\ DelaysDouble'
    OBVIOUS
  <2>1. CASE UNCHANGED vars
    BY <2>1 DEF vars, Counters, DelaysDouble, reconnect_state, channels
  <2> QED BY <2>1, CountersKept, DelayKept
<1> QED BY <1>1, <1>2, PTL DEF Spec

-----------------------------------------------------------------------------
(* Sessions.                                                               *)

\* However sessions come and end, one at most is read, until a leaving is mistaken.
THEOREM OneReaderAlways == Spec => []OneReader
<1>1. IInv => OneReader
  BY DEF IInv, Calm, OneReader
<1> QED BY <1>1, Always, PTL

\* The interface shows the true status, or will, or is deaf, until a leaving is mistaken.
THEOREM StatusIsTrueAlways == Spec => []StatusIsTrue
<1>1. IInv => StatusIsTrue
  BY DEF IInv, Calm, Named, StatusIsTrue
<1> QED BY <1>1, Always, PTL

\* While the first session has not ended, got too large a message or been left by mistake,
\* what the player sends as connected carries its id.
THEOREM ClicksAreOwnAlways == Spec => []ClicksAreOwn
<1>1. IInv => ClicksAreOwn
  BY DEF IInv, Over, FirstOver, ClicksAreOwn
<1> QED BY <1>1, Always, PTL
=============================================================================
