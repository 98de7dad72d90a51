------------------------- MODULE PokerServerProofs -------------------------
(***************************************************************************)
(* What holds of any number of connections, addresses and seats: the       *)
(* counts, the sessions, the seats and the limits.                         *)
(***************************************************************************)
EXTENDS PokerServer, ChipMathProofs, FiniteSetTheorems

LEMMA Limits ==
  /\ MaxConnections \in Nat /\ MaxPerAddress \in Nat /\ MaxSeats \in Nat
  /\ IsFiniteSet(Connections)
BY ServerAssumption

\* A set of connections is finite, and its size a natural.
LEMMA Sizes ==
  ASSUME NEW U, U \subseteq Connections
  PROVE  IsFiniteSet(U) /\ Cardinality(U) \in Nat
BY Limits, FS_Subset, FS_CardinalityType

LEMMA SizeMonotone ==
  ASSUME NEW V, V \subseteq Connections, NEW U, U \subseteq V
  PROVE  Cardinality(U) <= Cardinality(V)
BY Sizes, FS_Subset

\* One connection more is one more to count.
LEMMA SizeWith ==
  ASSUME NEW U, U \subseteq Connections, NEW c \in Connections
  PROVE  Cardinality(U \cup {c}) = IF c \in U THEN Cardinality(U) ELSE Cardinality(U) + 1
BY Sizes, FS_AddElement

\* One connection less is one less to count, and saturating at nought hides nothing.
LEMMA SizeWithout ==
  ASSUME NEW U, U \subseteq Connections, NEW c \in U
  PROVE  Cardinality(U \ {c}) = Max({0, Cardinality(U) - 1})
<1>1. IsFiniteSet(U) /\ Cardinality(U) \in Nat
  BY Sizes
<1>2. Cardinality(U \ {c}) = Cardinality(U) - 1
  BY <1>1, FS_RemoveElement
<1>3. Cardinality(U \ {c}) \in Nat
  BY Sizes
<1> DEFINE k == Cardinality(U) - 1
           z == 0
<1>4. k \in Int /\ z \in Int /\ z <= k
  BY <1>1, <1>2, <1>3
<1>5. Max({z, k}) = k
  <2> HIDE DEF k, z
  <2>1. Max({z, k}) \in Int /\ Max({z, k}) >= k /\ (Max({z, k}) = z \/ Max({z, k}) = k)
    BY <1>4, MaxPair, Zenon
  <2> QED BY <2>1, <1>4
<1> QED BY <1>2, <1>5

\* Disjoint parts add up to no less than the whole.
LEMMA SizeOfParts ==
  ASSUME NEW U, U \subseteq Connections, NEW V
  PROVE  Cardinality(U) <= Cardinality(U \cap V) + Cardinality(U \ V)
<1>1. IsFiniteSet(U \cap V) /\ IsFiniteSet(U \ V)
  BY Sizes
<1>2. (U \cap V) \cup (U \ V) = U /\ (U \cap V) \cap (U \ V) = {}
  OBVIOUS
<1>3. Cardinality(U) = Cardinality(U \cap V) + Cardinality(U \ V) - Cardinality({})
  BY <1>1, <1>2, FS_Union
<1> QED BY <1>1, <1>3, FS_EmptySet, FS_CardinalityType

-----------------------------------------------------------------------------
(* Types.                                                                  *)

SetsType ==
  /\ connected \subseteq Connections /\ senders \subseteq Connections
  /\ player_sessions \subseteq Connections /\ seats \subseteq Connections
  /\ sitting_out \subseteq Connections /\ raced \subseteq Connections

CountsType == connection_count \in Nat /\ ip_connections \in [Addresses -> Nat]

LEMMA TypeParts ==
  /\ TypeOK <=>
       (/\ should_shutdown \in BOOLEAN
        /\ main \in {"checking", "accepting", "draining", "down"}
        /\ phase \in [Connections -> Phases] /\ address \in [Connections -> Addresses]
        /\ lock \in Connections \cup {Nobody} /\ CountsType /\ SetsType)
  /\ TypeOK' <=>
       (/\ should_shutdown' \in BOOLEAN
        /\ main' \in {"checking", "accepting", "draining", "down"}
        /\ phase' \in [Connections -> Phases] /\ address' \in [Connections -> Addresses]
        /\ lock' \in Connections \cup {Nobody} /\ CountsType' /\ SetsType')
BY DEF TypeOK, CountsType, SetsType

\* Steps of a connection's task, all of them.
Step(c) ==
  \/ Accept(c) \/ TurnAway(c) \/ Start(c) \/ Admit(c) \/ Register(c) \/ HandshakeFails(c) \/ Enter(c)
  \/ HandleMessage(c) \/ ReadLoopEnds(c) \/ CleanUp(c)

MainStep == Signal \/ CheckFlag \/ AcceptFails \/ Exit

LEMMA NextSteps == Next <=> MainStep \/ \E c \in Connections : Step(c)
BY DEF Next, MainStep, Step

\* A step moves one connection; nobody changes address.
LEMMA StepMoves ==
  ASSUME NEW c \in Connections, Step(c), phase \in [Connections -> Phases]
  PROVE  /\ phase' \in [Connections -> Phases] /\ address' = address
         /\ \A d \in Connections : d # c => phase'[d] = phase[d]
BY DEF Step, Accept, TurnAway, Start, Admit, Register, HandshakeFails, Enter, HandleMessage, HandleConnect,
       HandleReconnect, HandleAction, HandleSitOut, HandleReturn, Granted, Refused, ReadLoopEnds,
       CleanUp, Move, Phases

\* The main task touches no connection.
LEMMA MainMoves ==
  ASSUME MainStep
  PROVE  UNCHANGED <<phase, address, lock, counts, players, player_sessions, table, raced>>
BY DEF MainStep, Signal, CheckFlag, AcceptFails, Exit

\* Requests are made on open connections, touch no count and at most open a session.
LEMMA RequestMoves ==
  ASSUME NEW c \in Connections, HandleMessage(c), phase \in [Connections -> Phases]
  PROVE  /\ phase[c] = "open" /\ phase'[c] \in {"open", "stuck"}
         /\ UNCHANGED <<process, counts, senders, raced>>
         /\ lock' \in {Nobody, c}
         /\ connected' \in {connected, connected \cup {c}}
         /\ player_sessions' \in {player_sessions, player_sessions \cup {c}}
         /\ seats' \in {seats, seats \cup {c}} /\ sitting_out' \subseteq sitting_out \cup seats
BY DEF HandleMessage, HandleConnect, HandleReconnect, HandleAction, HandleSitOut, HandleReturn,
       Granted, Refused, Locked, Move, process, counts, players, table, Phases

\* Saturating at nought leaves a natural.
LEMMA OneLess ==
  ASSUME NEW n \in Nat
  PROVE  Max({0, n - 1}) \in Nat
<1> DEFINE k == n - 1
           z == 0
<1>1. k \in Int /\ z \in Int
  OBVIOUS
<1>2. Max({z, k}) \in Nat
  <2> HIDE DEF k
  <2>1. Max({z, k}) \in Int /\ Max({z, k}) >= z
    <3> HIDE DEF z
    <3> QED BY <1>1, MaxPair, Zenon
  <2> QED BY <2>1
<1> QED BY <1>2

LEMMA TypeStep ==
  ASSUME TypeOK, NEW c \in Connections, Step(c)
  PROVE  TypeOK'
<1>1. /\ should_shutdown \in BOOLEAN /\ main \in {"checking", "accepting", "draining", "down"}
      /\ phase \in [Connections -> Phases] /\ address \in [Connections -> Addresses]
      /\ lock \in Connections \cup {Nobody} /\ CountsType /\ SetsType
  BY TypeParts
<1>2. phase' \in [Connections -> Phases] /\ address' \in [Connections -> Addresses]
  BY <1>1, StepMoves
<1>3. CASE HandleMessage(c)
  <2>1. /\ UNCHANGED <<process, counts, senders, raced>>
        /\ lock' \in {Nobody, c}
        /\ connected' \in {connected, connected \cup {c}}
        /\ player_sessions' \in {player_sessions, player_sessions \cup {c}}
        /\ seats' \in {seats, seats \cup {c}} /\ sitting_out' \subseteq sitting_out \cup seats
    BY <1>1, <1>3, RequestMoves
  <2>2. CountsType' /\ SetsType'
    BY <1>1, <2>1 DEF CountsType, SetsType, counts
  <2> QED BY <1>1, <1>2, <2>1, <2>2, TypeParts DEF process
<1>4. CASE Accept(c) \/ TurnAway(c) \/ Start(c) \/ HandshakeFails(c) \/ ReadLoopEnds(c)
  BY <1>1, <1>2, <1>4, TypeParts
     DEF Accept, TurnAway, Start, HandshakeFails, ReadLoopEnds, Move, CountsType, SetsType, counts,
         players, table, process
<1>5. CASE Admit(c) \/ Enter(c)
  BY <1>1, <1>2, <1>5, TypeParts
     DEF Admit, Enter, Move, Locked, CountsType, SetsType, counts, players, table, process
<1>6. CASE Register(c)
  <2>1. CountsType'
    BY <1>1, <1>6 DEF Register, CountsType
  <2> QED BY <1>1, <1>2, <1>6, <2>1, TypeParts
          DEF Register, Move, Locked, SetsType, players, table, process
<1>7. CASE CleanUp(c)
  <2>1. connection_count \in Nat /\ ip_connections \in [Addresses -> Nat] /\ address[c] \in Addresses
    BY <1>1 DEF CountsType
  <2>2. ip_connections[address[c]] \in Nat
    BY <2>1
  <2>3. Max({0, connection_count - 1}) \in Nat /\ Max({0, ip_connections[address[c]] - 1}) \in Nat
    BY <2>1, <2>2, OneLess
  <2>4. CountsType'
    BY <1>7, <2>1, <2>3 DEF CleanUp, Unregister, CountsType
  <2> QED BY <1>1, <1>2, <1>7, <2>4, TypeParts
          DEF CleanUp, Disconnect, Move, Locked, SetsType, table, process
<1> QED BY <1>3, <1>4, <1>5, <1>6, <1>7 DEF Step

LEMMA TypeMain ==
  ASSUME TypeOK, MainStep
  PROVE  TypeOK'
BY TypeParts DEF MainStep, Signal, CheckFlag, AcceptFails, Exit, counts, players, table, CountsType,
                 SetsType

\* What the process and its connections are is of the declared types.
THEOREM TypeCorrect == Spec => []TypeOK
<1>1. Init => TypeOK
  <2> SUFFICES ASSUME Init PROVE TypeOK
    OBVIOUS
  <2>1. CountsType /\ SetsType
    BY DEF Init, CountsType, SetsType
  <2> QED BY <2>1, TypeParts DEF Init, Phases
<1>2. TypeOK /\ [Next]_vars => TypeOK'
  <2> SUFFICES ASSUME TypeOK, [Next]_vars PROVE TypeOK'
    OBVIOUS
  <2>1. CASE UNCHANGED vars
    BY <2>1, TypeParts DEF vars, process, counts, players, table, CountsType, SetsType
  <2> QED BY <2>1, NextSteps, TypeStep, TypeMain
<1> QED BY <1>1, <1>2, PTL DEF Spec

-----------------------------------------------------------------------------
(* Counts.                                                                 *)

\* The counts are those of the connections that were registered and not cleaned up.
CountsMatch ==
  /\ connection_count = Cardinality(Counted)
  /\ \A a \in Addresses : ip_connections[a] = Cardinality({c \in Counted : address[c] = a})

\* Registering counts a connection, cleaning up discounts it, and nothing else matters.
LEMMA CountedMoves ==
  ASSUME TypeOK, NEW c \in Connections, Step(c)
  PROVE  \/ Counted' = Counted /\ UNCHANGED counts
         \/ Register(c) /\ c \notin Counted /\ Counted' = Counted \cup {c}
         \/ CleanUp(c) /\ c \in Counted /\ Counted' = Counted \ {c}
<1>1. phase \in [Connections -> Phases]
  BY TypeParts
<1>2. \A d \in Connections : d # c => phase'[d] = phase[d]
  BY <1>1, StepMoves
<1>3. CASE HandleMessage(c)
  <2>1. phase[c] = "open" /\ phase'[c] \in {"open", "stuck"} /\ UNCHANGED counts
    BY <1>1, <1>3, RequestMoves
  <2> QED BY <1>2, <2>1 DEF Counted, Live, Failed
<1>4. CASE Accept(c) \/ TurnAway(c) \/ Start(c) \/ HandshakeFails(c) \/ ReadLoopEnds(c)
  <2>1. UNCHANGED counts
    BY <1>4 DEF Accept, TurnAway, Start, HandshakeFails, ReadLoopEnds
  <2>2. \/ phase[c] \in {"new", "spawned"} /\ phase'[c] \in {"spawned", "checked", "rejected"}
        \/ phase[c] \in {"counted", "open"} /\ phase'[c] \in {"failed", "closing"}
    BY <1>1, <1>4 DEF Accept, TurnAway, Start, HandshakeFails, ReadLoopEnds, Move
  <2> QED BY <1>2, <2>1, <2>2 DEF Counted, Live, Failed
<1>5. CASE Admit(c) \/ Enter(c)
  <2>1. UNCHANGED counts
    BY <1>5 DEF Admit, Enter
  <2>2. \/ phase[c] = "checked" /\ phase'[c] \in {"admitted", "rejected"}
        \/ phase[c] = "counted" /\ phase'[c] = "open"
    BY <1>1, <1>5 DEF Admit, Enter, Move
  <2> QED BY <1>2, <2>1, <2>2 DEF Counted, Live, Failed
<1>6. CASE Register(c)
  <2>1. phase[c] = "admitted" /\ phase'[c] = "counted"
    BY <1>1, <1>6 DEF Register, Move
  <2> QED BY <1>2, <1>6, <2>1 DEF Counted, Live, Failed
<1>7. CASE CleanUp(c)
  <2>1. phase[c] = "closing" /\ phase'[c] = "gone"
    BY <1>1, <1>7 DEF CleanUp, Move
  <2> QED BY <1>2, <1>7, <2>1 DEF Counted, Live, Failed
<1> QED BY <1>3, <1>4, <1>5, <1>6, <1>7 DEF Step

\* The connections counted for an address.
From(a) == {c \in Counted : address[c] = a}

LEMMA CountsParts ==
  /\ CountsMatch <=> /\ connection_count = Cardinality(Counted)
                     /\ \A a \in Addresses : ip_connections[a] = Cardinality(From(a))
  /\ CountsMatch' <=> /\ connection_count' = Cardinality(Counted')
                      /\ \A a \in Addresses : ip_connections'[a] = Cardinality(From(a)')
BY DEF CountsMatch, From

LEMMA CountsStep ==
  ASSUME TypeOK, CountsMatch, NEW c \in Connections, Step(c)
  PROVE  CountsMatch'
<1>1. /\ phase \in [Connections -> Phases] /\ address \in [Connections -> Addresses]
      /\ connection_count \in Nat /\ ip_connections \in [Addresses -> Nat]
  BY TypeParts DEF CountsType
<1>2. address' = address
  BY <1>1, StepMoves
<1>3. /\ connection_count = Cardinality(Counted)
      /\ \A a \in Addresses : ip_connections[a] = Cardinality(From(a))
  BY CountsParts
<1>4. Counted \subseteq Connections /\ \A a \in Addresses : From(a) \subseteq Connections
  BY DEF Counted, Live, Failed, From
<1>5. CASE Counted' = Counted /\ UNCHANGED counts
  <2>1. \A a \in Addresses : From(a)' = From(a)
    BY <1>2, <1>5 DEF From
  <2> QED BY <1>3, <1>5, <2>1, CountsParts DEF counts
<1>6. CASE Register(c) /\ c \notin Counted /\ Counted' = Counted \cup {c}
  <2>1. connection_count' = Cardinality(Counted')
    BY <1>3, <1>4, <1>6, SizeWith DEF Register
  <2>2. ASSUME NEW a \in Addresses
        PROVE  ip_connections'[a] = Cardinality(From(a)')
    <3>1. CASE a = address[c]
      <4>1. From(a)' = From(a) \cup {c} /\ c \notin From(a)
        BY <1>2, <1>6, <3>1 DEF From
      <4>2. Cardinality(From(a) \cup {c}) = Cardinality(From(a)) + 1
        BY <1>4, <4>1, SizeWith
      <4>3. ip_connections'[a] = ip_connections[a] + 1
        BY <1>1, <1>6, <3>1 DEF Register
      <4> QED BY <1>3, <4>1, <4>2, <4>3
    <3>2. CASE a # address[c]
      <4>1. From(a)' = From(a)
        BY <1>2, <1>6, <3>2 DEF From
      <4>2. ip_connections'[a] = ip_connections[a]
        BY <1>1, <1>6, <3>2 DEF Register
      <4> QED BY <1>3, <4>1, <4>2
    <3> QED BY <3>1, <3>2
  <2> QED BY <2>1, <2>2, CountsParts
<1>7. CASE CleanUp(c) /\ c \in Counted /\ Counted' = Counted \ {c}
  <2>1. connection_count' = Cardinality(Counted')
    <3>1. Cardinality(Counted \ {c}) = Max({0, Cardinality(Counted) - 1})
      BY <1>4, <1>7, SizeWithout
    <3>2. connection_count' = Max({0, connection_count - 1})
      BY <1>7 DEF CleanUp, Unregister
    <3> QED BY <1>3, <1>7, <3>1, <3>2
  <2>2. ASSUME NEW a \in Addresses
        PROVE  ip_connections'[a] = Cardinality(From(a)')
    <3>1. CASE a = address[c]
      <4>1. From(a)' = From(a) \ {c} /\ c \in From(a)
        BY <1>2, <1>7, <3>1 DEF From
      <4>2. Cardinality(From(a) \ {c}) = Max({0, Cardinality(From(a)) - 1})
        BY <1>4, <4>1, SizeWithout
      <4>3. ip_connections'[a] = Max({0, ip_connections[a] - 1})
        BY <1>1, <1>7, <3>1 DEF CleanUp, Unregister
      <4> QED BY <1>3, <4>1, <4>2, <4>3
    <3>2. CASE a # address[c]
      <4>1. From(a)' = From(a)
        BY <1>2, <1>7, <3>2 DEF From
      <4>2. ip_connections'[a] = ip_connections[a]
        BY <1>1, <1>7, <3>2 DEF CleanUp, Unregister
      <4> QED BY <1>3, <4>1, <4>2
    <3> QED BY <3>1, <3>2
  <2> QED BY <2>1, <2>2, CountsParts
<1> QED BY <1>5, <1>6, <1>7, CountedMoves

LEMMA CountsStart ==
  ASSUME Init
  PROVE  CountsMatch
<1>1. Counted = {} /\ \A a \in Addresses : From(a) = {}
  BY DEF Init, Counted, Live, Failed, From
<1>2. Cardinality({}) = 0
  BY FS_EmptySet
<1> QED BY <1>1, <1>2, CountsParts DEF Init

LEMMA CountsRest ==
  ASSUME CountsMatch, UNCHANGED <<phase, address, counts>>
  PROVE  CountsMatch'
BY DEF CountsMatch, Counted, Live, Failed, counts

LEMMA CountsMatchAlways == Spec => []CountsMatch
<1>1. Init => CountsMatch
  BY CountsStart
<1>2. TypeOK /\ CountsMatch /\ [Next]_vars => CountsMatch'
  <2> SUFFICES ASSUME TypeOK, CountsMatch, [Next]_vars PROVE CountsMatch'
    OBVIOUS
  <2>1. CASE UNCHANGED vars
    BY <2>1, CountsRest DEF vars
  <2>2. CASE MainStep
    BY <2>2, MainMoves, CountsRest
  <2> QED BY <2>1, <2>2, NextSteps, CountsStep
<1> QED BY <1>1, <1>2, TypeCorrect, PTL DEF Spec

\* Of two sets without a common member, the sizes add up.
LEMMA SizeOfBoth ==
  ASSUME NEW U, U \subseteq Connections, NEW V, V \subseteq Connections, U \cap V = {}
  PROVE  Cardinality(U \cup V) = Cardinality(U) + Cardinality(V)
<1>1. IsFiniteSet(U) /\ IsFiniteSet(V) /\ Cardinality(U) \in Nat /\ Cardinality(V) \in Nat
  BY Sizes
<1>2. Cardinality(U \cup V) = Cardinality(U) + Cardinality(V) - Cardinality(U \cap V)
  BY <1>1, FS_Union
<1>3. Cardinality(U \cap V) = 0
  BY FS_EmptySet
<1> QED BY <1>1, <1>2, <1>3

\* However connections come and go, the places taken are those of the connections there are,
\* and one for each handshake that failed.
THEOREM CountsAreRight == Spec => []OnlyFailedHandshakesLeak
<1>1. CountsMatch => OnlyFailedHandshakesLeak
  <2> SUFFICES ASSUME CountsMatch PROVE OnlyFailedHandshakesLeak
    OBVIOUS
  <2>1. /\ Live \subseteq Connections /\ Failed \subseteq Connections /\ Live \cap Failed = {}
        /\ Counted = Live \cup Failed
    BY DEF Live, Failed, Counted
  <2>2. connection_count = Cardinality(Live) + Cardinality(Failed)
    BY <2>1, SizeOfBoth DEF CountsMatch
  <2>3. ASSUME NEW a \in Addresses
        PROVE  ip_connections[a] = Cardinality({c \in Live : address[c] = a})
                                     + Cardinality({c \in Failed : address[c] = a})
    <3> DEFINE U == {c \in Live : address[c] = a}
               V == {c \in Failed : address[c] = a}
    <3>1. U \subseteq Connections /\ V \subseteq Connections /\ U \cap V = {}
      BY <2>1
    <3>2. {c \in Counted : address[c] = a} = U \cup V
      BY <2>1
    <3>3. ip_connections[a] = Cardinality({c \in Counted : address[c] = a})
      BY DEF CountsMatch
    <3>4. Cardinality(U \cup V) = Cardinality(U) + Cardinality(V)
      <4> HIDE DEF U, V
      <4> QED BY <3>1, SizeOfBoth
    <3> QED BY <3>2, <3>3, <3>4
  <2> QED BY <2>2, <2>3 DEF OnlyFailedHandshakesLeak
<1> QED BY <1>1, CountsMatchAlways, PTL

-----------------------------------------------------------------------------
(* Sessions and seats.                                                     *)

Entered == {c \in Connections : phase[c] \in {"open", "stuck", "closing"}}

\* Who can be written to is who has entered and was not cleaned up; the seats the table
\* has are not exceeded, and only a full table leaves a session without a seat.
Seated ==
  /\ connected = senders /\ senders = Entered /\ player_sessions \subseteq senders
  /\ Cardinality(seats) <= MaxSeats
  /\ player_sessions \subseteq seats \/ Cardinality(seats) = MaxSeats

LEMMA RequestSeats ==
  ASSUME TypeOK, Seated, NEW c \in Connections, HandleMessage(c)
  PROVE  Seated'
<1>1. phase \in [Connections -> Phases] /\ SetsType
  BY TypeParts
<1>2. \A d \in Connections : d # c => phase'[d] = phase[d]
  BY <1>1, StepMoves DEF Step
<1>3. /\ phase[c] = "open" /\ phase'[c] \in {"open", "stuck"}
      /\ UNCHANGED senders
      /\ connected' \in {connected, connected \cup {c}}
      /\ player_sessions' \in {player_sessions, player_sessions \cup {c}}
  BY <1>1, RequestMoves
<1>4. Entered' = Entered /\ c \in Entered
  BY <1>2, <1>3 DEF Entered
<1>5. connected' = senders' /\ senders' = Entered' /\ player_sessions' \subseteq senders'
  BY <1>3, <1>4 DEF Seated
<1>6. /\ Cardinality(seats') <= MaxSeats
      /\ player_sessions' \subseteq seats' \/ Cardinality(seats') = MaxSeats
  <2>1. CASE UNCHANGED <<player_sessions, seats>>
    BY <2>1 DEF Seated
  <2>2. CASE /\ player_sessions' = player_sessions \cup {c}
             /\ IF TableHasRoom THEN seats' = seats \cup {c} ELSE UNCHANGED seats
    <3>1. /\ Cardinality(seats) \in Nat /\ MaxSeats \in Nat
          /\ Cardinality(seats \cup {c}) =
               IF c \in seats THEN Cardinality(seats) ELSE Cardinality(seats) + 1
      BY <1>1, Sizes, SizeWith, Limits DEF SetsType
    <3>2. CASE TableHasRoom
      BY <2>2, <3>1, <3>2 DEF TableHasRoom, Seated
    <3>3. CASE ~TableHasRoom
      BY <2>2, <3>1, <3>3 DEF TableHasRoom, Seated
    <3> QED BY <3>2, <3>3
  <2> QED BY <2>1, <2>2 DEF HandleMessage, HandleConnect, HandleReconnect, HandleAction,
                            HandleSitOut, HandleReturn, table
<1> QED BY <1>5, <1>6 DEF Seated

LEMMA SeatedStep ==
  ASSUME TypeOK, Seated, NEW c \in Connections, Step(c)
  PROVE  Seated'
<1>1. phase \in [Connections -> Phases]
  BY TypeParts
<1>2. \A d \in Connections : d # c => phase'[d] = phase[d]
  BY <1>1, StepMoves
<1>3. CASE Accept(c) \/ TurnAway(c) \/ Start(c) \/ Admit(c) \/ Register(c) \/ HandshakeFails(c)
             \/ ReadLoopEnds(c)
  <2>1. UNCHANGED <<players, player_sessions, table>>
    BY <1>3 DEF Accept, TurnAway, Start, Admit, Register, HandshakeFails, ReadLoopEnds
  <2>2. \/ phase[c] \in {"new", "spawned", "checked", "admitted", "counted"}
           /\ phase'[c] \in {"spawned", "checked", "rejected", "admitted", "counted", "failed"}
        \/ phase[c] = "open" /\ phase'[c] = "closing"
    BY <1>1, <1>3
       DEF Accept, TurnAway, Start, Admit, Register, HandshakeFails, ReadLoopEnds, Move
  <2>3. Entered' = Entered
    BY <1>2, <2>2 DEF Entered
  <2> QED BY <2>1, <2>3 DEF Seated, players, table
<1>4. CASE Enter(c)
  <2>1. phase'[c] = "open"
    BY <1>1, <1>4 DEF Enter, Move
  <2>2. Entered' = Entered \cup {c}
    BY <1>2, <2>1 DEF Entered
  <2> QED BY <1>4, <2>2 DEF Enter, Seated, table
<1>5. CASE CleanUp(c)
  <2>1. phase'[c] = "gone"
    BY <1>1, <1>5 DEF CleanUp, Move
  <2>2. Entered' = Entered \ {c}
    BY <1>2, <2>1 DEF Entered
  <2> QED BY <1>5, <2>2 DEF CleanUp, Disconnect, Seated, table
<1> QED BY <1>3, <1>4, <1>5, RequestSeats DEF Step

LEMMA SeatedAlways == Spec => []Seated
<1>1. Init => Seated
  <2>1. Cardinality({}) = 0 /\ MaxSeats \in Nat
    BY FS_EmptySet, Limits
  <2> QED BY <2>1 DEF Init, Seated, Entered
<1>2. TypeOK /\ Seated /\ [Next]_vars => Seated'
  <2> SUFFICES ASSUME TypeOK, Seated, [Next]_vars PROVE Seated'
    OBVIOUS
  <2>1. CASE UNCHANGED <<phase, players, player_sessions, table>>
    BY <2>1 DEF Seated, Entered, players, table
  <2> QED BY <2>1, NextSteps, SeatedStep, MainMoves DEF vars
<1> QED BY <1>1, <1>2, TypeCorrect, PTL DEF Spec

\* Sessions, senders and connections go together, however requests and ends interleave.
THEOREM SessionsCanBeWrittenTo == Spec => []SessionsHaveSenders
<1>1. Seated => SessionsHaveSenders
  BY DEF Seated, Entered, SessionsHaveSenders
<1> QED BY <1>1, SeatedAlways, PTL

\* Only a full table leaves a session without a seat.
THEOREM SessionsGetSeats == Spec => []SessionsAreSeated
<1>1. Seated => SessionsAreSeated
  BY DEF Seated, SessionsAreSeated
<1> QED BY <1>1, SeatedAlways, PTL

-----------------------------------------------------------------------------
(* The limits.                                                             *)

\* Connections that hold or are about to hold a place, and were let in one at a time.
Orderly == (Counted \cup UnderWay) \ raced
OrderlyFrom(a) == {c \in Orderly : address[c] = a}

\* Those are within the limits.
WithinLimits ==
  /\ Cardinality(Orderly) <= MaxConnections
  /\ \A a \in Addresses : Cardinality(OrderlyFrom(a)) <= MaxPerAddress

\* Only an admission that meets no other adds to them.
LEMMA OrderlyMoves ==
  ASSUME TypeOK, NEW c \in Connections, Step(c)
  PROVE  \/ Orderly' \subseteq Orderly
         \/ UnderWay = {} /\ CanAccept(address[c]) /\ Orderly' \subseteq Orderly \cup {c}
<1>1. phase \in [Connections -> Phases]
  BY TypeParts
<1>2. \A d \in Connections : d # c => phase'[d] = phase[d]
  BY <1>1, StepMoves
<1>3. CASE HandleMessage(c)
  <2>1. phase[c] = "open" /\ phase'[c] \in {"open", "stuck"} /\ UNCHANGED raced
    BY <1>1, <1>3, RequestMoves
  <2> QED BY <1>2, <2>1 DEF Orderly, Counted, Live, Failed, UnderWay
<1>4. CASE Accept(c) \/ TurnAway(c) \/ Start(c) \/ Register(c) \/ HandshakeFails(c) \/ ReadLoopEnds(c)
             \/ Enter(c) \/ CleanUp(c)
  <2>1. UNCHANGED raced
    BY <1>4 DEF Accept, TurnAway, Start, Register, HandshakeFails, ReadLoopEnds, Enter, CleanUp
  <2>2. \/ phase'[c] \in {"spawned", "checked", "rejected", "gone"}
        \/ phase[c] \in {"admitted", "counted", "open"}
    BY <1>1, <1>4
       DEF Accept, TurnAway, Start, Register, HandshakeFails, ReadLoopEnds, Enter, CleanUp, Move
  <2> QED BY <1>2, <2>1, <2>2 DEF Orderly, Counted, Live, Failed, UnderWay
<1>5. CASE Admit(c)
  <2>1. raced \subseteq raced' /\ (UnderWay # {} => c \in raced')
    BY <1>5 DEF Admit
  <2>2. phase'[c] = IF CanAccept(address[c]) THEN "admitted" ELSE "rejected"
    BY <1>1, <1>5 DEF Admit, Move
  <2>3. CASE UnderWay = {} /\ CanAccept(address[c])
    BY <1>2, <2>1, <2>3 DEF Orderly, Counted, Live, Failed, UnderWay
  <2>4. CASE UnderWay # {}
    BY <1>2, <2>1, <2>4 DEF Orderly, Counted, Live, Failed, UnderWay
  <2>5. CASE ~CanAccept(address[c])
    BY <1>2, <2>1, <2>2, <2>5 DEF Orderly, Counted, Live, Failed, UnderWay
  <2> QED BY <2>3, <2>4, <2>5
<1> QED BY <1>3, <1>4, <1>5 DEF Step

LEMMA LimitsStep ==
  ASSUME TypeOK, CountsMatch, WithinLimits, NEW c \in Connections, Step(c)
  PROVE  WithinLimits'
<1>1. phase \in [Connections -> Phases] /\ address \in [Connections -> Addresses]
  BY TypeParts
<1>2. address' = address
  BY <1>1, StepMoves
<1>3. Orderly \subseteq Connections /\ Orderly' \subseteq Connections /\ Counted \subseteq Connections
  BY DEF Orderly, Counted, Live, Failed, UnderWay
<1>4. MaxConnections \in Nat /\ MaxPerAddress \in Nat
  BY Limits
<1>5. CASE Orderly' \subseteq Orderly
  <2>1. Cardinality(Orderly') <= Cardinality(Orderly)
    BY <1>3, <1>5, SizeMonotone
  <2>2. Cardinality(Orderly) \in Nat /\ Cardinality(Orderly') \in Nat
    BY <1>3, Sizes
  <2>3. ASSUME NEW a \in Addresses
        PROVE  Cardinality(OrderlyFrom(a)') <= MaxPerAddress
    <3>1. /\ OrderlyFrom(a)' \subseteq OrderlyFrom(a) /\ OrderlyFrom(a) \subseteq Connections
          /\ OrderlyFrom(a)' \subseteq Connections
      BY <1>2, <1>3, <1>5 DEF OrderlyFrom
    <3>2. Cardinality(OrderlyFrom(a)') <= Cardinality(OrderlyFrom(a))
      BY <3>1, SizeMonotone
    <3>3. Cardinality(OrderlyFrom(a)) \in Nat /\ Cardinality(OrderlyFrom(a)') \in Nat
      BY <3>1, Sizes
    <3>4. Cardinality(OrderlyFrom(a)) <= MaxPerAddress
      BY DEF WithinLimits
    <3> QED BY <1>4, <3>2, <3>3, <3>4
  <2> QED BY <1>4, <2>1, <2>2, <2>3 DEF WithinLimits
<1>6. CASE /\ UnderWay = {} /\ CanAccept(address[c])
           /\ Orderly' \subseteq Orderly \cup {c}
  <2>0. Orderly \subseteq Counted
    BY <1>6 DEF Orderly
  <2>1. /\ connection_count = Cardinality(Counted) /\ connection_count < MaxConnections
        /\ \A a \in Addresses : ip_connections[a] = Cardinality(From(a))
        /\ ip_connections[address[c]] < MaxPerAddress
    BY <1>6, CountsParts DEF CanAccept
  <2>2. Cardinality(Orderly') <= MaxConnections
    <3>1. /\ Cardinality(Counted) \in Nat /\ Cardinality(Orderly') \in Nat
          /\ Cardinality(Counted \cup {c}) \in Nat
      BY <1>3, Sizes
    <3>2. Cardinality(Counted \cup {c}) <= Cardinality(Counted) + 1
      BY <1>3, <3>1, SizeWith
    <3>3. Cardinality(Orderly') <= Cardinality(Counted \cup {c})
      BY <1>3, <1>6, <2>0, SizeMonotone
    <3> QED BY <1>4, <2>1, <3>1, <3>2, <3>3
  <2>3. ASSUME NEW a \in Addresses
        PROVE  Cardinality(OrderlyFrom(a)') <= MaxPerAddress
    <3>1. /\ OrderlyFrom(a)' \subseteq Connections /\ From(a) \subseteq Connections
          /\ OrderlyFrom(a) \subseteq Connections
      BY <1>2, <1>3 DEF OrderlyFrom, From
    <3>2. /\ Cardinality(OrderlyFrom(a)') \in Nat /\ Cardinality(From(a)) \in Nat
          /\ Cardinality(From(a) \cup {c}) \in Nat /\ Cardinality(OrderlyFrom(a)) \in Nat
      BY <3>1, Sizes
    <3>3. CASE a = address[c]
      <4>1. OrderlyFrom(a)' \subseteq From(a) \cup {c}
        BY <1>2, <1>6, <2>0 DEF OrderlyFrom, From
      <4>2. Cardinality(OrderlyFrom(a)') <= Cardinality(From(a) \cup {c})
        BY <3>1, <4>1, SizeMonotone
      <4>3. Cardinality(From(a) \cup {c}) <= Cardinality(From(a)) + 1
        BY <3>1, <3>2, SizeWith
      <4> QED BY <1>4, <2>1, <3>2, <3>3, <4>2, <4>3
    <3>4. CASE a # address[c]
      <4>1. OrderlyFrom(a)' \subseteq OrderlyFrom(a)
        BY <1>2, <1>6, <3>4 DEF OrderlyFrom
      <4>2. Cardinality(OrderlyFrom(a)') <= Cardinality(OrderlyFrom(a))
        BY <3>1, <4>1, SizeMonotone
      <4> QED BY <1>4, <3>2, <4>2 DEF WithinLimits
    <3> QED BY <3>3, <3>4
  <2> QED BY <2>2, <2>3 DEF WithinLimits
<1> QED BY <1>5, <1>6, OrderlyMoves

\* The limits are passed by no more connections than were admitted past one another.
THEOREM LimitsAreNearlyKept == Spec => []LimitsGiveWayToRaces
<1>1. Init => WithinLimits
  <2>1. Cardinality({}) = 0 /\ MaxConnections \in Nat /\ MaxPerAddress \in Nat
    BY FS_EmptySet, Limits
  <2>2. ASSUME Init
        PROVE  Orderly = {} /\ \A a \in Addresses : OrderlyFrom(a) = {}
    BY <2>2 DEF Init, Orderly, OrderlyFrom, Counted, Live, Failed, UnderWay
  <2> QED BY <2>1, <2>2 DEF WithinLimits
<1>2. TypeOK /\ CountsMatch /\ WithinLimits /\ [Next]_vars => WithinLimits'
  <2> SUFFICES ASSUME TypeOK, CountsMatch, WithinLimits, [Next]_vars PROVE WithinLimits'
    OBVIOUS
  <2>1. CASE UNCHANGED <<phase, address, raced>>
    BY <2>1 DEF WithinLimits, Orderly, OrderlyFrom, Counted, Live, Failed, UnderWay
  <2> QED BY <2>1, NextSteps, LimitsStep, MainMoves DEF vars
<1>3. TypeOK /\ CountsMatch /\ WithinLimits => LimitsGiveWayToRaces
  <2> SUFFICES ASSUME TypeOK, CountsMatch, WithinLimits PROVE LimitsGiveWayToRaces
    OBVIOUS
  <2>1. /\ connection_count = Cardinality(Counted)
        /\ \A a \in Addresses : ip_connections[a] = Cardinality(From(a))
    BY CountsParts
  <2>2. Counted \subseteq Connections /\ Orderly \subseteq Connections
    BY DEF Counted, Live, Failed, Orderly, UnderWay
  <2>3. connection_count <= MaxConnections + Cardinality(Counted \cap raced)
    <3>1. Cardinality(Counted) <= Cardinality(Counted \cap raced) + Cardinality(Counted \ raced)
      BY <2>2, SizeOfParts
    <3>2. Cardinality(Counted \ raced) <= Cardinality(Orderly)
      BY <2>2, SizeMonotone DEF Orderly
    <3>3. /\ Cardinality(Counted) \in Nat /\ Cardinality(Counted \cap raced) \in Nat
          /\ Cardinality(Counted \ raced) \in Nat /\ Cardinality(Orderly) \in Nat
      BY <2>2, Sizes
    <3> QED BY <2>1, <3>1, <3>2, <3>3, Limits DEF WithinLimits
  <2>4. ASSUME NEW a \in Addresses
        PROVE  ip_connections[a] <=
                 MaxPerAddress + Cardinality({c \in Counted \cap raced : address[c] = a})
    <3>1. /\ From(a) \subseteq Connections /\ OrderlyFrom(a) \subseteq Connections
          /\ From(a) \ raced \subseteq OrderlyFrom(a)
          /\ From(a) \cap raced = {c \in Counted \cap raced : address[c] = a}
      BY <2>2 DEF From, OrderlyFrom, Orderly
    <3>2. Cardinality(From(a)) <= Cardinality(From(a) \cap raced) + Cardinality(From(a) \ raced)
      BY <3>1, SizeOfParts
    <3>3. Cardinality(From(a) \ raced) <= Cardinality(OrderlyFrom(a))
      BY <3>1, SizeMonotone
    <3>4. /\ Cardinality(From(a)) \in Nat /\ Cardinality(From(a) \cap raced) \in Nat
          /\ Cardinality(From(a) \ raced) \in Nat /\ Cardinality(OrderlyFrom(a)) \in Nat
      BY <3>1, Sizes
    <3>5. Cardinality(OrderlyFrom(a)) <= MaxPerAddress
      BY DEF WithinLimits
    <3>6. Cardinality(From(a)) <= MaxPerAddress + Cardinality(From(a) \cap raced)
      BY <3>2, <3>3, <3>4, <3>5, Limits
    <3> QED BY <2>1, <3>1, <3>6
  <2> QED BY <2>3, <2>4 DEF LimitsGiveWayToRaces
<1> QED BY <1>1, <1>2, <1>3, TypeCorrect, CountsMatchAlways, PTL DEF Spec
=============================================================================
