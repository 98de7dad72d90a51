---------------------- MODULE BroadcastPipelineProofs ----------------------
(***************************************************************************)
(* What holds of any number of clients, messages, permits and places: a    *)
(* message is sent to a client once.                                       *)
(*                                                                         *)
(* A send is begun, in one of three ways, and never begun again; from then *)
(* on it is in at most one of four places.                                 *)
(***************************************************************************)
EXTENDS BroadcastPipeline, TLAPS

\* The sends there have been up to now, and maybe more: of what the pump has passed on,
\* to those who joined, and about those who left.
Begun(s) ==
  \/ \E n \in 1..MaxPublished :
       /\ s.message = Published(n)
       /\ n < received \/ (n = received /\ pump # "waiting")
  \/ s.message[1] = "direct" /\ s.to \in joined
  \/ \E c \in joined \ connected : s.message = Left(c)

Queued == {s \in Sends : \E i \in 1..Len(queue[s.to]) : queue[s.to][i] = s.message}
Shown == {s \in Sends : \E n \in shown[s.to] : s.message = Published(n)}

\* The four places exclude each other.
Apart ==
  /\ \A s \in sends : s \notin dropped /\ s \notin Queued /\ s \notin Shown
  /\ \A s \in dropped : s \notin Queued /\ s \notin Shown
  /\ \A s \in Queued : s \notin Shown

AllBegun == \A s \in (sends \cup dropped) \cup (Queued \cup Shown) : Begun(s)

IInv ==
  /\ TypeOK
  /\ pump = "waiting" => received >= 1
  /\ Apart /\ AllBegun
  /\ \A c \in Clients : IsInjective(queue[c])

-----------------------------------------------------------------------------
(* Facts of the values.                                                    *)

LEMMA Bounds ==
  /\ MaxPublished \in Nat /\ QueueCapacity \in Nat \ {0}
BY PipelineAssumption

\* The three kinds of messages, told apart by their first word.
LEMMA Kinds ==
  /\ \A n \in 1..MaxPublished : Published(n) \in Messages /\ Published(n)[1] = "published"
                                /\ Published(n)[2] = n
  /\ \A c \in Clients : Left(c) \in Messages /\ Left(c)[1] = "left" /\ Left(c)[2] = c
  /\ \A m \in {"Connected", "PlayerUpdates"} :
       <<"direct", m>> \in Messages /\ <<"direct", m>>[1] = "direct"
  /\ \A m \in Messages : m[1] = "published" => m[2] \in 1..MaxPublished /\ m = Published(m[2])
BY DEF Messages, Published, Left

LEMMA SendFields ==
  \A m \in Messages, c \in Clients :
    /\ Send(m, c) \in Sends /\ Send(m, c).message = m /\ Send(m, c).to = c
    /\ \A s \in Sends : s.message = m /\ s.to = c => s = Send(m, c)
BY DEF Send, Sends

LEMMA Longer ==
  ASSUME NEW M, NEW q \in Seq(M), NEW m \in M
  PROVE  /\ Append(q, m) \in Seq(M) /\ Len(q) \in Nat
         /\ DOMAIN q = 1..Len(q) /\ DOMAIN Append(q, m) = 1..(Len(q) + 1)
         /\ Len(Append(q, m)) = Len(q) + 1
         /\ \A i \in 1..Len(q) : Append(q, m)[i] = q[i]
         /\ Append(q, m)[Len(q) + 1] = m
OBVIOUS

LEMMA Shorter ==
  ASSUME NEW M, NEW q \in Seq(M), q # <<>>
  PROVE  /\ Tail(q) \in Seq(M) /\ Head(q) = q[1] /\ q[1] \in M
         /\ Len(q) \in Nat \ {0} /\ DOMAIN q = 1..Len(q) /\ DOMAIN Tail(q) = 1..(Len(q) - 1)
         /\ Len(Tail(q)) = Len(q) - 1
         /\ \A i \in 1..(Len(q) - 1) : Tail(q)[i] = q[i + 1]
OBVIOUS

-----------------------------------------------------------------------------
(* The steps.                                                              *)

LEMMA InitIInv == Init => IInv
<1> SUFFICES ASSUME Init PROVE IInv
  OBVIOUS
<1>1. /\ published = 0 /\ received = 0 /\ pump = "idle" /\ connected = {} /\ joined = {}
      /\ sends = {} /\ permitted = {} /\ dropped = {} /\ writing = Clients /\ reading = Clients
      /\ queue = [c \in Clients |-> <<>>] /\ shown = [c \in Clients |-> {}]
  BY DEF Init
<1>2. TypeOK
  BY <1>1, Bounds DEF TypeOK
<1>3. \A c \in Clients : Len(queue[c]) = 0 /\ DOMAIN queue[c] = {} /\ shown[c] = {}
  BY <1>1
<1>4. Queued = {} /\ Shown = {}
  BY <1>3 DEF Queued, Shown, Sends
<1>5. \A c \in Clients : IsInjective(queue[c])
  BY <1>3 DEF IsInjective
<1> QED BY <1>1, <1>2, <1>4, <1>5 DEF IInv, Apart, AllBegun

\* A send that is new to all four places may begin.
LEMMA BeginsApart ==
  ASSUME IInv, NEW new, \A s \in new : ~Begun(s),
         sends' = sends \cup new, UNCHANGED <<dropped, sockets>>
  PROVE  Apart'
<1>1. Queued' = Queued /\ Shown' = Shown
  BY DEF Queued, Shown, sockets
<1> QED BY <1>1 DEF IInv, Apart, AllBegun

LEMMA PublishStep == IInv /\ Publish => IInv'
<1> SUFFICES ASSUME IInv, Publish PROVE IInv'
  OBVIOUS
<1>1. /\ published < MaxPublished /\ published' = published + 1
      /\ UNCHANGED <<received, pump, members, tasks, sockets>>
  BY DEF Publish, PublishOne
<1>2. TypeOK'
  BY <1>1, Bounds DEF IInv, TypeOK, members, tasks, sockets
<1> QED BY <1>1, <1>2 DEF IInv, Apart, AllBegun, Begun, Queued, Shown, members, tasks, sockets

LEMMA JoinStep == ASSUME IInv, NEW c \in Clients, Join(c) PROVE IInv'
<1> DEFINE new == {Send(<<"direct", m>>, c) : m \in {"Connected", "PlayerUpdates"}}
<1>1. /\ c \notin joined /\ published < MaxPublished /\ published' = published + 1
      /\ joined' = joined \cup {c} /\ connected' = connected \cup {c} /\ sends' = sends \cup new
      /\ UNCHANGED <<received, pump, permitted, dropped, sockets>>
  BY DEF Join, PublishOne
<1>2. \A s \in new : s \in Sends /\ s.message[1] = "direct" /\ s.to = c
  BY Kinds, SendFields
<1>3. \A s \in new : ~Begun(s)
  BY <1>1, <1>2, Kinds DEF Begun, IInv, TypeOK
<1>4. \A s : Begun(s) => Begun(s)'
  BY <1>1 DEF Begun
<1>5. \A s \in new : Begun(s)'
  BY <1>1, <1>2 DEF Begun
<1> HIDE DEF new
<1>6. TypeOK'
  BY <1>1, <1>2, Bounds DEF IInv, TypeOK, sockets
<1>7. Apart'
  BY <1>1, <1>3, BeginsApart
<1>8. AllBegun'
  BY <1>1, <1>4, <1>5 DEF IInv, AllBegun, Queued, Shown, sockets
<1> QED BY <1>1, <1>6, <1>7, <1>8 DEF IInv, sockets

LEMMA LeaveStep == ASSUME IInv, NEW c \in Clients, Leave(c) PROVE IInv'
<1> DEFINE new == {Send(Left(c), d) : d \in connected \ {c}}
<1>1. /\ c \in connected /\ connected' = connected \ {c} /\ sends' = sends \cup new
      /\ UNCHANGED <<channel, joined, permitted, dropped, sockets>>
  BY DEF Leave
<1>2. connected \subseteq joined /\ joined \subseteq Clients
  BY DEF IInv, TypeOK
<1>3. \A s \in new : s \in Sends /\ s.message = Left(c)
  BY <1>2, Kinds, SendFields
<1>4. \A s \in new : ~Begun(s)
  BY <1>1, <1>2, <1>3, Kinds DEF Begun
<1>5. \A s : Begun(s) => Begun(s)'
  BY <1>1 DEF Begun, channel
<1>6. \A s \in new : Begun(s)'
  BY <1>1, <1>2, <1>3 DEF Begun
<1> HIDE DEF new
<1>7. TypeOK'
  BY <1>1, <1>3, Bounds DEF IInv, TypeOK, channel, sockets
<1>8. Apart'
  BY <1>1, <1>4, BeginsApart
<1>9. AllBegun'
  BY <1>1, <1>5, <1>6 DEF IInv, AllBegun, Queued, Shown, sockets
<1> QED BY <1>1, <1>7, <1>8, <1>9 DEF IInv, channel, sockets

LEMMA PumpReceiveStep == IInv /\ PumpReceive => IInv'
<1> SUFFICES ASSUME IInv, PumpReceive PROVE IInv'
  OBVIOUS
<1>1. /\ pump = "idle" /\ received < published
      /\ \/ pump' = "stopped" /\ received' = received
         \/ pump' = "waiting" /\ received' = received + 1
      /\ UNCHANGED <<published, members, tasks, sockets>>
  BY DEF PumpReceive
<1>2. received \in Nat /\ published \in 0..MaxPublished
  BY Bounds DEF IInv, TypeOK
<1>3. TypeOK' /\ (pump' = "waiting" => received' >= 1)
  BY <1>1, <1>2, Bounds DEF IInv, TypeOK, members, tasks, sockets
<1>4. \A s : Begun(s) => Begun(s)'
  BY <1>1, <1>2, Bounds DEF Begun, members
<1> QED BY <1>1, <1>3, <1>4 DEF IInv, Apart, AllBegun, Queued, Shown, tasks, sockets

LEMMA PumpSpawnStep == IInv /\ PumpSpawn => IInv'
<1> SUFFICES ASSUME IInv, PumpSpawn PROVE IInv'
  OBVIOUS
<1> DEFINE new == Spawned(Published(received))
<1>1. /\ pump = "waiting" /\ pump' = "idle" /\ sends' = sends \cup new
      /\ UNCHANGED <<published, received, members, permitted, dropped, sockets>>
  BY DEF PumpSpawn
<1>2. received \in 1..MaxPublished /\ connected \subseteq Clients
  BY <1>1, Bounds DEF IInv, TypeOK
<1>3. \A s \in new : s \in Sends /\ s.message = Published(received)
  BY <1>2, Kinds, SendFields DEF Spawned
<1>4. \A s \in new : ~Begun(s)
  BY <1>1, <1>2, <1>3, Kinds DEF Begun, IInv, TypeOK
<1>5. \A s : Begun(s) => Begun(s)'
  BY <1>1, <1>2 DEF Begun, members
<1>6. \A s \in new : Begun(s)'
  BY <1>1, <1>2, <1>3 DEF Begun
<1> HIDE DEF new
<1>7. TypeOK'
  BY <1>1, <1>3, Bounds DEF IInv, TypeOK, members, sockets
<1>8. Apart'
  BY <1>1, <1>4, BeginsApart
<1>9. AllBegun'
  BY <1>1, <1>5, <1>6 DEF IInv, AllBegun, Queued, Shown, sockets
<1> QED BY <1>1, <1>7, <1>8, <1>9 DEF IInv, sockets

LEMMA AcquireStep == ASSUME IInv, NEW s \in sends, Acquire(s) PROVE IInv'
<1>1. /\ permitted' = permitted \cup {s}
      /\ UNCHANGED <<channel, members, sends, dropped, sockets>>
  BY DEF Acquire
<1>2. TypeOK'
  BY <1>1 DEF IInv, TypeOK, channel, members, sockets
<1> QED BY <1>1, <1>2
        DEF IInv, Apart, AllBegun, Begun, Queued, Shown, channel, members, sockets

\* What is put into the queue leaves the send tasks.
LEMMA EnqueueStep == ASSUME IInv, NEW s \in sends, Enqueue(s) PROVE IInv'
<1>1. /\ sends' = sends \ {s} /\ permitted' = permitted \ {s}
      /\ UNCHANGED <<channel, members, dropped, writing, reading, shown>>
  BY DEF Enqueue, Ends
<1>2. s \in Sends /\ s.to \in Clients /\ s.message \in Messages
  BY DEF IInv, TypeOK, Sends
<1>3. \A t : Begun(t) <=> Begun(t)'
  BY <1>1 DEF Begun, channel, members
<1>4. Shown' = Shown
  BY <1>1 DEF Shown
<1>5. CASE queue' = queue
  <2>1. TypeOK'
    BY <1>1, <1>5 DEF IInv, TypeOK, channel, members
  <2>2. Queued' = Queued
    BY <1>5 DEF Queued
  <2> QED BY <1>1, <1>3, <1>4, <1>5, <2>1, <2>2 DEF IInv, Apart, AllBegun, channel
<1>6. CASE HasRoom(s.to) /\ queue' = [queue EXCEPT ![s.to] = Append(@, s.message)]
  <2> DEFINE q == queue[s.to]
  <2>1. q \in Seq(Messages) /\ queue \in [Clients -> Seq(Messages)] /\ Len(q) < QueueCapacity
    BY <1>2, <1>6 DEF IInv, TypeOK, HasRoom
  <2>2. /\ queue'[s.to] = Append(q, s.message)
        /\ \A c \in Clients \ {s.to} : queue'[c] = queue[c]
    BY <1>2, <1>6, <2>1
  <2> HIDE DEF q
  <2>3. /\ Append(q, s.message) \in Seq(Messages) /\ Len(q) \in Nat
        /\ DOMAIN q = 1..Len(q) /\ DOMAIN Append(q, s.message) = 1..(Len(q) + 1)
        /\ Len(Append(q, s.message)) = Len(q) + 1
        /\ \A i \in 1..Len(q) : Append(q, s.message)[i] = q[i]
        /\ Append(q, s.message)[Len(q) + 1] = s.message
    BY <1>2, <2>1, Longer
  <2>4. TypeOK'
    <3>1. queue' \in [Clients -> Seq(Messages)]
      BY <1>2, <1>6, <2>1, <2>3 DEF q
    <3>2. \A c \in Clients : Len(queue'[c]) <= QueueCapacity
      <4>1. Len(Append(q, s.message)) <= QueueCapacity
        BY <2>1, <2>3, Bounds
      <4>2. \A c \in Clients : Len(queue[c]) <= QueueCapacity
        BY DEF IInv, TypeOK
      <4> QED BY <2>2, <4>1, <4>2
    <3> QED BY <1>1, <3>1, <3>2 DEF IInv, TypeOK, channel, members
  <2>5. \A t \in Queued' : t \in Queued \/ t = s
    <3> SUFFICES ASSUME NEW t \in Queued' PROVE t \in Queued \/ t = s
      OBVIOUS
    <3>1. t \in Sends /\ t.to \in Clients
      BY DEF Queued, Sends
    <3>2. PICK i \in 1..Len(queue'[t.to]) : queue'[t.to][i] = t.message
      BY DEF Queued
    <3>3. CASE t.to # s.to
      BY <2>2, <3>1, <3>2, <3>3 DEF Queued
    <3>4. CASE t.to = s.to /\ i \in 1..Len(q)
      BY <2>2, <2>3, <3>1, <3>2, <3>4 DEF Queued, q
    <3>5. CASE t.to = s.to /\ i = Len(q) + 1
      BY <1>2, <2>2, <2>3, <3>1, <3>2, <3>5, SendFields
    <3> QED BY <2>2, <2>3, <3>2, <3>3, <3>4, <3>5
  <2>6. \A c \in Clients : IsInjective(queue'[c])
    <3>1. \A i \in 1..Len(q) : q[i] # s.message
      BY <1>2 DEF IInv, Apart, Queued, q
    <3>2. IsInjective(q)
      BY <1>2 DEF IInv, q
    <3>3. IsInjective(Append(q, s.message))
      BY <2>3, <3>1, <3>2 DEF IsInjective
    <3> QED BY <2>2, <3>3 DEF IInv
  <2> QED BY <1>1, <1>3, <1>4, <2>4, <2>5, <2>6 DEF IInv, Apart, AllBegun, channel
<1> QED BY <1>1, <1>5, <1>6 DEF Enqueue

LEMMA TimeoutStep == ASSUME IInv, NEW s \in sends, Timeout(s) PROVE IInv'
<1>1. /\ sends' = sends \ {s} /\ permitted' = permitted \ {s}
      /\ dropped' = dropped \/ dropped' = dropped \cup {s}
      /\ UNCHANGED <<channel, members, sockets>>
  BY DEF Timeout, Ends
<1>2. TypeOK'
  BY <1>1 DEF IInv, TypeOK, channel, members, sockets
<1>3. Queued' = Queued /\ Shown' = Shown
  BY <1>1 DEF Queued, Shown, sockets
<1>4. \A t : Begun(t) <=> Begun(t)'
  BY <1>1 DEF Begun, channel, members
<1>5. Apart' /\ AllBegun'
  BY <1>1, <1>3, <1>4 DEF IInv, Apart, AllBegun
<1> QED BY <1>1, <1>2, <1>5 DEF IInv, channel, sockets

\* What is shown leaves the queue, where it was once.
LEMMA WriteStep == ASSUME IInv, NEW c \in Clients, Write(c) PROVE IInv'
<1> DEFINE q == queue[c]
           m == Head(q)
<1>1. /\ q # <<>> /\ queue' = [queue EXCEPT ![c] = Tail(@)]
      /\ \/ m[1] = "published" /\ shown' = [shown EXCEPT ![c] = @ \cup {m[2]}]
         \/ shown' = shown
      /\ UNCHANGED <<channel, members, tasks, writing, reading>>
  BY DEF Write
<1>2. /\ queue \in [Clients -> Seq(Messages)] /\ q \in Seq(Messages)
      /\ shown \in [Clients -> SUBSET (1..MaxPublished)] /\ Len(q) <= QueueCapacity
      /\ IsInjective(q)
  BY DEF IInv, TypeOK
<1>3. queue'[c] = Tail(q) /\ \A d \in Clients \ {c} : queue'[d] = queue[d]
  BY <1>1, <1>2
<1> HIDE DEF q
<1>4. /\ Tail(q) \in Seq(Messages) /\ m = q[1] /\ q[1] \in Messages
      /\ Len(q) \in Nat \ {0} /\ DOMAIN q = 1..Len(q) /\ DOMAIN Tail(q) = 1..(Len(q) - 1)
      /\ Len(Tail(q)) = Len(q) - 1
      /\ \A i \in 1..(Len(q) - 1) : Tail(q)[i] = q[i + 1]
  BY <1>1, <1>2, Shorter
<1> HIDE DEF m
<1>5. Send(m, c) \in Queued /\ Send(m, c) \notin Queued'
  <2>1. Send(m, c) \in Sends /\ Send(m, c).message = m /\ Send(m, c).to = c
    BY <1>4, SendFields
  <2>2. Send(m, c) \in Queued
    BY <1>4, <2>1 DEF Queued, q
  <2>3. \A i \in 1..(Len(q) - 1) : Tail(q)[i] # m
    BY <1>2, <1>4 DEF IsInjective
  <2> QED BY <1>3, <1>4, <2>1, <2>2, <2>3 DEF Queued
<1>6. \A t \in Queued' : t \in Queued
  <2> SUFFICES ASSUME NEW t \in Queued' PROVE t \in Queued
    OBVIOUS
  <2>1. t \in Sends /\ t.to \in Clients
    BY DEF Queued, Sends
  <2>2. PICK i \in 1..Len(queue'[t.to]) : queue'[t.to][i] = t.message
    BY DEF Queued
  <2>3. CASE t.to # c
    BY <1>3, <2>1, <2>2, <2>3 DEF Queued
  <2>4. CASE t.to = c
    <3>1. i + 1 \in 1..Len(q) /\ q[i + 1] = t.message
      BY <1>3, <1>4, <2>2, <2>4
    <3> QED BY <2>1, <2>4, <3>1 DEF Queued, q
  <2> QED BY <2>3, <2>4
<1>7. /\ shown' \in [Clients -> SUBSET (1..MaxPublished)]
      /\ \A t \in Shown' : t \in Shown \/ t = Send(m, c)
  <2>1. CASE shown' = shown
    BY <1>2, <2>1 DEF Shown
  <2>2. CASE m[1] = "published" /\ shown' = [shown EXCEPT ![c] = @ \cup {m[2]}]
    <3>1. m[2] \in 1..MaxPublished /\ m = Published(m[2])
      BY <1>4, <2>2, Kinds
    <3>2. shown'[c] = shown[c] \cup {m[2]} /\ \A d \in Clients \ {c} : shown'[d] = shown[d]
      BY <1>2, <2>2
    <3>3. ASSUME NEW t \in Shown' PROVE t \in Shown \/ t = Send(m, c)
      <4>1. t \in Sends /\ t.to \in Clients /\ \E n \in shown'[t.to] : t.message = Published(n)
        BY DEF Shown, Sends
      <4>2. CASE t.to # c
        BY <3>2, <4>1, <4>2 DEF Shown
      <4>3. CASE t.to = c
        BY <1>4, <3>1, <3>2, <4>1, <4>3, SendFields DEF Shown
      <4> QED BY <4>2, <4>3
    <3> QED BY <1>2, <2>2, <3>1, <3>3
  <2> QED BY <1>1, <2>1, <2>2
<1>8. TypeOK'
  <2>1. queue' \in [Clients -> Seq(Messages)]
    BY <1>1, <1>2, <1>4 DEF q
  <2>2. \A d \in Clients : Len(queue'[d]) <= QueueCapacity
    <3>1. Len(Tail(q)) <= QueueCapacity
      BY <1>2, <1>4, Bounds
    <3>2. \A d \in Clients : Len(queue[d]) <= QueueCapacity
      BY DEF IInv, TypeOK
    <3> QED BY <1>3, <3>1, <3>2
  <2> QED BY <1>1, <1>7, <2>1, <2>2 DEF IInv, TypeOK, channel, members, tasks
<1>9. \A d \in Clients : IsInjective(queue'[d])
  <2>1. IsInjective(Tail(q))
    BY <1>2, <1>4 DEF IsInjective
  <2> QED BY <1>3, <2>1 DEF IInv
<1>10. \A t : Begun(t) <=> Begun(t)'
  BY <1>1 DEF Begun, channel, members
<1>11. Apart'
  BY <1>1, <1>5, <1>6, <1>7 DEF IInv, Apart, tasks
<1>12. AllBegun'
  BY <1>1, <1>5, <1>6, <1>7, <1>10 DEF IInv, AllBegun, tasks
<1> QED BY <1>1, <1>8, <1>9, <1>11, <1>12 DEF IInv, channel

LEMMA WriteFailsStep == ASSUME IInv, NEW c \in Clients, WriteFails(c) PROVE IInv'
<1>1. /\ writing' = writing \ {c} /\ queue' = [queue EXCEPT ![c] = <<>>]
      /\ UNCHANGED <<channel, members, tasks, reading, shown>>
  BY DEF WriteFails
<1>2. queue \in [Clients -> Seq(Messages)]
  BY DEF IInv, TypeOK
<1>3. queue'[c] = <<>> /\ \A d \in Clients \ {c} : queue'[d] = queue[d]
  BY <1>1, <1>2
<1>4. TypeOK'
  <2>1. queue' \in [Clients -> Seq(Messages)]
    BY <1>1, <1>2
  <2>2. \A d \in Clients : Len(queue'[d]) <= QueueCapacity
    BY <1>3, Bounds DEF IInv, TypeOK
  <2> QED BY <1>1, <2>1, <2>2 DEF IInv, TypeOK, channel, members, tasks
<1>5. \A d \in Clients : IsInjective(queue'[d])
  BY <1>3 DEF IInv, IsInjective
<1>6. \A t \in Queued' : t \in Queued
  BY <1>3 DEF Queued, Sends
<1>7. Shown' = Shown
  BY <1>1 DEF Shown
<1>8. \A t : Begun(t) <=> Begun(t)'
  BY <1>1 DEF Begun, channel, members
<1>9. Apart' /\ AllBegun'
  BY <1>1, <1>6, <1>7, <1>8 DEF IInv, Apart, AllBegun, tasks
<1> QED BY <1>1, <1>4, <1>5, <1>9 DEF IInv, channel

LEMMA StallStep == ASSUME IInv, NEW c \in Clients, Stall(c) PROVE IInv'
<1>1. reading' = reading \ {c} /\ UNCHANGED <<channel, members, tasks, queue, writing, shown>>
  BY DEF Stall
<1>2. TypeOK'
  BY <1>1 DEF IInv, TypeOK, channel, members, tasks
<1> QED BY <1>1, <1>2 DEF IInv, Apart, AllBegun, Begun, Queued, Shown, channel, members, tasks

LEMMA NextIInv == IInv /\ [Next]_vars => IInv'
<1> SUFFICES ASSUME IInv, [Next]_vars PROVE IInv'
  OBVIOUS
<1>1. CASE Publish
  BY <1>1, PublishStep
<1>2. CASE PumpReceive
  BY <1>2, PumpReceiveStep
<1>3. CASE PumpSpawn
  BY <1>3, PumpSpawnStep
<1>4. ASSUME NEW c \in Clients, Join(c) \/ Leave(c) PROVE IInv'
  BY <1>4, JoinStep, LeaveStep
<1>5. ASSUME NEW c \in Clients, Write(c) \/ WriteFails(c) \/ Stall(c) PROVE IInv'
  BY <1>5, WriteStep, WriteFailsStep, StallStep
<1>6. ASSUME NEW s \in sends, SendTask(s) PROVE IInv'
  BY <1>6, AcquireStep, EnqueueStep, TimeoutStep DEF SendTask
<1>7. CASE UNCHANGED vars
  <2>1. UNCHANGED <<channel, members, tasks, sockets>>
    BY <1>7 DEF vars
  <2> QED BY <2>1 DEF IInv, TypeOK, Apart, AllBegun, Begun, Queued, Shown, channel, members,
                      tasks, sockets
<1> QED BY <1>1, <1>2, <1>3, <1>4, <1>5, <1>6, <1>7 DEF Next

LEMMA Invariance == Spec => []IInv
BY InitIInv, NextIInv, PTL DEF Spec

-----------------------------------------------------------------------------
(* What follows.                                                           *)

\* Whatever is published, joins, leaves, breaks or stalls, the queues keep to their
\* capacity, only tasks that run hold permits, and the pump stays within what was published.
THEOREM TypeCorrect == Spec => []TypeOK
<1>1. IInv => TypeOK
  BY DEF IInv
<1> QED BY <1>1, Invariance, PTL

\* No message is sent to a client twice, or both sent and dropped: a send task ends when
\* its message is in the queue, and neither the pump nor the server spawns it again.
THEOREM SentOnlyOnce == Spec => []SentOnce
<1>1. IInv => SentOnce
  <2> SUFFICES ASSUME IInv, NEW c \in Clients
               PROVE  /\ IsInjective(queue[c])
                      /\ \A n \in 1..MaxPublished :
                           LET s == Send(Published(n), c)
                               places == <<s \in sends, s \in dropped,
                                           Contains(queue[c], Published(n)), n \in shown[c]>>
                           IN  \A i, j \in DOMAIN places : places[i] /\ places[j] => i = j
    BY DEF SentOnce
  <2>1. IsInjective(queue[c])
    BY DEF IInv
  <2>2. ASSUME NEW n \in 1..MaxPublished
        PROVE  LET s == Send(Published(n), c)
                   places == <<s \in sends, s \in dropped,
                               Contains(queue[c], Published(n)), n \in shown[c]>>
               IN  \A i, j \in DOMAIN places : places[i] /\ places[j] => i = j
    <3> DEFINE s == Send(Published(n), c)
               A == s \in sends
               B == s \in dropped
               C == Contains(queue[c], Published(n))
               D == n \in shown[c]
    <3>1. s \in Sends /\ s.message = Published(n) /\ s.to = c
      BY Kinds, SendFields
    <3>2. C <=> s \in Queued
      BY <3>1 DEF Contains, Queued
    <3>3. D => s \in Shown
      BY <3>1 DEF Shown
    <3>4. ~(A /\ B) /\ ~(A /\ C) /\ ~(A /\ D) /\ ~(B /\ C) /\ ~(B /\ D) /\ ~(C /\ D)
      BY <3>2, <3>3 DEF IInv, Apart
    <3> HIDE DEF A, B, C, D
    <3>5. \A i, j \in DOMAIN <<A, B, C, D>> :
            <<A, B, C, D>>[i] /\ <<A, B, C, D>>[j] => i = j
      BY <3>4
    <3> QED BY <3>5 DEF A, B, C, D
  <2> QED BY <2>1, <2>2
<1> QED BY <1>1, Invariance, PTL
=============================================================================
