----------------------- MODULE SignalingServerProofs -----------------------
(***************************************************************************)
(* What SignalingServer guarantees for any number of connections, any      *)
(* limits and any channel capacity; and that it implements the room: every *)
(* step of a handler, of a task or of a client is a step of SignalingRoom  *)
(* or leaves the room as it is.                                            *)
(***************************************************************************)
EXTENDS SignalingRefinement, FiniteSetTheorems, TLAPS

----------------------------------------------------------------------------
(* Sequences, seen as the set of their elements *)

\* What a queue contains after a send.
LEMMA RangeAppend ==
    ASSUME NEW S, NEW s \in Seq(S), NEW e \in S
    PROVE  /\ Append(s, e) \in Seq(S)
           /\ Range(Append(s, e)) = Range(s) \cup {e}
<1>1. Append(s, e) \in Seq(S) /\ Len(Append(s, e)) = Len(s) + 1
  OBVIOUS
<1>2. \A i \in 1 .. Len(s) : Append(s, e)[i] = s[i]
  OBVIOUS
<1>3. Append(s, e)[Len(s) + 1] = e
  OBVIOUS
<1>4. DOMAIN s = 1 .. Len(s) /\ DOMAIN Append(s, e) = 1 .. (Len(s) + 1) /\ Len(s) \in Nat
  BY <1>1
<1>5. Range(Append(s, e)) \subseteq Range(s) \cup {e}
  BY <1>1, <1>2, <1>3, <1>4 DEF Range
<1>6. Range(s) \cup {e} \subseteq Range(Append(s, e))
  BY <1>1, <1>2, <1>3, <1>4 DEF Range
<1> QED BY <1>1, <1>5, <1>6

\* What a queue contains before and after its head is taken.
LEMMA RangeTail ==
    ASSUME NEW S, NEW s \in Seq(S), s # <<>>
    PROVE  /\ Head(s) \in S
           /\ Tail(s) \in Seq(S)
           /\ Range(s) = {Head(s)} \cup Range(Tail(s))
<1>1. Tail(s) \in Seq(S) /\ Head(s) \in S /\ Len(Tail(s)) = Len(s) - 1 /\ Head(s) = s[1]
  OBVIOUS
<1>2. \A i \in 1 .. Len(Tail(s)) : Tail(s)[i] = s[i + 1]
  OBVIOUS
<1>3. DOMAIN s = 1 .. Len(s) /\ DOMAIN Tail(s) = 1 .. (Len(s) - 1) /\ Len(s) \in Nat \ {0}
  BY <1>1
<1>4. Range(s) \subseteq {Head(s)} \cup Range(Tail(s))
  <2>1. SUFFICES ASSUME NEW i \in 1 .. Len(s), i # 1
                 PROVE  s[i] \in Range(Tail(s))
    BY <1>1, <1>3 DEF Range
  <2>2. i - 1 \in 1 .. Len(Tail(s)) /\ Tail(s)[i - 1] = s[i]
    BY <1>1, <1>2, <1>3, <2>1
  <2> QED BY <1>1, <1>3, <2>2 DEF Range
<1>5. {Head(s)} \cup Range(Tail(s)) \subseteq Range(s)
  <2>1. \A i \in 1 .. (Len(s) - 1) : i + 1 \in 1 .. Len(s)
    BY <1>3
  <2> QED BY <1>1, <1>2, <1>3, <2>1 DEF Range
<1> QED BY <1>1, <1>4, <1>5

\* The empty queue contains nothing.
LEMMA RangeEmpty == Range(<<>>) = {}
  BY DEF Range

\* An iteration order of a set of peers is a sequence of exactly these peers.
LEMMA OrdersOf ==
    ASSUME NEW S \in SUBSET Conns, NEW s \in Orders(S)
    PROVE  s \in Seq(Conns) /\ Range(s) = S
<1>1. IsFiniteSet(S)
  BY ConnsAssumption, FS_Subset
<1>2. Cardinality(S) \in Nat
  BY <1>1, FS_CardinalityType
<1>3. s \in [1 .. Cardinality(S) -> Conns] /\ Range(s) = S
  BY DEF Orders
<1> QED BY <1>2, <1>3
----------------------------------------------------------------------------
(* Types *)

TypeInv == TypeOK /\ SendingHasTarget

\* The messages of the protocol are messages.
LEMMA MessageTypes ==
    ASSUME NEW q \in Conns, NEW i \in Infos
    PROVE  /\ \A t \in PeerTypes : PeerMsg(t, q, i) \in Message
           /\ Left(q) \in Message
           /\ Error \in Message
           /\ \A ds \in SUBSET Device : Hello(ds) \in Message
  BY DEF PeerMsg, Left, Error, Hello, Message

\* A send leaves a sequence of messages in every channel.
LEMMA PushedType ==
    ASSUME TypeOK, NEW p \in Conns, NEW m \in Message
    PROVE  Pushed(p, m) \in [Conns -> Seq(Message)]
<1>1. Append(chan[p], m) \in Seq(Message)
  BY RangeAppend DEF TypeOK
<1> QED BY <1>1 DEF Pushed, TypeOK

\* What a client does with a message leaves devices in its roster.
LEMMA AppliedType ==
    ASSUME NEW ds \in SUBSET Device, NEW m \in Message
    PROVE  Applied(ds, m) \in SUBSET Device
  BY DEF Applied, Register, RegisterAll, Unregister, Device, Message, PeerTypes, Error

\* The groups of the connections are groups, and rooms are sets of connections.
LEMMA GroupType == \A c \in Conns : Group(c) \in Groups
  BY DEF Groups

\* Counting a request below the limit stays within the limit.
LEMMA CountedType ==
    ASSUME TypeOK, NEW c \in Conns, ~OverLimit(c)
    PROVE  Counted(c) \in [Groups -> 0 .. MaxRequests]
  BY GroupType, LimitsAssumption DEF TypeOK, OverLimit, Counted

\* recv_task starts to send well-formed messages to connections.
LEMMA SendsType ==
    ASSUME TypeInv, NEW c \in Conns, NEW m \in Message, NEW s \in Seq(Conns),
           Sends(c, m, s)
    PROVE  /\ out' \in [Conns -> Message]
           /\ outTo' \in [Conns -> Seq(Conns)]
           /\ recvTask' \in [Conns -> {"none", "reading", "sending", "over"}]
           /\ SendingHasTarget'
<1>1. CASE s = <<>>
  BY <1>1 DEF TypeInv, TypeOK, SendingHasTarget, Sends
<1>2. CASE s # <<>>
  <2>1. /\ out' = [out EXCEPT ![c] = m]
        /\ outTo' = [outTo EXCEPT ![c] = s]
        /\ recvTask' = [recvTask EXCEPT ![c] = "sending"]
    BY <1>2 DEF Sends
  <2>2. SendingHasTarget'
    BY <1>2, <2>1 DEF TypeInv, TypeOK, SendingHasTarget
  <2> QED BY <2>1, <2>2 DEF TypeInv, TypeOK
<1> QED BY <1>1, <1>2

\* Initially every variable has its type.
LEMMA TypeInit == Init => TypeInv
<1> SUFFICES ASSUME Init PROVE TypeInv
  OBVIOUS
<1>1. PICK i \in Infos : client = [c \in Conns |-> i] /\ self = [c \in Conns |-> i]
  BY DEF Init
<1>2. client \in [Conns -> Infos] /\ self \in [Conns -> Infos]
  BY <1>1
<1>3. requests \in [Groups -> 0 .. MaxRequests]
  BY LimitsAssumption DEF Init
<1>4. Error \in Message
  BY DEF Message
<1> QED BY <1>2, <1>3, <1>4 DEF Init, TypeInv, TypeOK, SendingHasTarget

\* Every step of the server keeps the types.
LEMMA TypeStep == TypeInv /\ [Next]_vars => TypeInv'
<1> SUFFICES ASSUME TypeInv, [Next]_vars PROVE TypeInv'
  OBVIOUS
<1> USE DEF TypeInv
<1>0. \A g : Room(g) \in SUBSET Conns
  BY DEF Room, TypeOK
<1>1. ASSUME NEW c \in Conns, Reject(c) PROVE TypeInv'
  BY <1>1, GroupType DEF Reject, TypeOK, SendingHasTarget, tasks
<1>2. ASSUME NEW c \in Conns, Accept(c) PROVE TypeInv'
  <2>1. requests' \in [Groups -> 0 .. MaxRequests]
    BY <1>2, CountedType DEF Accept
  <2>2. todo' \in [Conns -> Seq(Conns)]
    <3>1. PICK s \in Orders(Room(Group(c))) : todo' = [todo EXCEPT ![c] = s]
      BY <1>2 DEF Accept, PeersToNotify
    <3> QED BY <1>0, <3>1, OrdersOf DEF TypeOK
  <2>3. snapshot' \in [Conns -> SUBSET Device]
    BY <1>0, <1>2 DEF Accept, TypeOK, Device
  <2> QED BY <1>2, <2>1, <2>2, <2>3, GroupType
        DEF Accept, TypeOK, SendingHasTarget, tasks, ends
<1>3. ASSUME NEW c \in Conns, SendJoin(c) PROVE TypeInv'
  <2>1. Head(todo[c]) \in Conns /\ Tail(todo[c]) \in Seq(Conns)
    BY <1>3, RangeTail DEF SendJoin, TypeOK
  <2>2. PeerMsg("Join", c, self[c]) \in Message
    BY MessageTypes DEF TypeOK, PeerTypes
  <2>3. chan' \in [Conns -> Seq(Message)]
    BY <1>3, <2>1, <2>2, PushedType DEF SendJoin
  <2> QED BY <1>3, <2>1, <2>3 DEF SendJoin, TypeOK, SendingHasTarget, server, tasks, ends
<1>4. ASSUME NEW c \in Conns, SendHello(c) PROVE TypeInv'
  <2>1. Hello(snapshot[c]) \in Message
    BY MessageTypes, InfosAssumption DEF TypeOK
  <2>2. chan' \in [Conns -> Seq(Message)]
    BY <1>4, <2>1, PushedType DEF SendHello
  <2> QED BY <1>4, <2>2 DEF SendHello, TypeOK, SendingHasTarget, server, ends
<1>5. ASSUME NEW c \in Conns, SendTaskWrite(c) PROVE TypeInv'
  <2>1. Head(chan[c]) \in Message /\ Tail(chan[c]) \in Seq(Message)
    BY <1>5, RangeTail DEF SendTaskWrite, TypeOK
  <2>2. Applied(roster[c], Head(chan[c])) \in SUBSET Device
    BY <2>1, AppliedType DEF TypeOK
  <2>3. gotHello' \in [Conns -> BOOLEAN]
    BY <1>5 DEF SendTaskWrite, TypeOK
  <2> QED BY <1>5, <2>1, <2>2, <2>3
        DEF SendTaskWrite, TypeOK, SendingHasTarget, server, handler, tasks
<1>6. ASSUME NEW c \in Conns, SendTaskBreak(c) PROVE TypeInv'
  BY <1>6 DEF SendTaskBreak, TypeOK, SendingHasTarget, server, handler, ends
<1>7. ASSUME NEW c \in Conns, RecvOverLimit(c) PROVE TypeInv'
  <2>1. Error \in Message /\ <<c>> \in Seq(Conns)
    BY DEF Message
  <2> QED BY <1>7, <2>1, SendsType DEF RecvOverLimit, TypeOK, server, handler, ends
<1>8. ASSUME NEW c \in Conns, NEW i \in Infos, RecvUpdate(c, i) PROVE TypeInv'
  <2>1. PICK s \in Orders(IF c \in members THEN Others(c) ELSE {}) :
              Sends(c, PeerMsg("Update", c, i), s)
    BY <1>8 DEF RecvUpdate
  <2>2. s \in Seq(Conns)
    BY <1>0, OrdersOf DEF Others
  <2>3. PeerMsg("Update", c, i) \in Message
    BY MessageTypes DEF PeerTypes
  <2>4. requests' \in [Groups -> 0 .. MaxRequests]
    BY <1>8, CountedType DEF RecvUpdate
  <2>5. client' \in [Conns -> Infos]
    BY <1>8 DEF RecvUpdate, TypeOK
  <2> QED BY <1>8, <2>1, <2>2, <2>3, <2>4, <2>5, SendsType
        DEF RecvUpdate, TypeOK, handler, ends
<1>9. ASSUME NEW c \in Conns, NEW kind \in {"Offer", "Answer"}, NEW t \in Conns,
             RecvSdp(c, kind, t)
      PROVE  TypeInv'
  <2>1. Target(c, t) \in Seq(Conns)
    BY DEF Target
  <2>2. PeerMsg(kind, c, self[c]) \in Message
    BY MessageTypes DEF TypeOK, PeerTypes
  <2>3. requests' \in [Groups -> 0 .. MaxRequests]
    BY <1>9, CountedType DEF RecvSdp
  <2> QED BY <1>9, <2>1, <2>2, <2>3, SendsType DEF RecvSdp, TypeOK, handler, ends
<1>10. ASSUME NEW c \in Conns, SendOut(c) PROVE TypeInv'
  <2>1. Head(outTo[c]) \in Conns /\ Tail(outTo[c]) \in Seq(Conns)
    BY <1>10, RangeTail DEF SendOut, TypeOK, SendingHasTarget
  <2>2. chan' \in [Conns -> Seq(Message)]
    BY <1>10, <2>1, PushedType DEF SendOut, TypeOK
  <2>3. Error \in Message
    BY DEF Message
  <2>4. outTo' \in [Conns -> Seq(Conns)]
    BY <1>10, <2>1 DEF SendOut, TypeOK
  <2>5. /\ out' \in [Conns -> Message]
        /\ recvTask' \in [Conns -> {"none", "reading", "sending", "over"}]
    BY <1>10, <2>3 DEF SendOut, TypeOK
  <2>6. SendingHasTarget'
    BY <1>10 DEF SendOut, TypeOK, SendingHasTarget
  <2> QED BY <1>10, <2>2, <2>4, <2>5, <2>6 DEF SendOut, TypeOK, server, handler, ends
<1>11. ASSUME NEW c \in Conns, RecvTaskEnd(c) PROVE TypeInv'
  BY <1>11 DEF RecvTaskEnd, TypeOK, SendingHasTarget, server, handler, ends
<1>12. ASSUME NEW c \in Conns, SelectExit(c) PROVE TypeInv'
  BY <1>12 DEF SelectExit, TypeOK, SendingHasTarget, server, ends
<1>13. ASSUME NEW c \in Conns, SendTaskCancelled(c) PROVE TypeInv'
  BY <1>13 DEF SendTaskCancelled, TypeOK, SendingHasTarget, server, handler, ends
<1>14. ASSUME NEW c \in Conns, RecvTaskCancelled(c) PROVE TypeInv'
  <2>1. Error \in Message
    BY DEF Message
  <2> QED BY <1>14, <2>1 DEF RecvTaskCancelled, TypeOK, SendingHasTarget, server, handler, ends
<1>15. ASSUME NEW c \in Conns, Disconnect(c) PROVE TypeInv'
  <2>1. todo' \in [Conns -> Seq(Conns)]
    <3>1. PICK s \in Orders(Remaining(c)) : todo' = [todo EXCEPT ![c] = s]
      BY <1>15 DEF Disconnect
    <3>2. s \in Seq(Conns)
      BY <1>0, OrdersOf DEF Remaining
    <3> QED BY <3>1, <3>2 DEF TypeOK
  <2> QED BY <1>15, <2>1 DEF Disconnect, TypeOK, SendingHasTarget, tasks, ends
<1>16. ASSUME NEW c \in Conns, SendLeft(c) PROVE TypeInv'
  <2>1. Head(todo[c]) \in Conns /\ Tail(todo[c]) \in Seq(Conns)
    BY <1>16, RangeTail DEF SendLeft, TypeOK
  <2>2. Left(c) \in Message
    BY MessageTypes, InfosAssumption
  <2>3. chan' \in [Conns -> Seq(Message)]
    BY <1>16, <2>1, <2>2, PushedType DEF SendLeft
  <2> QED BY <1>16, <2>1, <2>3 DEF SendLeft, TypeOK, SendingHasTarget, server, tasks, ends
<1>17. ASSUME NEW c \in Conns, ClientClose(c) PROVE TypeInv'
  BY <1>17 DEF ClientClose, TypeOK, SendingHasTarget, server, handler, tasks
<1>18. ASSUME ClearRequests PROVE TypeInv'
  <2>1. requests' \in [Groups -> 0 .. MaxRequests]
    BY <1>18, LimitsAssumption DEF ClearRequests
  <2> QED BY <1>18, <2>1 DEF ClearRequests, TypeOK, SendingHasTarget, handler, tasks, ends
<1>19. CASE UNCHANGED vars
  BY <1>19 DEF vars, server, handler, tasks, ends, TypeOK, SendingHasTarget
<1> QED
  BY <1>1, <1>2, <1>3, <1>4, <1>5, <1>6, <1>7, <1>8, <1>9, <1>10, <1>11, <1>12, <1>13,
     <1>14, <1>15, <1>16, <1>17, <1>18, <1>19
  DEF Next, HandlerNext, RecvTaskNext, SendTaskNext

\* Every variable of the server keeps its type: in particular the hourly count
\* of protect_ddos_request_count never passes MAX_REQUESTS.
THEOREM TypeCorrect == Spec => []TypeOK
  BY TypeInit, TypeStep, PTL DEF Spec, TypeInv

----------------------------------------------------------------------------
(* Membership *)

\* The steps that change neither tx_map nor the control of a handler.
LEMMA ControlUnchanged ==
    ASSUME \/ \E c \in Conns : SendJoin(c) \/ SendLeft(c) \/ ClientClose(c)
           \/ \E c \in Conns : RecvTaskNext(c) \/ SendTaskNext(c)
           \/ ClearRequests
           \/ UNCHANGED vars
    PROVE  UNCHANGED <<members, pc>>
  BY DEF SendJoin, SendLeft, ClientClose, RecvTaskNext, SendTaskNext, ClearRequests,
         RecvOverLimit, RecvUpdate, RecvSdp, SendOut, RecvTaskEnd, RecvTaskCancelled,
         SendTaskWrite, SendTaskBreak, SendTaskCancelled, vars, server, handler

\* tx_map follows the control of the handlers.
LEMMA ControlStep ==
    TypeInv /\ MembersByControl /\ [Next]_vars => MembersByControl'
<1> SUFFICES ASSUME TypeInv, MembersByControl, [Next]_vars PROVE MembersByControl'
  OBVIOUS
<1> USE DEF TypeInv, TypeOK, MembersByControl
<1>1. ASSUME NEW c \in Conns, Reject(c) PROVE MembersByControl'
  BY <1>1 DEF Reject
<1>2. ASSUME NEW c \in Conns, Accept(c) PROVE MembersByControl'
  BY <1>2 DEF Accept
<1>3. ASSUME NEW c \in Conns, SendHello(c) PROVE MembersByControl'
  BY <1>3 DEF SendHello, server
<1>4. ASSUME NEW c \in Conns, SelectExit(c) PROVE MembersByControl'
  BY <1>4 DEF SelectExit, server
<1>5. ASSUME NEW c \in Conns, Disconnect(c) PROVE MembersByControl'
  BY <1>5 DEF Disconnect
<1>6. CASE UNCHANGED <<members, pc>>
  BY <1>6
<1> QED BY <1>1, <1>2, <1>3, <1>4, <1>5, <1>6, ControlUnchanged DEF Next, HandlerNext

\* Only the two critical sections change a room.
LEMMA LimitStep ==
    TypeInv /\ ConnectionLimit /\ [Next]_vars => ConnectionLimit'
<1> SUFFICES ASSUME TypeInv, ConnectionLimit, [Next]_vars,
                    NEW g \in Groups
             PROVE  Cardinality(Room(g)') <= MaxConnections
  BY DEF ConnectionLimit
<1>1. IsFiniteSet(Room(g)) /\ Cardinality(Room(g)) \in Nat
  <2>1. Room(g) \subseteq Conns
    BY DEF Room, TypeInv, TypeOK
  <2> QED BY <2>1, ConnsAssumption, FS_Subset, FS_CardinalityType
<1>2. Cardinality(Room(g)) <= MaxConnections
  BY DEF ConnectionLimit
<1>3. ASSUME NEW c \in Conns, Accept(c)
      PROVE  Cardinality(Room(g)') <= MaxConnections
  <2>1. CASE Group(c) = g
    <3>1. Room(g)' = Room(g) \cup {c}
      BY <1>3, <2>1 DEF Accept, Room
    <3>2. Cardinality(Room(g) \cup {c}) <= Cardinality(Room(g)) + 1
      <4>1. Cardinality(Room(g) \cup {c}) =
              IF c \in Room(g) THEN Cardinality(Room(g)) ELSE Cardinality(Room(g)) + 1
        BY <1>1, FS_AddElement, Zenon
      <4>2. ASSUME NEW n \in Nat, NEW m, m = n \/ m = n + 1 PROVE m <= n + 1
        BY <4>2
      <4> QED BY <1>1, <4>1, <4>2
    <3>3. Cardinality(Room(g)) < MaxConnections
      BY <1>1, <1>3, <2>1, LimitsAssumption DEF Accept, RoomFull
    <3>4. Cardinality(Room(g) \cup {c}) \in Nat
      BY <1>1, FS_AddElement, FS_CardinalityType
    <3> QED BY <1>1, <3>1, <3>2, <3>3, <3>4, LimitsAssumption
  <2>2. CASE Group(c) # g
    <3>1. Room(g)' = Room(g)
      BY <1>3, <2>2 DEF Accept, Room
    <3> QED BY <1>2, <3>1
  <2> QED BY <2>1, <2>2
<1>4. ASSUME NEW c \in Conns, Disconnect(c)
      PROVE  Cardinality(Room(g)') <= MaxConnections
  <2>1. Room(g)' \subseteq Room(g)
    BY <1>4 DEF Disconnect, Room
  <2>2. Cardinality(Room(g)') <= Cardinality(Room(g)) /\ Cardinality(Room(g)') \in Nat
    BY <1>1, <2>1, FS_Subset, FS_CardinalityType
  <2> QED BY <1>1, <1>2, <2>2, LimitsAssumption
<1>5. ASSUME members' = members
      PROVE  Cardinality(Room(g)') <= MaxConnections
  BY <1>2, <1>5 DEF Room
<1>6. ASSUME NEW c \in Conns, Reject(c) \/ SendHello(c) \/ SelectExit(c)
      PROVE  members' = members
  BY <1>6 DEF Reject, SendHello, SelectExit, server
<1> QED BY <1>3, <1>4, <1>5, <1>6, ControlUnchanged DEF Next, HandlerNext

\* No room ever holds more than MAX_CONNECTIONS peers: the length is compared
\* and the peer inserted under one lock.
THEOREM LimitHolds == Spec => []ConnectionLimit
<1>1. Init => ConnectionLimit
  <2> SUFFICES ASSUME Init, NEW g \in Groups PROVE Cardinality(Room(g)) <= MaxConnections
    BY DEF ConnectionLimit
  <2>1. Room(g) = {}
    BY DEF Init, Room
  <2> QED BY <2>1, FS_EmptySet, LimitsAssumption
<1> QED BY <1>1, TypeInit, TypeStep, LimitStep, PTL DEF Spec

----------------------------------------------------------------------------
(* Isolation of the rooms *)

\* A send adds its message to one queue and nothing to the others.
LEMMA PushedRange ==
    ASSUME TypeOK, NEW p \in Conns, NEW m \in Message, NEW x \in Conns
    PROVE  /\ Range(chan[x]) \subseteq Range(Pushed(p, m)[x])
           /\ \A e \in Range(Pushed(p, m)[x]) : e \in Range(chan[x]) \/ (e = m /\ x = p)
           /\ (x = p /\ RxAlive(p)) => m \in Range(Pushed(p, m)[x])
<1>1. Range(Append(chan[p], m)) = Range(chan[p]) \cup {m}
  BY RangeAppend DEF TypeOK
<1>2. CASE RxAlive(p) /\ x = p
  <2>1. Pushed(p, m)[x] = Append(chan[p], m)
    BY <1>2 DEF Pushed, TypeOK
  <2> QED BY <1>1, <1>2, <2>1
<1>3. CASE ~(RxAlive(p) /\ x = p)
  <2>1. Pushed(p, m)[x] = chan[x]
    BY <1>3 DEF Pushed, TypeOK
  <2> QED BY <1>3, <2>1
<1> QED BY <1>2, <1>3

IsolationInv == RoomIsolation /\ PendingIsolated /\ OutIsOwn

\* A send of a message about the room keeps the queues isolated.
LEMMA PushedWithin ==
    ASSUME TypeOK, RoomIsolation, NEW p \in Conns, NEW m \in Message,
           Within(m, Group(p)), chan' = Pushed(p, m), roster' = roster
    PROVE  RoomIsolation'
<1> SUFFICES ASSUME NEW x \in Conns
             PROVE  /\ \A e \in Range(chan'[x]) : Within(e, Group(x))
                    /\ \A d \in roster[x] : Group(d.peer) = Group(x)
  BY DEF RoomIsolation
<1>1. \A e \in Range(chan'[x]) : e \in Range(chan[x]) \/ (e = m /\ x = p)
  BY PushedRange
<1> QED BY <1>1 DEF RoomIsolation

\* What the client does with a message about its room keeps its roster isolated.
LEMMA AppliedWithin ==
    ASSUME NEW ds \in SUBSET Device, NEW m \in Message, NEW g, Within(m, g),
           \A d \in ds : Group(d.peer) = g
    PROVE  \A d \in Applied(ds, m) : Group(d.peer) = g
  BY DEF Applied, Register, RegisterAll, Unregister, Within, Message, PeerTypes, Error

\* A queue that loses messages stays isolated.
LEMMA ShrinkWithin ==
    ASSUME TypeOK, RoomIsolation, NEW c \in Conns, chan' = [chan EXCEPT ![c] = <<>>],
           roster' = roster
    PROVE  RoomIsolation'
<1>1. \A x \in Conns : chan'[x] = chan[x] \/ chan'[x] = <<>>
  BY DEF TypeOK
<1> QED BY <1>1, RangeEmpty DEF RoomIsolation

\* recv_task starts to send a request of its own peer to peers of its room.
LEMMA SendsWithin ==
    ASSUME TypeInv, PendingIsolated, OutIsOwn, NEW c \in Conns, NEW m, NEW s,
           Sends(c, m, s), todo' = todo, snapshot' = snapshot,
           m = Error \/ \E t \in {"Update", "Offer", "Answer"}, i \in Infos : m = PeerMsg(t, c, i),
           \A x \in Range(s) : Group(x) = Group(c)
    PROVE  PendingIsolated' /\ OutIsOwn'
<1>1. CASE s = <<>>
  BY <1>1 DEF Sends, PendingIsolated, OutIsOwn
<1>2. CASE s # <<>>
  <2>1. out' = [out EXCEPT ![c] = m] /\ outTo' = [outTo EXCEPT ![c] = s]
    BY <1>2 DEF Sends
  <2>2. PendingIsolated'
    BY <2>1 DEF PendingIsolated, TypeInv, TypeOK
  <2>3. OutIsOwn'
    BY <2>1 DEF OutIsOwn, TypeInv, TypeOK
  <2> QED BY <2>2, <2>3
<1> QED BY <1>1, <1>2

\* Every step of the server keeps the rooms apart.
LEMMA IsolationStep ==
    TypeInv /\ IsolationInv /\ [Next]_vars => IsolationInv'
<1> SUFFICES ASSUME TypeInv, IsolationInv, [Next]_vars PROVE IsolationInv'
  OBVIOUS
<1> USE DEF TypeInv, IsolationInv
<1>0. \A g : Room(g) \in SUBSET Conns /\ \A x \in Room(g) : Group(x) = g
  BY DEF Room, TypeOK
<1>1. ASSUME NEW c \in Conns, Accept(c) PROVE IsolationInv'
  <2>1. PICK s \in Orders(Room(Group(c))) : todo' = [todo EXCEPT ![c] = s]
    BY <1>1 DEF Accept, PeersToNotify
  <2>2. Range(s) = Room(Group(c))
    BY <1>0, OrdersOf
  <2>3. RoomIsolation' /\ OutIsOwn'
    BY <1>1 DEF Accept, RoomIsolation, OutIsOwn, tasks, ends
  <2>4. PendingIsolated'
    BY <1>0, <1>1, <2>1, <2>2 DEF Accept, PendingIsolated, TypeOK, tasks
  <2> QED BY <2>3, <2>4
<1>2. ASSUME NEW c \in Conns, SendJoin(c) PROVE IsolationInv'
  <2>1. /\ Head(todo[c]) \in Conns
        /\ Range(todo[c]) = {Head(todo[c])} \cup Range(Tail(todo[c]))
    BY <1>2, RangeTail DEF SendJoin, TypeOK
  <2>2. PeerMsg("Join", c, self[c]) \in Message
    BY MessageTypes DEF TypeOK, PeerTypes
  <2>3. Within(PeerMsg("Join", c, self[c]), Group(Head(todo[c])))
    BY <2>1 DEF Within, PeerMsg, PendingIsolated
  <2>4. RoomIsolation'
    BY <1>2, <2>1, <2>2, <2>3, PushedWithin DEF SendJoin, ends
  <2>5. PendingIsolated' /\ OutIsOwn'
    BY <1>2, <2>1 DEF SendJoin, PendingIsolated, OutIsOwn, TypeOK, tasks
  <2> QED BY <2>4, <2>5
<1>3. ASSUME NEW c \in Conns, SendHello(c) PROVE IsolationInv'
  <2>1. Hello(snapshot[c]) \in Message
    BY MessageTypes, InfosAssumption DEF TypeOK
  <2>2. Within(Hello(snapshot[c]), Group(c))
    BY DEF Within, Hello, PendingIsolated, PeerTypes
  <2>3. RoomIsolation'
    BY <1>3, <2>1, <2>2, PushedWithin DEF SendHello, ends
  <2>4. PendingIsolated' /\ OutIsOwn'
    BY <1>3 DEF SendHello, PendingIsolated, OutIsOwn
  <2> QED BY <2>3, <2>4
<1>4. ASSUME NEW c \in Conns, SendTaskWrite(c) PROVE IsolationInv'
  <2>1. /\ Head(chan[c]) \in Message
        /\ Range(chan[c]) = {Head(chan[c])} \cup Range(Tail(chan[c]))
    BY <1>4, RangeTail DEF SendTaskWrite, TypeOK
  <2>2. \A d \in Applied(roster[c], Head(chan[c])) : Group(d.peer) = Group(c)
    BY <2>1, AppliedWithin DEF RoomIsolation, TypeOK
  <2>3. RoomIsolation'
    BY <1>4, <2>1, <2>2 DEF SendTaskWrite, RoomIsolation, TypeOK
  <2>4. PendingIsolated' /\ OutIsOwn'
    BY <1>4 DEF SendTaskWrite, PendingIsolated, OutIsOwn, handler, tasks
  <2> QED BY <2>3, <2>4
<1>5. ASSUME NEW c \in Conns, SendTaskBreak(c) \/ SendTaskCancelled(c) PROVE IsolationInv'
  BY <1>5, ShrinkWithin
  DEF SendTaskBreak, SendTaskCancelled, PendingIsolated, OutIsOwn, handler, ends
<1>6. ASSUME NEW c \in Conns, RecvOverLimit(c) PROVE IsolationInv'
  <2>1. \A x \in Range(<<c>>) : Group(x) = Group(c)
    BY DEF Range
  <2>2. PendingIsolated' /\ OutIsOwn'
    BY <1>6, <2>1, SendsWithin DEF RecvOverLimit, handler
  <2> QED BY <1>6, <2>2 DEF RecvOverLimit, RoomIsolation, ends
<1>7. ASSUME NEW c \in Conns, NEW i \in Infos, RecvUpdate(c, i) PROVE IsolationInv'
  <2>1. PICK s \in Orders(IF c \in members THEN Others(c) ELSE {}) :
              Sends(c, PeerMsg("Update", c, i), s)
    BY <1>7 DEF RecvUpdate
  <2>2. \A x \in Range(s) : Group(x) = Group(c)
    BY <1>0, OrdersOf DEF Others
  <2>3. PendingIsolated' /\ OutIsOwn'
    BY <1>7, <2>1, <2>2, SendsWithin DEF RecvUpdate, handler
  <2> QED BY <1>7, <2>3 DEF RecvUpdate, RoomIsolation, ends
<1>8. ASSUME NEW c \in Conns, NEW kind \in {"Offer", "Answer"}, NEW t \in Conns,
             RecvSdp(c, kind, t)
      PROVE  IsolationInv'
  <2>1. \A x \in Range(Target(c, t)) : Group(x) = Group(c)
    BY <1>0 DEF Target, Range
  <2>2. self[c] \in Infos
    BY DEF TypeOK
  <2>3. PendingIsolated' /\ OutIsOwn'
    BY <1>8, <2>1, <2>2, SendsWithin DEF RecvSdp, handler
  <2> QED BY <1>8, <2>3 DEF RecvSdp, RoomIsolation, ends
<1>9. ASSUME NEW c \in Conns, SendOut(c) PROVE IsolationInv'
  <2>1. /\ Head(outTo[c]) \in Conns
        /\ Range(outTo[c]) = {Head(outTo[c])} \cup Range(Tail(outTo[c]))
    BY <1>9, RangeTail DEF SendOut, TypeOK, SendingHasTarget
  <2>2. out[c] \in Message
    BY DEF TypeOK
  <2>3. Within(out[c], Group(Head(outTo[c])))
    <3>1. Group(Head(outTo[c])) = Group(c)
      BY <2>1 DEF PendingIsolated
    <3>2. CASE out[c] = Error
      BY <3>2 DEF Within, Error, PeerTypes
    <3>3. ASSUME NEW t \in {"Update", "Offer", "Answer"}, NEW i \in Infos,
                 out[c] = PeerMsg(t, c, i)
          PROVE  Within(out[c], Group(c))
      BY <3>3 DEF Within, PeerMsg
    <3> QED BY <3>1, <3>2, <3>3 DEF OutIsOwn
  <2>4. RoomIsolation'
    BY <1>9, <2>1, <2>2, <2>3, PushedWithin DEF SendOut, ends
  <2>5. PendingIsolated'
    BY <1>9, <2>1 DEF SendOut, PendingIsolated, TypeOK, handler
  <2>6. OutIsOwn'
    BY <1>9 DEF SendOut, OutIsOwn, TypeOK
  <2> QED BY <2>4, <2>5, <2>6
<1>10. ASSUME NEW c \in Conns, RecvTaskCancelled(c) PROVE IsolationInv'
  <2>1. PendingIsolated'
    BY <1>10, RangeEmpty DEF RecvTaskCancelled, PendingIsolated, TypeOK, handler
  <2>2. OutIsOwn'
    BY <1>10 DEF RecvTaskCancelled, OutIsOwn, TypeOK
  <2> QED BY <1>10, <2>1, <2>2 DEF RecvTaskCancelled, RoomIsolation, ends
<1>11. ASSUME NEW c \in Conns, Disconnect(c) PROVE IsolationInv'
  <2>1. PICK s \in Orders(Remaining(c)) : todo' = [todo EXCEPT ![c] = s]
    BY <1>11 DEF Disconnect
  <2>2. \A x \in Range(s) : Group(x) = Group(c)
    BY <1>0, OrdersOf DEF Remaining
  <2>3. PendingIsolated'
    BY <1>11, <2>1, <2>2 DEF Disconnect, PendingIsolated, TypeOK, tasks
  <2> QED BY <1>11, <2>3 DEF Disconnect, RoomIsolation, OutIsOwn, tasks, ends
<1>12. ASSUME NEW c \in Conns, SendLeft(c) PROVE IsolationInv'
  <2>1. /\ Head(todo[c]) \in Conns
        /\ Range(todo[c]) = {Head(todo[c])} \cup Range(Tail(todo[c]))
    BY <1>12, RangeTail DEF SendLeft, TypeOK
  <2>2. Left(c) \in Message
    BY MessageTypes, InfosAssumption
  <2>3. Within(Left(c), Group(Head(todo[c])))
    BY <2>1 DEF Within, Left, PendingIsolated
  <2>4. RoomIsolation'
    BY <1>12, <2>1, <2>2, <2>3, PushedWithin DEF SendLeft, ends
  <2>5. PendingIsolated' /\ OutIsOwn'
    BY <1>12, <2>1 DEF SendLeft, PendingIsolated, OutIsOwn, TypeOK, tasks
  <2> QED BY <2>4, <2>5
<1>13. ASSUME UNCHANGED <<todo, snapshot, out, outTo, chan, roster>> PROVE IsolationInv'
  BY <1>13 DEF RoomIsolation, PendingIsolated, OutIsOwn
<1>14. ASSUME NEW c \in Conns,
              Reject(c) \/ RecvTaskEnd(c) \/ SelectExit(c) \/ ClientClose(c)
       PROVE  UNCHANGED <<todo, snapshot, out, outTo, chan, roster>>
  BY <1>14 DEF Reject, RecvTaskEnd, SelectExit, ClientClose, handler, tasks, ends
<1>15. ASSUME ClearRequests \/ UNCHANGED vars
       PROVE  UNCHANGED <<todo, snapshot, out, outTo, chan, roster>>
  BY <1>15 DEF ClearRequests, vars, handler, tasks, ends
<1> QED
  BY <1>1, <1>2, <1>3, <1>4, <1>5, <1>6, <1>7, <1>8, <1>9, <1>10, <1>11, <1>12, <1>13,
     <1>14, <1>15
  DEF Next, HandlerNext, RecvTaskNext, SendTaskNext

\* Nothing crosses from one IP group to another: not by the broadcasts of
\* handle_socket and of updates, and not by a request that names a peer of
\* another group as its target.
THEOREM RoomsAreIsolated == Spec => []RoomIsolation
<1>1. Init => IsolationInv
  BY RangeEmpty DEF Init, IsolationInv, RoomIsolation, PendingIsolated, OutIsOwn
<1> QED BY <1>1, TypeInit, TypeStep, IsolationStep, PTL DEF Spec, IsolationInv

----------------------------------------------------------------------------
(* Nobody is missed *)

RosterInv ==
    /\ MembersByControl
    /\ NoneBeforeServing
    /\ OutIsOwn
    /\ LeftMeansGone
    /\ NoMissingPeer

\* A handler that has begun to send Left never comes back.
LEMMA LeavingIsFinal ==
    ASSUME TypeInv, [Next]_vars, NEW q \in Conns, pc[q] = "leaving"
    PROVE  pc'[q] = "leaving"
<1> USE DEF TypeInv, TypeOK
<1>1. ASSUME NEW c \in Conns,
             Reject(c) \/ Accept(c) \/ SendHello(c) \/ SelectExit(c) \/ Disconnect(c)
      PROVE  pc'[q] = "leaving"
  <2>1. c # q /\ \E v : pc' = [pc EXCEPT ![c] = v]
    BY <1>1 DEF Reject, Accept, SendHello, SelectExit, Disconnect
  <2> QED BY <2>1
<1> QED BY <1>1, ControlUnchanged DEF Next, HandlerNext

\* A send of anything but Left, or of the Left of a handler that is leaving,
\* keeps LeftMeansGone.
LEMMA PushedLeft ==
    ASSUME TypeInv, LeftMeansGone, [Next]_vars, NEW p \in Conns, NEW m \in Message,
           chan' = Pushed(p, m), m.type = "Left" => pc[m.peer] = "leaving"
    PROVE  LeftMeansGone'
<1> SUFFICES ASSUME NEW x \in Conns, NEW e \in Range(chan'[x]), e.type = "Left"
             PROVE  pc'[e.peer] = "leaving"
  BY DEF LeftMeansGone
<1>1. (e \in Range(chan[x]) /\ e \in Message) \/ e = m
  <2>1. \A y \in Range(chan[x]) : y \in Message
    BY DEF TypeInv, TypeOK, Range
  <2> QED BY <2>1, PushedRange DEF TypeInv
<1>2. e \in Message /\ pc[e.peer] = "leaving"
  BY <1>1 DEF LeftMeansGone
<1>3. e.peer \in Conns
  BY <1>2 DEF Message, PeerTypes, Error
<1> QED BY <1>2, <1>3, LeavingIsFinal

\* Queues that only lose messages keep LeftMeansGone.
LEMMA ShrinkLeft ==
    ASSUME TypeInv, LeftMeansGone, [Next]_vars,
           \A x \in Conns : Range(chan'[x]) \subseteq Range(chan[x])
    PROVE  LeftMeansGone'
<1> SUFFICES ASSUME NEW x \in Conns, NEW e \in Range(chan'[x]), e.type = "Left"
             PROVE  pc'[e.peer] = "leaving"
  BY DEF LeftMeansGone
<1>1. e \in Range(chan[x]) /\ e \in Message
  <2>1. \A y \in Range(chan[x]) : y \in Message
    BY DEF TypeInv, TypeOK, Range
  <2> QED BY <2>1
<1>2. e.peer \in Conns
  BY <1>1 DEF Message, PeerTypes, Error
<1> QED BY <1>1, <1>2, LeavingIsFinal DEF LeftMeansGone

\* The steps that leave the queues alone.
LEMMA ChanUnchanged ==
    ASSUME \/ \E c \in Conns :
                 \/ Reject(c) \/ Accept(c) \/ SelectExit(c) \/ Disconnect(c)
                 \/ RecvOverLimit(c) \/ RecvTaskEnd(c) \/ RecvTaskCancelled(c)
                 \/ ClientClose(c)
                 \/ \E i \in Infos : RecvUpdate(c, i)
                 \/ \E kind \in {"Offer", "Answer"}, t \in Conns : RecvSdp(c, kind, t)
           \/ ClearRequests
           \/ UNCHANGED vars
    PROVE  chan' = chan
  BY DEF Reject, Accept, SelectExit, Disconnect, RecvOverLimit, RecvTaskEnd,
         RecvTaskCancelled, ClientClose, RecvUpdate, RecvSdp, ClearRequests, vars

\* A queued Left always belongs to a handler that is leaving.
LEMMA LeftStep ==
    TypeInv /\ OutIsOwn /\ LeftMeansGone /\ [Next]_vars => LeftMeansGone'
<1> SUFFICES ASSUME TypeInv, OutIsOwn, LeftMeansGone, [Next]_vars PROVE LeftMeansGone'
  OBVIOUS
<1> USE DEF TypeInv
<1>1. ASSUME NEW c \in Conns, SendJoin(c) PROVE LeftMeansGone'
  <2>1. Head(todo[c]) \in Conns
    BY <1>1, RangeTail DEF SendJoin, TypeOK
  <2>2. PeerMsg("Join", c, self[c]) \in Message /\ PeerMsg("Join", c, self[c]).type # "Left"
    BY MessageTypes DEF TypeOK, PeerTypes, PeerMsg
  <2> QED BY <1>1, <2>1, <2>2, PushedLeft DEF SendJoin
<1>2. ASSUME NEW c \in Conns, SendHello(c) PROVE LeftMeansGone'
  <2>1. Hello(snapshot[c]) \in Message /\ Hello(snapshot[c]).type # "Left"
    BY MessageTypes, InfosAssumption DEF TypeOK, Hello
  <2> QED BY <1>2, <2>1, PushedLeft DEF SendHello
<1>3. ASSUME NEW c \in Conns, SendLeft(c) PROVE LeftMeansGone'
  <2>1. Head(todo[c]) \in Conns
    BY <1>3, RangeTail DEF SendLeft, TypeOK
  <2>2. Left(c) \in Message /\ Left(c).peer = c
    BY MessageTypes, InfosAssumption DEF Left
  <2> QED BY <1>3, <2>1, <2>2, PushedLeft DEF SendLeft
<1>4. ASSUME NEW c \in Conns, SendOut(c) PROVE LeftMeansGone'
  <2>1. Head(outTo[c]) \in Conns
    BY <1>4, RangeTail DEF SendOut, TypeOK, SendingHasTarget
  <2>2. out[c] \in Message /\ out[c].type # "Left"
    <3>1. CASE out[c] = Error
      BY <3>1 DEF TypeOK, Error
    <3>2. ASSUME NEW t \in {"Update", "Offer", "Answer"}, NEW i \in Infos,
                 out[c] = PeerMsg(t, c, i)
          PROVE  out[c] \in Message /\ out[c].type # "Left"
      BY <3>2 DEF TypeOK, PeerMsg
    <3> QED BY <3>1, <3>2 DEF OutIsOwn
  <2> QED BY <1>4, <2>1, <2>2, PushedLeft DEF SendOut
<1>5. ASSUME NEW c \in Conns, SendTaskWrite(c) PROVE LeftMeansGone'
  <2>1. Range(Tail(chan[c])) \subseteq Range(chan[c])
    BY <1>5, RangeTail DEF SendTaskWrite, TypeOK
  <2>2. \A x \in Conns : Range(chan'[x]) \subseteq Range(chan[x])
    BY <1>5, <2>1 DEF SendTaskWrite, TypeOK
  <2> QED BY <2>2, ShrinkLeft
<1>6. ASSUME NEW c \in Conns, SendTaskBreak(c) \/ SendTaskCancelled(c) PROVE LeftMeansGone'
  <2>1. \A x \in Conns : chan'[x] = chan[x] \/ chan'[x] = <<>>
    BY <1>6 DEF SendTaskBreak, SendTaskCancelled, TypeOK
  <2>2. \A x \in Conns : Range(chan'[x]) \subseteq Range(chan[x])
    BY <2>1, RangeEmpty
  <2> QED BY <2>2, ShrinkLeft
<1>7. ASSUME chan' = chan PROVE LeftMeansGone'
  BY <1>7, ShrinkLeft
<1> QED BY <1>1, <1>2, <1>3, <1>4, <1>5, <1>6, <1>7, ChanUnchanged
        DEF Next, HandlerNext, RecvTaskNext, SendTaskNext

\* A peer that is listed, queued or about to be told of q stays so while its
\* queue and roster only grow and the handlers keep what they have to send.
LEMMA LearnsGrows ==
    ASSUME NEW p \in Conns, NEW q \in Conns, Learns(p, q),
           roster'[p] = roster[p],
           Range(chan[p]) \subseteq Range(chan'[p]),
           pc'[q] = pc[q], todo'[q] = todo[q],
           pc'[p] = pc[p], snapshot'[p] = snapshot[p]
    PROVE  Learns(p, q)'
  BY DEF Learns, Lists

\* Applying a message that is not q's Left never takes q off the roster, and
\* applying one that lists q puts it there.
LEMMA AppliedKnows ==
    ASSUME NEW ds \in SUBSET Device, NEW m \in Message, NEW q \in Conns,
           ~(m.type = "Left" /\ m.peer = q),
           (\E d \in ds : d.peer = q) \/ Lists(m, q)
    PROVE  \E d \in Applied(ds, m) : d.peer = q
<1>1. CASE m.type = "Hello"
  <2>1. Applied(ds, m) = RegisterAll(ds, m.peers)
    BY <1>1 DEF Applied
  <2>2. ASSUME NEW d \in m.peers, d.peer = q PROVE \E e \in Applied(ds, m) : e.peer = q
    BY <2>1, <2>2 DEF RegisterAll
  <2>3. ASSUME NEW d \in ds, d.peer = q PROVE \E e \in Applied(ds, m) : e.peer = q
    BY <2>1, <2>3 DEF RegisterAll
  <2> QED BY <1>1, <2>2, <2>3 DEF Lists
<1>2. CASE m.type \in {"Join", "Update"}
  <2>1. Applied(ds, m) = Register(ds, [peer |-> m.peer, info |-> m.info])
    BY <1>2 DEF Applied
  <2>2. CASE m.peer = q
    BY <2>1, <2>2 DEF Register
  <2>3. ASSUME NEW d \in ds, d.peer = q PROVE \E e \in Applied(ds, m) : e.peer = q
    BY <2>1, <2>3 DEF Register
  <2> QED BY <1>2, <2>2, <2>3 DEF Lists
<1>3. CASE m.type = "Left"
  <2>1. Applied(ds, m) = Unregister(ds, m.peer)
    BY <1>3 DEF Applied
  <2> QED BY <1>3, <2>1 DEF Unregister, Lists
<1>4. CASE m.type \notin {"Hello", "Join", "Update", "Left"}
  <2>1. Applied(ds, m) = ds
    BY <1>4 DEF Applied
  <2> QED BY <1>4, <2>1 DEF Lists
<1> QED BY <1>1, <1>2, <1>3, <1>4

\* Whatever step is taken, two members of a room do not lose each other.
LEMMA NoMissingStep ==
    TypeInv /\ RosterInv /\ [Next]_vars => NoMissingPeer'
<1> SUFFICES ASSUME TypeInv, RosterInv, [Next]_vars,
                    NEW p \in members', NEW q \in members',
                    p # q, Group(p) = Group(q), RxAlive(p)'
             PROVE  Learns(p, q)'
  BY DEF NoMissingPeer
<1> USE DEF TypeInv, RosterInv
<1>0. p \in Conns /\ q \in Conns
  BY TypeStep DEF TypeOK
<1>1. ASSUME NEW c \in Conns, Accept(c) PROVE Learns(p, q)'
  <2>1. PICK s \in Orders(Room(Group(c))) : todo' = [todo EXCEPT ![c] = s]
    BY <1>1 DEF Accept, PeersToNotify
  <2>2. s \in Seq(Conns) /\ Range(s) = Room(Group(c))
    BY OrdersOf DEF Room, TypeOK
  <2>3. CASE p = c
    <3>1. q \in Room(Group(c))
      BY <1>1, <2>3 DEF Accept, Room
    <3>2. pc'[p] = "joining" /\ [peer |-> q, info |-> client[q]] \in snapshot'[p]
      BY <1>1, <2>3, <3>1 DEF Accept, TypeOK
    <3> QED BY <3>2 DEF Learns
  <2>4. CASE q = c
    <3>1. p \in Room(Group(c))
      BY <1>1, <2>4 DEF Accept, Room
    <3>2. pc'[q] = "joining" /\ p \in Range(todo'[q])
      BY <1>1, <2>1, <2>2, <2>4, <3>1 DEF Accept, TypeOK
    <3> QED BY <3>2 DEF Learns
  <2>5. CASE p # c /\ q # c
    <3>1. Learns(p, q)
      BY <1>1, <2>5 DEF Accept, NoMissingPeer, RxAlive, tasks
    <3> QED BY <1>0, <1>1, <2>1, <2>5, <3>1, LearnsGrows DEF Accept, TypeOK, ends
  <2> QED BY <2>3, <2>4, <2>5
<1>2. ASSUME NEW c \in Conns, SendJoin(c) PROVE Learns(p, q)'
  <2>1. /\ Head(todo[c]) \in Conns
        /\ Range(todo[c]) = {Head(todo[c])} \cup Range(Tail(todo[c]))
    BY <1>2, RangeTail DEF SendJoin, TypeOK
  <2>2. PeerMsg("Join", c, self[c]) \in Message
    BY MessageTypes DEF TypeOK, PeerTypes
  <2>3. /\ Range(chan[p]) \subseteq Range(chan'[p])
        /\ (p = Head(todo[c]) /\ RxAlive(p)) => PeerMsg("Join", c, self[c]) \in Range(chan'[p])
    <3>1. chan' = Pushed(Head(todo[c]), PeerMsg("Join", c, self[c]))
      BY <1>2 DEF SendJoin
    <3> DEFINE h == Head(todo[c])
               m == PeerMsg("Join", c, self[c])
    <3>2. h \in Conns /\ m \in Message /\ chan' = Pushed(h, m) /\ p \in Conns
      BY <1>0, <2>1, <2>2, <3>1
    <3> HIDE DEF h, m
    <3>3. /\ Range(chan[p]) \subseteq Range(chan'[p])
          /\ (p = h /\ RxAlive(h)) => m \in Range(chan'[p])
      BY <3>2, PushedRange
    <3> QED BY <3>3 DEF h, m
  <2>4. Learns(p, q) /\ RxAlive(p)
    BY <1>2 DEF SendJoin, NoMissingPeer, RxAlive, server, tasks
  <2>5. CASE q # c
    BY <1>0, <1>2, <2>3, <2>4, <2>5, LearnsGrows DEF SendJoin, TypeOK, ends
  <2>6. CASE q = c /\ p = Head(todo[c])
    <3>1. Lists(PeerMsg("Join", c, self[c]), q)
      BY <2>6 DEF Lists, PeerMsg
    <3> QED BY <2>3, <2>4, <2>6, <3>1 DEF Learns, Lists
  <2>7. CASE q = c /\ p # Head(todo[c])
    <3>1. p \in Range(todo[q]) => p \in Range(todo'[q])
      BY <1>2, <2>1, <2>7 DEF SendJoin, TypeOK
    <3> QED BY <1>2, <2>3, <2>4, <3>1 DEF SendJoin, Learns, Lists, ends
  <2> QED BY <2>5, <2>6, <2>7
<1>3. ASSUME NEW c \in Conns, SendHello(c) PROVE Learns(p, q)'
  <2>1. Hello(snapshot[c]) \in Message
    BY MessageTypes, InfosAssumption DEF TypeOK
  <2>2. Learns(p, q) /\ (p = c => RxAlive(p))
    <3>1. members' = members /\ (p # c => sendTask'[p] = sendTask[p])
      BY <1>0, <1>3 DEF SendHello, server, TypeOK
    <3>2. RxAlive(c)
      BY <1>3 DEF SendHello, NoneBeforeServing, RxAlive
    <3> QED BY <3>1, <3>2 DEF NoMissingPeer, RxAlive
  <2>3. /\ Range(chan[p]) \subseteq Range(chan'[p])
        /\ (p = c /\ RxAlive(p)) => Hello(snapshot[c]) \in Range(chan'[p])
    BY <1>0, <1>3, <2>1, PushedRange DEF SendHello
  <2>4. CASE \E d \in roster[p] : d.peer = q
    BY <1>3, <2>4 DEF SendHello, Learns, ends
  <2>5. CASE \E m \in Range(chan[p]) : Lists(m, q)
    BY <2>3, <2>5 DEF Learns, Lists
  <2>6. CASE pc[q] = "joining" /\ p \in Range(todo[q])
    <3>1. q # c
      BY <1>3, <2>6, RangeEmpty DEF SendHello
    <3> QED BY <1>0, <1>3, <2>6, <3>1 DEF SendHello, Learns, TypeOK
  <2>7. CASE pc[p] = "joining" /\ \E d \in snapshot[p] : d.peer = q
    <3>1. CASE p = c
      <4>1. Lists(Hello(snapshot[c]), q)
        BY <2>7, <3>1 DEF Lists, Hello
      <4> QED BY <2>2, <2>3, <3>1, <4>1 DEF Learns, Lists
    <3>2. CASE p # c
      BY <1>0, <1>3, <2>7, <3>2 DEF SendHello, Learns, TypeOK
    <3> QED BY <3>1, <3>2
  <2> QED BY <2>2, <2>4, <2>5, <2>6, <2>7 DEF Learns
<1>4. ASSUME NEW c \in Conns, SendTaskWrite(c) PROVE Learns(p, q)'
  <2>1. Learns(p, q)
    BY <1>4 DEF SendTaskWrite, NoMissingPeer, RxAlive, server, tasks
  <2>2. CASE p # c
    <3>1. roster'[p] = roster[p] /\ chan'[p] = chan[p]
      BY <1>0, <1>4, <2>2 DEF SendTaskWrite, TypeOK
    <3> QED BY <1>0, <1>4, <2>1, <3>1, LearnsGrows DEF SendTaskWrite, handler
  <2>3. CASE p = c
    <3>1. /\ Head(chan[c]) \in Message
          /\ Range(chan[c]) = {Head(chan[c])} \cup Range(Tail(chan[c]))
      BY <1>4, RangeTail DEF SendTaskWrite, TypeOK
    <3>2. roster'[p] = Applied(roster[p], Head(chan[p])) /\ chan'[p] = Tail(chan[p])
      BY <1>4, <2>3 DEF SendTaskWrite, TypeOK
    <3>3. ~(Head(chan[c]).type = "Left" /\ Head(chan[c]).peer = q)
      <4>1. pc[q] # "leaving"
        BY <1>0, <1>4 DEF SendTaskWrite, MembersByControl, server
      <4> QED BY <3>1, <4>1 DEF LeftMeansGone
    <3>4. CASE (\E d \in roster[p] : d.peer = q) \/ Lists(Head(chan[p]), q)
      <4>1. \E d \in roster'[p] : d.peer = q
        <5>1. roster[p] \in SUBSET Device
          BY <1>0 DEF TypeOK
        <5>2. \E d \in Applied(roster[p], Head(chan[p])) : d.peer = q
          BY <1>0, <2>3, <3>1, <3>3, <3>4, <5>1, AppliedKnows
        <5> QED BY <3>2, <5>2
      <4> QED BY <4>1 DEF Learns
    <3>5. CASE \E m \in Range(Tail(chan[p])) : Lists(m, q)
      BY <3>2, <3>5 DEF Learns, Lists
    <3>6. CASE \/ pc[q] = "joining" /\ p \in Range(todo[q])
               \/ pc[p] = "joining" /\ \E d \in snapshot[p] : d.peer = q
      BY <1>4, <3>6 DEF SendTaskWrite, Learns, handler
    <3> QED BY <2>1, <2>3, <3>1, <3>4, <3>5, <3>6 DEF Learns
  <2> QED BY <2>2, <2>3
<1>5. ASSUME NEW c \in Conns, SendTaskBreak(c) \/ SendTaskCancelled(c) PROVE Learns(p, q)'
  <2>1. p # c
    BY <1>5 DEF SendTaskBreak, SendTaskCancelled, RxAlive, TypeOK
  <2>2. chan'[p] = chan[p] /\ sendTask'[p] = sendTask[p]
    BY <1>0, <1>5, <2>1 DEF SendTaskBreak, SendTaskCancelled, TypeOK
  <2>3. UNCHANGED <<members, roster, pc, todo, snapshot>>
    BY <1>5 DEF SendTaskBreak, SendTaskCancelled, server, handler, ends
  <2>4. Learns(p, q)
    BY <2>2, <2>3 DEF NoMissingPeer, RxAlive
  <2> QED BY <1>0, <2>2, <2>3, <2>4, LearnsGrows
<1>6. ASSUME NEW c \in Conns, SendOut(c) PROVE Learns(p, q)'
  <2>1. Head(outTo[c]) \in Conns /\ out[c] \in Message
    BY <1>6, RangeTail DEF SendOut, TypeOK, SendingHasTarget
  <2>2. Range(chan[p]) \subseteq Range(chan'[p])
    <3>1. chan' = Pushed(Head(outTo[c]), out[c])
      BY <1>6 DEF SendOut
    <3> QED BY <1>0, <2>1, <3>1, PushedRange
  <2>3. Learns(p, q)
    BY <1>6 DEF SendOut, NoMissingPeer, RxAlive, server
  <2> QED BY <1>0, <1>6, <2>2, <2>3, LearnsGrows DEF SendOut, handler, ends
<1>7. ASSUME NEW c \in Conns, SelectExit(c) PROVE Learns(p, q)'
  <2>1. Learns(p, q)
    BY <1>7 DEF SelectExit, NoMissingPeer, RxAlive, server
  <2>2. \A x \in Conns : pc[x] = "joining" => pc'[x] = "joining"
    BY <1>7 DEF SelectExit, TypeOK
  <2> QED BY <1>0, <1>7, <2>1, <2>2 DEF SelectExit, Learns, Lists, ends
<1>8. ASSUME NEW c \in Conns, Disconnect(c) PROVE Learns(p, q)'
  <2>1. Learns(p, q) /\ p # c /\ q # c
    BY <1>8 DEF Disconnect, NoMissingPeer, RxAlive, tasks
  <2>2. /\ todo'[q] = todo[q] /\ pc'[q] = pc[q] /\ pc'[p] = pc[p]
        /\ UNCHANGED <<snapshot, chan, roster>>
    BY <1>0, <1>8, <2>1 DEF Disconnect, TypeOK, ends
  <2> QED BY <1>0, <2>1, <2>2, LearnsGrows
<1>9. ASSUME NEW c \in Conns, SendLeft(c) PROVE Learns(p, q)'
  <2>1. Head(todo[c]) \in Conns /\ Left(c) \in Message
    BY <1>9, RangeTail, MessageTypes, InfosAssumption DEF SendLeft, TypeOK
  <2>2. Range(chan[p]) \subseteq Range(chan'[p])
    BY <1>0, <1>9, <2>1, PushedRange DEF SendLeft
  <2>3. Learns(p, q) /\ q # c
    BY <1>0, <1>9 DEF SendLeft, NoMissingPeer, RxAlive, MembersByControl, server, tasks
  <2>4. todo'[q] = todo[q] /\ UNCHANGED <<pc, snapshot, roster>>
    BY <1>0, <1>9, <2>3 DEF SendLeft, TypeOK, ends
  <2> QED BY <1>0, <2>2, <2>3, <2>4, LearnsGrows
<1>10. ASSUME NEW c \in Conns, Reject(c) PROVE Learns(p, q)'
  <2>1. Learns(p, q)
    BY <1>10 DEF Reject, NoMissingPeer, RxAlive, tasks
  <2>2. \A x \in Conns : pc[x] = "joining" => pc'[x] = "joining"
    BY <1>10 DEF Reject, TypeOK
  <2> QED BY <1>0, <1>10, <2>1, <2>2 DEF Reject, Learns, Lists
<1>11. ASSUME UNCHANGED <<members, pc, todo, snapshot, sendTask, chan, roster>>
       PROVE  Learns(p, q)'
  BY <1>11 DEF NoMissingPeer, RxAlive, Learns, Lists
<1>12. ASSUME NEW c \in Conns,
              \/ RecvOverLimit(c) \/ RecvTaskEnd(c) \/ RecvTaskCancelled(c) \/ ClientClose(c)
              \/ \E i \in Infos : RecvUpdate(c, i)
              \/ \E kind \in {"Offer", "Answer"}, t \in Conns : RecvSdp(c, kind, t)
       PROVE  UNCHANGED <<members, pc, todo, snapshot, sendTask, chan, roster>>
  BY <1>12 DEF RecvOverLimit, RecvTaskEnd, RecvTaskCancelled, ClientClose, RecvUpdate,
               RecvSdp, server, handler, tasks, ends
<1>13. ASSUME ClearRequests \/ UNCHANGED vars
       PROVE  UNCHANGED <<members, pc, todo, snapshot, sendTask, chan, roster>>
  BY <1>13 DEF ClearRequests, vars, server, handler, tasks, ends
<1> QED
  BY <1>1, <1>2, <1>3, <1>4, <1>5, <1>6, <1>7, <1>8, <1>9, <1>10, <1>11, <1>12, <1>13
  DEF Next, HandlerNext, RecvTaskNext, SendTaskNext

\* No task runs before the handler has queued its Hello.
LEMMA NoneBeforeStep ==
    TypeInv /\ NoneBeforeServing /\ [Next]_vars => NoneBeforeServing'
<1> SUFFICES ASSUME TypeInv, NoneBeforeServing, [Next]_vars PROVE NoneBeforeServing'
  OBVIOUS
<1> USE DEF TypeInv, TypeOK, NoneBeforeServing
<1>1. ASSUME NEW c \in Conns, Reject(c) \/ Accept(c) PROVE NoneBeforeServing'
  BY <1>1 DEF Reject, Accept, tasks
<1>2. ASSUME NEW c \in Conns, SendHello(c) \/ SelectExit(c) PROVE NoneBeforeServing'
  BY <1>2 DEF SendHello, SelectExit
<1>3. ASSUME NEW c \in Conns, Disconnect(c) PROVE NoneBeforeServing'
  BY <1>3 DEF Disconnect, tasks
<1>4. ASSUME NEW c \in Conns, SendTaskBreak(c) \/ SendTaskCancelled(c) PROVE NoneBeforeServing'
  BY <1>4 DEF SendTaskBreak, SendTaskCancelled, handler
<1>5. ASSUME UNCHANGED <<pc, sendTask, aborted>> PROVE NoneBeforeServing'
  BY <1>5
<1>6. ASSUME NEW c \in Conns,
             SendJoin(c) \/ SendLeft(c) \/ ClientClose(c) \/ SendTaskWrite(c) \/ RecvTaskNext(c)
      PROVE  UNCHANGED <<pc, sendTask, aborted>>
  BY <1>6 DEF SendJoin, SendLeft, ClientClose, SendTaskWrite, RecvTaskNext, RecvOverLimit,
              RecvUpdate, RecvSdp, SendOut, RecvTaskEnd, RecvTaskCancelled, handler, tasks
<1>7. ASSUME ClearRequests \/ UNCHANGED vars PROVE UNCHANGED <<pc, sendTask, aborted>>
  BY <1>7 DEF ClearRequests, vars, handler, tasks
<1> QED BY <1>1, <1>2, <1>3, <1>4, <1>5, <1>6, <1>7 DEF Next, HandlerNext, SendTaskNext

\* Two peers of one room never miss each other: from the moment both are in
\* tx_map, each lists the other or has the news on its way, although Join and
\* Hello are sent after the lock is released, through channels that block.
THEOREM NobodyIsMissed == Spec => []NoMissingPeer
<1>1. Init => RosterInv /\ IsolationInv
  BY RangeEmpty DEF Init, RosterInv, MembersByControl, NoneBeforeServing, OutIsOwn,
     LeftMeansGone, NoMissingPeer, IsolationInv, RoomIsolation, PendingIsolated
<1>2. TypeInv /\ IsolationInv /\ RosterInv /\ [Next]_vars => IsolationInv' /\ RosterInv'
  BY IsolationStep, ControlStep, NoneBeforeStep, LeftStep, NoMissingStep
  DEF RosterInv, IsolationInv
<1> QED BY <1>1, <1>2, TypeInit, TypeStep, PTL DEF Spec, RosterInv

----------------------------------------------------------------------------
(* Nobody is told twice *)

\* No element of s occurs twice.
Once(s) == \A i, j \in DOMAIN s : s[i] = s[j] => i = j

\* A handler has each peer to tell once.
TodoOnce == \A c \in Conns : Once(todo[c])

\* An order of a set of peers names each of them once.
LEMMA OrdersOnce ==
    ASSUME NEW S \in SUBSET Conns, NEW s \in Orders(S)
    PROVE  Once(s)
<1>1. IsFiniteSet(S)
  BY ConnsAssumption, FS_Subset
<1> DEFINE n == Cardinality(S)
           D == 1 .. n
<1>2. n \in Nat
  BY <1>1, FS_CardinalityType
<1>3. IsFiniteSet(D) /\ Cardinality(D) = n
  BY <1>2, FS_Interval
<1>4. s \in [D -> S] /\ Range(s) = S
  BY DEF Orders
<1> HIDE DEF n, D
<1>5. s \in Surjection(D, S)
  BY <1>4 DEF Surjection, Range
<1>6. s \in Injection(D, S)
  BY <1>1, <1>3, <1>5, FS_Surjection DEF n
<1> QED BY <1>4, <1>6 DEF Injection, IsInjective, Once

\* The rest of a sequence without repetitions.
LEMMA OnceTail ==
    ASSUME NEW S, NEW s \in Seq(S), s # <<>>, Once(s)
    PROVE  Once(Tail(s)) /\ Head(s) \notin Range(Tail(s))
<1>1. /\ Tail(s) \in Seq(S) /\ Len(Tail(s)) = Len(s) - 1 /\ Head(s) = s[1]
      /\ Len(s) \in Nat /\ Len(s) > 0 /\ DOMAIN s = 1 .. Len(s)
      /\ DOMAIN Tail(s) = 1 .. (Len(s) - 1)
      /\ \A i \in 1 .. (Len(s) - 1) : Tail(s)[i] = s[i + 1]
  OBVIOUS
<1>2. Once(Tail(s))
  <2> SUFFICES ASSUME NEW i \in DOMAIN Tail(s), NEW j \in DOMAIN Tail(s), Tail(s)[i] = Tail(s)[j]
               PROVE  i = j
    BY DEF Once
  <2>1. i + 1 \in DOMAIN s /\ j + 1 \in DOMAIN s /\ s[i + 1] = s[j + 1]
    BY <1>1
  <2>2. i + 1 = j + 1
    BY <2>1 DEF Once
  <2> QED BY <1>1, <2>2
<1>3. ASSUME NEW i \in DOMAIN Tail(s) PROVE Tail(s)[i] # Head(s)
  <2>1. i + 1 \in DOMAIN s /\ 1 \in DOMAIN s /\ i + 1 # 1 /\ Tail(s)[i] = s[i + 1]
    BY <1>1
  <2> QED BY <1>1, <2>1 DEF Once
<1> QED BY <1>2, <1>3 DEF Range

----------------------------------------------------------------------------
(* Control *)

\* Nothing runs for a connection whose Hello has not been queued.
TasksAfterHello ==
    \A c \in Conns :
        pc[c] \in {"idle", "rejected", "joining"} => recvTask[c] = "none" /\ aborted[c] = FALSE

\* An Error is for the peer itself.
ErrorToSelf ==
    \A c \in Conns : recvTask[c] = "sending" /\ out[c] = Error => Range(outTo[c]) \subseteq {c}

RefinementInv ==
    /\ TypeInv /\ IsolationInv /\ MembersByControl /\ NoneBeforeServing
    /\ TodoOnce /\ TasksAfterHello /\ ErrorToSelf

\* Every step keeps the lists of peers free of repetitions.
LEMMA TodoStep == TypeInv /\ TodoOnce /\ [Next]_vars => TodoOnce'
<1> SUFFICES ASSUME TypeInv, TodoOnce, [Next]_vars PROVE TodoOnce'
  OBVIOUS
<1>0. todo \in [Conns -> Seq(Conns)] /\ \A g : Room(g) \in SUBSET Conns
  BY DEF TypeInv, TypeOK, Room
<1>1. ASSUME NEW c \in Conns, NEW s, Once(s), todo' = [todo EXCEPT ![c] = s] PROVE TodoOnce'
  BY <1>0, <1>1 DEF TodoOnce
<1>2. ASSUME NEW c \in Conns, Accept(c) PROVE TodoOnce'
  <2>1. PICK s \in Orders(Room(Group(c))) : todo' = [todo EXCEPT ![c] = s]
    BY <1>2 DEF Accept, PeersToNotify
  <2> QED BY <1>0, <1>1, <2>1, OrdersOnce
<1>3. ASSUME NEW c \in Conns, Disconnect(c) PROVE TodoOnce'
  <2>1. PICK s \in Orders(Room(Group(c)) \ {c}) : todo' = [todo EXCEPT ![c] = s]
    BY <1>3 DEF Disconnect, Remaining
  <2>2. Room(Group(c)) \ {c} \in SUBSET Conns
    BY <1>0
  <2> QED BY <1>1, <2>1, <2>2, OrdersOnce
<1>4. ASSUME NEW c \in Conns, SendJoin(c) \/ SendLeft(c) PROVE TodoOnce'
  <2>1. todo[c] # <<>> /\ todo' = [todo EXCEPT ![c] = Tail(todo[c])]
    BY <1>4 DEF SendJoin, SendLeft
  <2>2. Once(Tail(todo[c]))
    BY <1>0, <2>1, OnceTail DEF TodoOnce
  <2> QED BY <1>1, <2>1, <2>2
<1>5. CASE UNCHANGED todo
  BY <1>5 DEF TodoOnce
<1>6. ASSUME NEW c \in Conns,
             \/ Reject(c) \/ SendHello(c) \/ SelectExit(c) \/ ClientClose(c)
             \/ RecvTaskNext(c) \/ SendTaskNext(c)
      PROVE  UNCHANGED todo
  BY <1>6 DEF Reject, SendHello, SelectExit, ClientClose, RecvTaskNext, SendTaskNext,
     RecvOverLimit, RecvUpdate, RecvSdp, SendOut, RecvTaskEnd, RecvTaskCancelled,
     SendTaskWrite, SendTaskBreak, SendTaskCancelled, handler
<1>7. CASE ClearRequests \/ UNCHANGED vars
  BY <1>5, <1>7 DEF ClearRequests, vars, handler
<1> QED BY <1>2, <1>3, <1>4, <1>5, <1>6, <1>7 DEF Next, HandlerNext

\* Every step keeps the tasks behind the Hello.
LEMMA TasksStep == TypeInv /\ TasksAfterHello /\ [Next]_vars => TasksAfterHello'
<1> SUFFICES ASSUME TypeInv, TasksAfterHello, [Next]_vars PROVE TasksAfterHello'
  OBVIOUS
<1>0. /\ recvTask \in [Conns -> {"none", "reading", "sending", "over"}]
      /\ pc \in [Conns -> {"idle", "rejected", "joining", "serving", "closing", "leaving"}]
      /\ aborted \in [Conns -> BOOLEAN]
  BY DEF TypeInv, TypeOK
<1>1. ASSUME NEW c \in Conns, Reject(c) \/ Accept(c) PROVE TasksAfterHello'
  BY <1>0, <1>1 DEF Reject, Accept, TasksAfterHello, tasks
<1>2. ASSUME NEW c \in Conns, SendHello(c) \/ SelectExit(c) \/ Disconnect(c) PROVE TasksAfterHello'
  <2>1. \A x \in Conns \ {c} : pc'[x] = pc[x] /\ recvTask'[x] = recvTask[x] /\ aborted'[x] = aborted[x]
    BY <1>0, <1>2 DEF SendHello, SelectExit, Disconnect, tasks
  <2>2. pc'[c] \in {"serving", "closing", "leaving"}
    BY <1>0, <1>2 DEF SendHello, SelectExit, Disconnect
  <2> QED BY <2>1, <2>2 DEF TasksAfterHello
<1>3. ASSUME NEW c \in Conns, UNCHANGED <<pc, aborted>>, recvTask[c] # "none" \/ aborted[c] = TRUE,
             \A x \in Conns \ {c} : recvTask'[x] = recvTask[x]
      PROVE  TasksAfterHello'
  BY <1>3 DEF TasksAfterHello
<1>4. ASSUME NEW c \in Conns, RecvTaskNext(c) PROVE TasksAfterHello'
  <2>1. UNCHANGED <<pc, aborted>> /\ (recvTask[c] # "none" \/ aborted[c] = TRUE)
    BY <1>0, <1>4 DEF RecvTaskNext, RecvOverLimit, RecvUpdate, RecvSdp, SendOut, RecvTaskEnd,
       RecvTaskCancelled, Reading, handler
  <2>2. \A x \in Conns \ {c} : recvTask'[x] = recvTask[x]
    BY <1>0, <1>4 DEF RecvTaskNext, RecvOverLimit, RecvUpdate, RecvSdp, SendOut, RecvTaskEnd,
       RecvTaskCancelled, Sends
  <2> QED BY <1>3, <2>1, <2>2
<1>5. CASE UNCHANGED <<pc, recvTask, aborted>>
  BY <1>5 DEF TasksAfterHello
<1>6. ASSUME NEW c \in Conns, SendJoin(c) \/ SendLeft(c) \/ ClientClose(c) \/ SendTaskNext(c)
      PROVE  TasksAfterHello'
  BY <1>5, <1>6 DEF SendJoin, SendLeft, ClientClose, SendTaskNext, SendTaskWrite, SendTaskBreak,
     SendTaskCancelled, handler, tasks
<1>7. CASE ClearRequests \/ UNCHANGED vars
  BY <1>5, <1>7 DEF ClearRequests, vars, handler, tasks
<1> QED BY <1>1, <1>2, <1>4, <1>6, <1>7 DEF Next, HandlerNext

\* A task that starts to send an Error sends it to its own peer.
LEMMA ErrorSends ==
    ASSUME TypeInv, ErrorToSelf, NEW c \in Conns, NEW m, NEW s, Sends(c, m, s),
           m = Error => Range(s) \subseteq {c}
    PROVE  ErrorToSelf'
  BY DEF ErrorToSelf, Sends, TypeInv, TypeOK

\* Every step keeps an Error for the peer itself.
LEMMA ErrorStep == TypeInv /\ ErrorToSelf /\ [Next]_vars => ErrorToSelf'
<1> SUFFICES ASSUME TypeInv, ErrorToSelf, [Next]_vars PROVE ErrorToSelf'
  OBVIOUS
<1>0. /\ recvTask \in [Conns -> {"none", "reading", "sending", "over"}]
      /\ out \in [Conns -> Message] /\ outTo \in [Conns -> Seq(Conns)]
  BY DEF TypeInv, TypeOK
<1>1. ASSUME NEW c \in Conns, RecvOverLimit(c) PROVE ErrorToSelf'
  <2>1. Range(<<c>>) \subseteq {c}
    BY DEF Range
  <2> QED BY <1>1, <2>1, ErrorSends DEF RecvOverLimit
<1>2. \A t, q, i : PeerMsg(t, q, i) # Error
  BY DEF PeerMsg, Error
<1>3. ASSUME NEW c \in Conns, NEW i \in Infos, RecvUpdate(c, i) PROVE ErrorToSelf'
  BY <1>2, <1>3, ErrorSends DEF RecvUpdate
<1>4. ASSUME NEW c \in Conns, NEW kind, NEW t, RecvSdp(c, kind, t) PROVE ErrorToSelf'
  BY <1>2, <1>4, ErrorSends DEF RecvSdp
<1>5. ASSUME NEW c \in Conns, SendOut(c) PROVE ErrorToSelf'
  <2>1. outTo[c] # <<>> /\ outTo' = [outTo EXCEPT ![c] = Tail(outTo[c])]
    BY <1>5 DEF SendOut, TypeInv, SendingHasTarget
  <2>2. Range(Tail(outTo[c])) \subseteq Range(outTo[c])
    BY <1>0, <2>1, RangeTail
  <2>3. CASE Tail(outTo[c]) # <<>>
    <3>1. UNCHANGED <<out, recvTask>>
      BY <1>5, <2>3 DEF SendOut
    <3> QED BY <1>0, <2>1, <2>2, <3>1 DEF ErrorToSelf
  <2>4. CASE Tail(outTo[c]) = <<>>
    <3>1. recvTask'[c] # "sending"
      BY <1>0, <1>5, <2>4 DEF SendOut
    <3>2. \A x \in Conns \ {c} : recvTask'[x] = recvTask[x] /\ out'[x] = out[x] /\ outTo'[x] = outTo[x]
      BY <1>0, <1>5, <2>4 DEF SendOut
    <3> QED BY <3>1, <3>2 DEF ErrorToSelf
  <2> QED BY <2>3, <2>4
<1>6. ASSUME NEW c \in Conns, RecvTaskEnd(c) \/ RecvTaskCancelled(c) PROVE ErrorToSelf'
  <2>1. /\ recvTask'[c] # "sending"
        /\ \A x \in Conns \ {c} : recvTask'[x] = recvTask[x] /\ out'[x] = out[x] /\ outTo'[x] = outTo[x]
    BY <1>0, <1>6 DEF RecvTaskEnd, RecvTaskCancelled
  <2> QED BY <2>1 DEF ErrorToSelf
<1>7. ASSUME NEW c \in Conns, SendHello(c) PROVE ErrorToSelf'
  <2>1. /\ recvTask'[c] # "sending" /\ UNCHANGED <<out, outTo>>
        /\ \A x \in Conns \ {c} : recvTask'[x] = recvTask[x]
    BY <1>0, <1>7 DEF SendHello
  <2> QED BY <2>1 DEF ErrorToSelf
<1>8. CASE UNCHANGED <<recvTask, out, outTo>>
  BY <1>8 DEF ErrorToSelf
<1>9. ASSUME NEW c \in Conns,
             \/ Reject(c) \/ Accept(c) \/ SendJoin(c) \/ SelectExit(c) \/ Disconnect(c)
             \/ SendLeft(c) \/ SendTaskNext(c) \/ ClientClose(c)
      PROVE  ErrorToSelf'
  BY <1>8, <1>9 DEF Reject, Accept, SendJoin, SelectExit, Disconnect, SendLeft, SendTaskNext,
     SendTaskWrite, SendTaskBreak, SendTaskCancelled, ClientClose, tasks
<1>10. CASE ClearRequests \/ UNCHANGED vars
  BY <1>8, <1>10 DEF ClearRequests, vars, tasks
<1> QED BY <1>1, <1>3, <1>4, <1>5, <1>6, <1>7, <1>9, <1>10 DEF Next, HandlerNext, RecvTaskNext

\* The invariant holds initially and is kept by every step.
LEMMA RefinementInvariance == Spec => []RefinementInv
<1>1. Init => RefinementInv
  <2> SUFFICES ASSUME Init PROVE RefinementInv
    OBVIOUS
  <2>1. TypeInv
    BY TypeInit
  <2>2. IsolationInv /\ MembersByControl /\ NoneBeforeServing
    BY RangeEmpty DEF Init, IsolationInv, RoomIsolation, PendingIsolated, OutIsOwn,
       MembersByControl, NoneBeforeServing
  <2>3. TodoOnce /\ TasksAfterHello /\ ErrorToSelf
    BY DEF Init, TodoOnce, TasksAfterHello, ErrorToSelf, Once
  <2> QED BY <2>1, <2>2, <2>3 DEF RefinementInv
<1>2. RefinementInv /\ [Next]_vars => RefinementInv'
  BY TypeStep, IsolationStep, ControlStep, NoneBeforeStep, TodoStep, TasksStep, ErrorStep
     DEF RefinementInv
<1> QED BY <1>1, <1>2, PTL DEF Spec

----------------------------------------------------------------------------
(* What is owed *)

\* What c owes is about c.
LEMMA OwedAbout == \A c : \A o \in OwedBy(c) : o[2] = c
  BY DEF OwedBy

\* A step of one handler changes only what that one owes.
LEMMA OwedChange ==
    ASSUME NEW c \in Conns, \A x \in Conns \ {c} : pc'[x] = pc[x] /\ todo'[x] = todo[x]
    PROVE  Owed' = (Owed \ OwedBy(c)) \cup OwedBy(c)'
<1>2. \A x \in Conns \ {c} : OwedBy(x)' = OwedBy(x)
  BY DEF OwedBy
<1>3. \A x \in Conns \ {c} : OwedBy(x) \cap OwedBy(c) = {}
  BY OwedAbout
<1>4. ASSUME NEW o PROVE o \in Owed' <=> o \in (Owed \ OwedBy(c)) \cup OwedBy(c)'
  BY <1>2, <1>3 DEF Owed
<1> QED BY <1>4

----------------------------------------------------------------------------
(* Steps of the server as steps of the room *)

Entered == {c \in Conns : pc[c] \notin {"idle", "rejected"}}
Closed == {c \in Conns : sendTask[c] = "over"}

\* The peers of a room are the room mates.
LEMMA MatesAre ==
    ASSUME TypeInv, NEW c \in Conns
    PROVE  Rooms!RoomMates(c) = Room(Group(c)) \ {c}
  BY DEF Rooms!RoomMates, Room, TypeInv, TypeOK

\* The critical section of a connection is an entry.
LEMMA AcceptEnters ==
    ASSUME RefinementInv, NEW c \in Conns, Accept(c)
    PROVE  Rooms!Enter(c)
<1> USE DEF RefinementInv
<1>0. /\ pc \in [Conns -> {"idle", "rejected", "joining", "serving", "closing", "leaving"}]
      /\ todo \in [Conns -> Seq(Conns)] /\ \A g : Room(g) \in SUBSET Conns
  BY DEF TypeInv, TypeOK, Room
<1>1. /\ pc[c] = "idle" /\ pc' = [pc EXCEPT ![c] = "joining"]
      /\ members' = members \cup {c} /\ UNCHANGED <<sendTask, chan>>
  BY DEF Accept, tasks
<1>2. PICK s \in Orders(Room(Group(c))) : todo' = [todo EXCEPT ![c] = s]
  BY DEF Accept, PeersToNotify
<1>3. c \notin Room(Group(c))
  BY <1>1 DEF MembersByControl, Room
<1>4. todo'[c] = s /\ Range(s) = Room(Group(c))
  BY <1>0, <1>2, OrdersOf
<1>5. Room(Group(c)) = Rooms!RoomMates(c)
  BY <1>3, MatesAre
<1>6. OwedBy(c) = {}
  BY <1>1 DEF OwedBy
<1>7. OwedBy(c)' = {<<"Hello", c, c>>} \cup {<<"Join", c, x>> : x \in Rooms!RoomMates(c)}
  BY <1>0, <1>1, <1>4, <1>5 DEF OwedBy
<1>8. Owed' = (Owed \ OwedBy(c)) \cup OwedBy(c)'
  BY <1>0, <1>1, <1>2, OwedChange
<1>9. c \notin Entered /\ Entered' = Entered \cup {c} /\ Closed' = Closed
  BY <1>0, <1>1 DEF Entered, Closed
<1>10. Owed' = Owed \cup {<<"Join", c, x>> : x \in Rooms!RoomMates(c)} \cup {<<"Hello", c, c>>}
  BY <1>6, <1>7, <1>8
<1> QED BY <1>1, <1>9, <1>10 DEF Rooms!Enter, Entered, Closed

\* A send is a post.
LEMMA PushPosts ==
    ASSUME NEW p \in Conns, NEW m
    PROVE  Rooms!Posted(p, m) = Pushed(p, m) /\ (Rooms!HasSpace(p) <=> CanPush(p))
  BY DEF Rooms!Posted, Rooms!HasSpace, Pushed, CanPush, RxAlive

\* A Join or a Left that is sent is owed no more.
LEMMA SendTodoPosts ==
    ASSUME RefinementInv, NEW c \in Conns, SendJoin(c) \/ SendLeft(c)
    PROVE  \E x \in Conns, m \in Message : Rooms!PostOwed(c, x, m)
<1> USE DEF RefinementInv
<1>0. /\ todo \in [Conns -> Seq(Conns)] /\ todo[c] \in Seq(Conns) /\ self[c] \in Infos
  BY DEF TypeInv, TypeOK
<1>1. /\ todo[c] # <<>> /\ CanPush(Head(todo[c])) /\ todo' = [todo EXCEPT ![c] = Tail(todo[c])]
      /\ UNCHANGED <<members, pc, sendTask>>
  BY DEF SendJoin, SendLeft, server, tasks
<1>2. PICK x \in Conns : x = Head(todo[c])
  BY <1>0, <1>1, RangeTail
<1>3. Range(Tail(todo[c])) = Range(todo[c]) \ {x} /\ x \in Range(todo[c])
  <2>1. Range(todo[c]) = {x} \cup Range(Tail(todo[c]))
    BY <1>0, <1>1, <1>2, RangeTail
  <2>2. x \notin Range(Tail(todo[c]))
    BY <1>0, <1>1, <1>2, OnceTail DEF TodoOnce
  <2> QED BY <2>1, <2>2
<1>4. Range(todo'[c]) = Range(todo[c]) \ {x}
  BY <1>0, <1>1, <1>3
<1>5. Owed' = (Owed \ OwedBy(c)) \cup OwedBy(c)' /\ OwedBy(c) \subseteq Owed
  BY <1>0, <1>1, OwedChange DEF Owed
<1>6. Entered' = Entered /\ Closed' = Closed /\ UNCHANGED members
  BY <1>1 DEF Entered, Closed
<1>7. CASE SendJoin(c)
  <2> DEFINE m == PeerMsg("Join", c, self[c])
  <2>1. pc[c] = "joining" /\ pc'[c] = "joining" /\ chan' = Pushed(x, m)
    BY <1>1, <1>2, <1>7 DEF SendJoin
  <2>2. m \in Message /\ m.type = "Join" /\ m.peer = c
    BY <1>0, MessageTypes DEF PeerTypes, PeerMsg
  <2> HIDE DEF m
  <2>3. /\ OwedBy(c) = {<<"Hello", c, c>>} \cup {<<"Join", c, y>> : y \in Range(todo[c])}
        /\ OwedBy(c)' = {<<"Hello", c, c>>} \cup {<<"Join", c, y>> : y \in Range(todo[c]) \ {x}}
    BY <1>4, <2>1 DEF OwedBy
  <2>4. OwedBy(c)' = OwedBy(c) \ {<<"Join", c, x>>} /\ <<"Join", c, x>> \in OwedBy(c)
    BY <1>3, <2>3
  <2>5. Owed' = Owed \ {<<"Join", c, x>>} /\ <<"Join", c, x>> \in Owed
    BY <1>5, <2>4
  <2>6. Rooms!PostOwed(c, x, m)
    BY <1>1, <1>2, <1>6, <2>1, <2>2, <2>5, PushPosts DEF Rooms!PostOwed, Entered, Closed
  <2> QED BY <2>2, <2>6
<1>8. CASE SendLeft(c)
  <2> DEFINE m == Left(c)
  <2>1. pc[c] = "leaving" /\ pc'[c] = "leaving" /\ chan' = Pushed(x, m)
    BY <1>1, <1>2, <1>8 DEF SendLeft
  <2>2. m \in Message /\ m.type = "Left" /\ m.peer = c
    BY <1>0, MessageTypes DEF Left
  <2> HIDE DEF m
  <2>3. /\ OwedBy(c) = {<<"Left", c, y>> : y \in Range(todo[c])}
        /\ OwedBy(c)' = {<<"Left", c, y>> : y \in Range(todo[c]) \ {x}}
    BY <1>4, <2>1 DEF OwedBy
  <2>4. OwedBy(c)' = OwedBy(c) \ {<<"Left", c, x>>} /\ <<"Left", c, x>> \in OwedBy(c)
    BY <1>3, <2>3
  <2>5. Owed' = Owed \ {<<"Left", c, x>>} /\ <<"Left", c, x>> \in Owed
    BY <1>5, <2>4
  <2>6. Rooms!PostOwed(c, x, m)
    BY <1>1, <1>2, <1>6, <2>1, <2>2, <2>5, PushPosts DEF Rooms!PostOwed, Entered, Closed
  <2> QED BY <2>2, <2>6
<1> QED BY <1>7, <1>8

\* Hello is posted when no Join of its peer is owed any more.
LEMMA HelloPosts ==
    ASSUME RefinementInv, NEW c \in Conns, SendHello(c)
    PROVE  \E m \in Message : Rooms!PostOwed(c, c, m)
<1> USE DEF RefinementInv
<1>0. /\ pc \in [Conns -> {"idle", "rejected", "joining", "serving", "closing", "leaving"}]
      /\ sendTask \in [Conns -> {"none", "running", "over"}] /\ snapshot[c] \in SUBSET Device
  BY DEF TypeInv, TypeOK
<1> DEFINE m == Hello(snapshot[c])
<1>1. /\ pc[c] = "joining" /\ todo[c] = <<>> /\ CanPush(c) /\ chan' = Pushed(c, m)
      /\ pc' = [pc EXCEPT ![c] = "serving"] /\ sendTask' = [sendTask EXCEPT ![c] = "running"]
      /\ UNCHANGED <<members, todo>>
  BY DEF SendHello, server
<1>2. m \in Message /\ m.type = "Hello"
  BY <1>0, InfosAssumption, MessageTypes DEF Hello
<1> HIDE DEF m
<1>3. sendTask[c] = "none"
  BY <1>1 DEF NoneBeforeServing
<1>4. Entered' = Entered /\ Closed' = Closed
  BY <1>0, <1>1, <1>3 DEF Entered, Closed
<1>5. OwedBy(c) = {<<"Hello", c, c>>} /\ OwedBy(c)' = {}
  BY <1>0, <1>1, RangeEmpty DEF OwedBy
<1>6. Owed' = Owed \ {<<"Hello", c, c>>} /\ <<"Hello", c, c>> \in Owed
  <2>1. Owed' = (Owed \ OwedBy(c)) \cup OwedBy(c)' /\ OwedBy(c) \subseteq Owed
    BY <1>0, <1>1, OwedChange DEF Owed
  <2> QED BY <1>5, <2>1
<1>7. \A y \in Conns : <<"Join", c, y>> \notin Owed
  <2>1. \A x \in Conns : \A y : <<"Join", c, y>> \in OwedBy(x) => x = c
    BY OwedAbout
  <2>2. \A y : <<"Join", c, y>> \notin OwedBy(c)
    BY <1>5
  <2> QED BY <2>1, <2>2 DEF Owed
<1>8. Rooms!PostOwed(c, c, m)
  BY <1>1, <1>2, <1>4, <1>6, <1>7, PushPosts DEF Rooms!PostOwed, Entered, Closed
<1> QED BY <1>2, <1>8

\* The critical section of a disconnection is a departure.
LEMMA DisconnectLeaves ==
    ASSUME RefinementInv, NEW c \in Conns, Disconnect(c)
    PROVE  Rooms!Leave(c)
<1> USE DEF RefinementInv
<1>0. /\ pc \in [Conns -> {"idle", "rejected", "joining", "serving", "closing", "leaving"}]
      /\ todo \in [Conns -> Seq(Conns)] /\ \A g : Room(g) \in SUBSET Conns
  BY DEF TypeInv, TypeOK, Room
<1>1. /\ pc[c] = "closing" /\ pc' = [pc EXCEPT ![c] = "leaving"]
      /\ members' = members \ {c} /\ UNCHANGED <<sendTask, chan>>
  BY DEF Disconnect, tasks
<1>2. PICK s \in Orders(Room(Group(c)) \ {c}) : todo' = [todo EXCEPT ![c] = s]
  BY DEF Disconnect, Remaining
<1>3. todo'[c] = s /\ Range(s) = Rooms!RoomMates(c)
  <2>1. Room(Group(c)) \ {c} \in SUBSET Conns
    BY <1>0
  <2> QED BY <1>0, <1>2, <2>1, OrdersOf, MatesAre
<1>4. c \in members
  BY <1>1 DEF MembersByControl
<1>5. OwedBy(c) = {} /\ OwedBy(c)' = {<<"Left", c, x>> : x \in Rooms!RoomMates(c)}
  BY <1>0, <1>1, <1>3 DEF OwedBy
<1>6. Owed' = Owed \cup {<<"Left", c, x>> : x \in Rooms!RoomMates(c)}
  <2>1. Owed' = (Owed \ OwedBy(c)) \cup OwedBy(c)'
    BY <1>0, <1>1, <1>2, OwedChange
  <2> QED BY <1>5, <2>1
<1>7. <<"Hello", c, c>> \notin Owed
  <2>1. \A x \in Conns : <<"Hello", c, c>> \in OwedBy(x) => x = c
    BY OwedAbout
  <2> QED BY <1>5, <2>1 DEF Owed
<1>8. Entered' = Entered /\ Closed' = Closed
  BY <1>0, <1>1 DEF Entered, Closed
<1> QED BY <1>1, <1>4, <1>6, <1>7, <1>8 DEF Rooms!Leave, Entered, Closed

\* What recv_task sends is a post of its peer.
LEMMA OutPosts ==
    ASSUME RefinementInv, NEW c \in Conns, SendOut(c)
    PROVE  \E x \in Conns, m \in Message : Rooms!Post(c, x, m)
<1> USE DEF RefinementInv
<1>0. /\ outTo[c] \in Seq(Conns) /\ out[c] \in Message
      /\ pc[c] \in {"idle", "rejected", "joining", "serving", "closing", "leaving"}
  BY DEF TypeInv, TypeOK
<1>1. /\ recvTask[c] = "sending" /\ CanPush(Head(outTo[c])) /\ chan' = Pushed(Head(outTo[c]), out[c])
      /\ UNCHANGED <<members, pc, todo, sendTask>>
  BY DEF SendOut, server, handler
<1>2. PICK x \in Conns, m \in Message : x = Head(outTo[c]) /\ m = out[c]
  BY <1>0, <1>1, RangeTail DEF TypeInv, SendingHasTarget
<1>3. x \in Range(outTo[c])
  BY <1>0, <1>1, <1>2, RangeTail DEF TypeInv, SendingHasTarget
<1>4. Group(x) = Group(c)
  BY <1>3 DEF IsolationInv, PendingIsolated
<1>5. c \in Entered /\ pc[c] # "joining" /\ Entered' = Entered /\ Closed' = Closed
  BY <1>0, <1>1 DEF TasksAfterHello, Entered, Closed
<1>6. <<"Hello", c, c>> \notin Owed
  <2>1. \A y \in Conns : <<"Hello", c, c>> \in OwedBy(y) => y = c
    BY OwedAbout
  <2>2. <<"Hello", c, c>> \notin OwedBy(c)
    BY <1>5 DEF OwedBy
  <2> QED BY <2>1, <2>2 DEF Owed
<1>7. Owed' = Owed
  BY <1>1 DEF Owed, OwedBy
<1>8. \/ m.type \in {"Update", "Offer", "Answer"} /\ m.peer = c
      \/ m.type = "Error" /\ x = c
  <2>1. CASE out[c] = Error
    <3>1. x = c
      BY <1>1, <1>3, <2>1 DEF ErrorToSelf
    <3> QED BY <1>2, <2>1, <3>1 DEF Error
  <2>2. ASSUME NEW t \in {"Update", "Offer", "Answer"}, NEW i \in Infos, out[c] = PeerMsg(t, c, i)
        PROVE  m.type \in {"Update", "Offer", "Answer"} /\ m.peer = c
    BY <1>2, <2>2 DEF PeerMsg
  <2> QED BY <2>1, <2>2 DEF IsolationInv, OutIsOwn
<1>9. Rooms!Post(c, x, m)
  BY <1>1, <1>2, <1>4, <1>5, <1>6, <1>7, <1>8, PushPosts DEF Rooms!Post, Entered, Closed
<1> QED BY <1>9

\* A written message is taken, and a task that ends closes its mailbox.
LEMMA SendTaskTakes ==
    ASSUME RefinementInv, NEW c \in Conns, SendTaskNext(c)
    PROVE  Rooms!Take(c) \/ Rooms!Close(c)
<1>0. sendTask \in [Conns -> {"none", "running", "over"}]
  BY DEF RefinementInv, TypeInv, TypeOK
<1>1. UNCHANGED <<members, pc, todo>> /\ sendTask[c] = "running"
  BY DEF SendTaskNext, SendTaskWrite, SendTaskBreak, SendTaskCancelled, server, handler
<1>2. Owed' = Owed /\ Entered' = Entered /\ c \notin Closed
  BY <1>1 DEF Owed, OwedBy, Entered, Closed
<1>3. CASE SendTaskWrite(c)
  <2>1. chan[c] # <<>> /\ chan' = [chan EXCEPT ![c] = Tail(@)] /\ Closed' = Closed
    BY <1>3 DEF SendTaskWrite, Closed, tasks
  <2> QED BY <1>1, <1>2, <2>1 DEF Rooms!Take, Entered, Closed
<1>4. CASE SendTaskBreak(c) \/ SendTaskCancelled(c)
  <2>1. chan' = [chan EXCEPT ![c] = <<>>] /\ sendTask' = [sendTask EXCEPT ![c] = "over"]
    BY <1>4 DEF SendTaskBreak, SendTaskCancelled
  <2>2. Closed' = Closed \cup {c}
    BY <1>0, <2>1 DEF Closed
  <2> QED BY <1>1, <1>2, <2>1, <2>2 DEF Rooms!Close, Entered, Closed
<1> QED BY <1>3, <1>4 DEF SendTaskNext

\* The other steps leave the room as it is.
LEMMA OthersStutter ==
    ASSUME RefinementInv,
           \/ \E c \in Conns :
                 \/ Reject(c) \/ SelectExit(c) \/ ClientClose(c)
                 \/ RecvOverLimit(c) \/ RecvTaskEnd(c) \/ RecvTaskCancelled(c)
                 \/ \E i \in Infos : RecvUpdate(c, i)
                 \/ \E kind \in {"Offer", "Answer"}, t \in Conns : RecvSdp(c, kind, t)
           \/ ClearRequests
           \/ UNCHANGED vars
    PROVE  UNCHANGED Rooms!roomVars
<1>0. pc \in [Conns -> {"idle", "rejected", "joining", "serving", "closing", "leaving"}]
  BY DEF RefinementInv, TypeInv, TypeOK
<1>1. UNCHANGED <<members, todo, sendTask, chan>>
  BY DEF Reject, SelectExit, ClientClose, RecvOverLimit, RecvTaskEnd, RecvTaskCancelled,
     RecvUpdate, RecvSdp, ClearRequests, vars, server, handler, tasks
<1>2. \A x \in Conns : \/ pc'[x] = pc[x]
                       \/ pc[x] = "idle" /\ pc'[x] = "rejected"
                       \/ pc[x] = "serving" /\ pc'[x] = "closing"
  BY <1>0 DEF Reject, SelectExit, ClientClose, RecvOverLimit, RecvTaskEnd, RecvTaskCancelled,
     RecvUpdate, RecvSdp, ClearRequests, vars, handler
<1>3. Entered' = Entered /\ Closed' = Closed
  BY <1>1, <1>2 DEF Entered, Closed
<1>4. \A x \in Conns : OwedBy(x)' = OwedBy(x)
  BY <1>1, <1>2 DEF OwedBy
<1>5. Owed' = Owed
  BY <1>4 DEF Owed
<1> QED BY <1>1, <1>3, <1>5 DEF Rooms!roomVars, Entered, Closed

\* Every step of the server is a step of the room or leaves it as it is.
LEMMA RefinementStep ==
    RefinementInv /\ [Next]_vars => [Rooms!RoomNext]_(Rooms!roomVars)
<1> SUFFICES ASSUME RefinementInv, [Next]_vars PROVE [Rooms!RoomNext]_(Rooms!roomVars)
  OBVIOUS
<1>1. ASSUME NEW c \in Conns, Accept(c) PROVE Rooms!RoomNext
  BY <1>1, AcceptEnters DEF Rooms!RoomNext
<1>2. ASSUME NEW c \in Conns, SendJoin(c) \/ SendLeft(c) PROVE Rooms!RoomNext
  BY <1>2, SendTodoPosts DEF Rooms!RoomNext
<1>3. ASSUME NEW c \in Conns, SendHello(c) PROVE Rooms!RoomNext
  BY <1>3, HelloPosts DEF Rooms!RoomNext
<1>4. ASSUME NEW c \in Conns, Disconnect(c) PROVE Rooms!RoomNext
  BY <1>4, DisconnectLeaves DEF Rooms!RoomNext
<1>5. ASSUME NEW c \in Conns, SendOut(c) PROVE Rooms!RoomNext
  BY <1>5, OutPosts DEF Rooms!RoomNext
<1>6. ASSUME NEW c \in Conns, SendTaskNext(c) PROVE Rooms!RoomNext
  BY <1>6, SendTaskTakes DEF Rooms!RoomNext
<1> QED BY <1>1, <1>2, <1>3, <1>4, <1>5, <1>6, OthersStutter DEF Next, HandlerNext, RecvTaskNext

\* The signaling server implements the room: whatever handlers, tasks and
\* clients do, everybody who is present is told exactly once of a newcomer and
\* of a departure, nobody else is, Hello follows the Joins of its peer, and
\* the rest that reaches a mailbox was posted by a peer of the same IP group.
THEOREM ServerImplementsRoom == Spec => ImplementsRoom
<1>1. Init => Rooms!RoomInit
  <2> SUFFICES ASSUME Init PROVE Rooms!RoomInit
    OBVIOUS
  <2>1. \A c \in Conns : OwedBy(c) = {}
    BY DEF Init, OwedBy
  <2>2. Owed = {}
    BY <2>1 DEF Owed
  <2> QED BY <2>2 DEF Init, Rooms!RoomInit
<1> QED BY <1>1, RefinementInvariance, RefinementStep, PTL DEF Spec, ImplementsRoom, Rooms!RoomSpec
=============================================================================
