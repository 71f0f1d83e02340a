---------------------- MODULE SignalingDeliveryProofs ----------------------
(***************************************************************************)
(* What is queued for a peer of the signaling server is in the right       *)
(* order, for any number of connections, any limits and any channel        *)
(* capacity: a Left follows its Join, and the last news of a peer is its   *)
(* current info.                                                           *)
(***************************************************************************)
EXTENDS SignalingServerProofs

----------------------------------------------------------------------------
(* Connections that have not entered *)

\* Nobody sends to a connection that has not entered its room, and no Join
\* speaks of one.
EnteredInv ==
    /\ \A c \in Conns : Range(todo[c]) \subseteq Entered /\ Range(outTo[c]) \subseteq Entered
    /\ \A c \in Conns \ Entered : chan[c] = <<>>
    /\ \A c \in Conns : \A m \in Range(chan[c]) : m.type = "Join" => m.peer \in Entered

\* Who has entered has entered for good.
LEMMA EnteredGrows == TypeInv /\ [Next]_vars => Entered \subseteq Entered'
<1> SUFFICES ASSUME TypeInv, [Next]_vars, NEW x \in Entered PROVE x \in Entered'
  OBVIOUS
<1>0. pc \in [Conns -> {"idle", "rejected", "joining", "serving", "closing", "leaving"}]
  BY DEF TypeInv, TypeOK
<1>1. x \in Conns /\ pc[x] \notin {"idle", "rejected"}
  BY DEF Entered
<1>2. ASSUME NEW c \in Conns, Reject(c) \/ Accept(c) PROVE pc'[x] = pc[x]
  BY <1>0, <1>1, <1>2 DEF Reject, Accept
<1>3. ASSUME NEW c \in Conns, SendHello(c) \/ SelectExit(c) \/ Disconnect(c)
      PROVE  pc'[x] \notin {"idle", "rejected"}
  BY <1>0, <1>1, <1>3 DEF SendHello, SelectExit, Disconnect
<1>4. CASE UNCHANGED <<members, pc>>
  BY <1>1, <1>4 DEF Entered
<1> QED BY <1>1, <1>2, <1>3, <1>4, ControlUnchanged DEF Next, HandlerNext, Entered

\* A message that is sent to a connection that has entered.
LEMMA EnteredPush ==
    ASSUME TypeInv, EnteredInv, Entered \subseteq Entered', NEW p \in Entered, NEW m \in Message,
           chan' = Pushed(p, m), m.type = "Join" => m.peer \in Entered
    PROVE  /\ \A c \in Conns \ Entered' : chan'[c] = <<>>
           /\ \A c \in Conns : \A e \in Range(chan'[c]) : e.type = "Join" => e.peer \in Entered'
<1>0. chan \in [Conns -> Seq(Message)] /\ p \in Conns /\ TypeOK
  BY DEF TypeInv, TypeOK, Entered
<1>1. ASSUME NEW c \in Conns \ Entered' PROVE chan'[c] = <<>>
  <2>1. c \notin Entered /\ c # p
    BY <1>1
  <2>2. chan'[c] = chan[c]
    BY <1>0, <1>1, <2>1 DEF Pushed
  <2> QED BY <1>1, <2>1, <2>2 DEF EnteredInv
<1>2. ASSUME NEW c \in Conns, NEW e \in Range(chan'[c]), e.type = "Join" PROVE e.peer \in Entered'
  <2>1. e \in Range(chan[c]) \/ e = m
    BY <1>0, <1>2, PushedRange
  <2> QED BY <1>2, <2>1 DEF EnteredInv
<1> QED BY <1>1, <1>2

\* A channel that loses messages.
LEMMA EnteredShrink ==
    ASSUME TypeInv, EnteredInv, Entered \subseteq Entered',
           \A c \in Conns : /\ Range(chan'[c]) \subseteq Range(chan[c])
                            /\ chan[c] = <<>> => chan'[c] = <<>>
    PROVE  /\ \A c \in Conns \ Entered' : chan'[c] = <<>>
           /\ \A c \in Conns : \A e \in Range(chan'[c]) : e.type = "Join" => e.peer \in Entered'
<1>1. ASSUME NEW c \in Conns \ Entered' PROVE chan'[c] = <<>>
  <2>1. c \in Conns \ Entered
    BY <1>1
  <2> QED BY <2>1 DEF EnteredInv
<1>2. ASSUME NEW c \in Conns, NEW e \in Range(chan'[c]), e.type = "Join" PROVE e.peer \in Entered'
  BY <1>2 DEF EnteredInv
<1> QED BY <1>1, <1>2

\* The members have entered.
LEMMA MembersEntered == TypeInv /\ MembersByControl => members \subseteq Entered
  BY DEF TypeInv, TypeOK, MembersByControl, Entered

\* Every step keeps what is sent among those who have entered.
LEMMA EnteredStep == RefinementInv /\ EnteredInv /\ [Next]_vars => EnteredInv'
<1> SUFFICES ASSUME RefinementInv, EnteredInv, [Next]_vars PROVE EnteredInv'
  OBVIOUS
<1> USE DEF RefinementInv
<1>0. /\ Entered \subseteq Entered' /\ Entered \subseteq Conns /\ members \subseteq Entered
      /\ todo \in [Conns -> Seq(Conns)] /\ outTo \in [Conns -> Seq(Conns)]
      /\ chan \in [Conns -> Seq(Message)] /\ out \in [Conns -> Message] /\ self \in [Conns -> Infos]
      /\ \A g : Room(g) \subseteq members
  BY EnteredGrows, MembersEntered DEF TypeInv, TypeOK, Entered, Room
<1> DEFINE TodoOk == \A c \in Conns : Range(todo[c]) \subseteq Entered
           OutOk == \A c \in Conns : Range(outTo[c]) \subseteq Entered
           ChanOk == /\ \A c \in Conns \ Entered : chan[c] = <<>>
                     /\ \A c \in Conns : \A m \in Range(chan[c]) : m.type = "Join" => m.peer \in Entered
<1>1. TodoOk /\ OutOk /\ ChanOk
  BY DEF EnteredInv
<1>2. ASSUME UNCHANGED todo PROVE TodoOk'
  BY <1>0, <1>1, <1>2
<1>3. ASSUME UNCHANGED outTo PROVE OutOk'
  BY <1>0, <1>1, <1>3
<1>4. ASSUME UNCHANGED chan PROVE ChanOk'
  BY <1>0, <1>4, EnteredShrink
<1>5. ASSUME NEW c \in Conns, NEW s, Range(s) \subseteq Entered, todo' = [todo EXCEPT ![c] = s]
      PROVE  TodoOk'
  BY <1>0, <1>1, <1>5
<1>6. ASSUME NEW c \in Conns, NEW s, Range(s) \subseteq Entered, outTo' = [outTo EXCEPT ![c] = s]
      PROVE  OutOk'
  BY <1>0, <1>1, <1>6
<1>7. ASSUME NEW c \in Conns, NEW m, NEW s, Sends(c, m, s), Range(s) \subseteq Entered PROVE OutOk'
  BY <1>3, <1>6, <1>7 DEF Sends
<1> HIDE DEF TodoOk, OutOk, ChanOk
<1>8. SUFFICES TodoOk' /\ OutOk' /\ ChanOk'
  BY DEF EnteredInv, TodoOk, OutOk, ChanOk
<1>9. ASSUME NEW c \in Conns, Accept(c) PROVE TodoOk' /\ OutOk' /\ ChanOk'
  <2>1. PICK s \in Orders(Room(Group(c))) : todo' = [todo EXCEPT ![c] = s]
    BY <1>9 DEF Accept, PeersToNotify
  <2>2. Range(s) \subseteq Entered
    <3>1. Room(Group(c)) \in SUBSET Conns /\ Room(Group(c)) \subseteq Entered
      BY <1>0
    <3> QED BY <3>1, OrdersOf
  <2> QED BY <1>3, <1>4, <1>5, <1>9, <2>1, <2>2 DEF Accept, tasks
<1>10. ASSUME NEW c \in Conns, Disconnect(c) PROVE TodoOk' /\ OutOk' /\ ChanOk'
  <2>1. PICK s \in Orders(Room(Group(c)) \ {c}) : todo' = [todo EXCEPT ![c] = s]
    BY <1>10 DEF Disconnect, Remaining
  <2>2. Range(s) \subseteq Entered
    <3>1. Room(Group(c)) \ {c} \in SUBSET Conns /\ Room(Group(c)) \ {c} \subseteq Entered
      BY <1>0
    <3> QED BY <3>1, OrdersOf
  <2> QED BY <1>3, <1>4, <1>5, <1>10, <2>1, <2>2 DEF Disconnect, tasks
<1>11. ASSUME NEW c \in Conns, SendJoin(c) \/ SendLeft(c) PROVE TodoOk' /\ OutOk' /\ ChanOk'
  <2>1. /\ todo[c] # <<>> /\ todo' = [todo EXCEPT ![c] = Tail(todo[c])] /\ UNCHANGED outTo
    BY <1>11 DEF SendJoin, SendLeft, tasks
  <2>2. Head(todo[c]) \in Entered /\ Range(Tail(todo[c])) \subseteq Entered
    BY <1>0, <1>1, <2>1, RangeTail DEF TodoOk
  <2>3. PICK m \in Message : chan' = Pushed(Head(todo[c]), m) /\ (m.type = "Join" => m.peer \in Entered)
    <3>1. CASE SendJoin(c)
      <4>1. PeerMsg("Join", c, self[c]) \in Message /\ PeerMsg("Join", c, self[c]).peer = c
        BY <1>0, MessageTypes DEF PeerTypes, PeerMsg
      <4>2. c \in Entered
        BY <3>1 DEF SendJoin, Entered
      <4> QED BY <3>1, <4>1, <4>2 DEF SendJoin
    <3>2. CASE SendLeft(c)
      <4>1. Left(c) \in Message /\ Left(c).type # "Join"
        BY MessageTypes, InfosAssumption DEF Left
      <4> QED BY <3>2, <4>1 DEF SendLeft
    <3> QED BY <1>11, <3>1, <3>2
  <2>4. ChanOk'
    BY <1>0, <2>2, <2>3, EnteredPush DEF ChanOk
  <2> QED BY <1>3, <1>5, <2>1, <2>2, <2>4
<1>12. ASSUME NEW c \in Conns, SendHello(c) PROVE TodoOk' /\ OutOk' /\ ChanOk'
  <2>1. Hello(snapshot[c]) \in Message /\ Hello(snapshot[c]).type # "Join" /\ c \in Entered
    BY <1>12, MessageTypes, InfosAssumption DEF TypeInv, TypeOK, Hello, SendHello, Entered
  <2>2. ChanOk'
    BY <1>0, <1>12, <2>1, EnteredPush DEF SendHello, ChanOk
  <2> QED BY <1>2, <1>3, <1>12, <2>2 DEF SendHello
<1>13. ASSUME NEW c \in Conns, SendOut(c) PROVE TodoOk' /\ OutOk' /\ ChanOk'
  <2>1. /\ outTo[c] # <<>> /\ outTo' = [outTo EXCEPT ![c] = Tail(outTo[c])] /\ UNCHANGED todo
        /\ chan' = Pushed(Head(outTo[c]), out[c])
    BY <1>13 DEF SendOut, TypeInv, SendingHasTarget, handler
  <2>2. Head(outTo[c]) \in Entered /\ Range(Tail(outTo[c])) \subseteq Entered
    BY <1>0, <1>1, <2>1, RangeTail DEF OutOk
  <2>3. out[c] \in Message /\ out[c].type # "Join"
    <3>1. CASE out[c] = Error
      BY <1>0, <3>1 DEF Error
    <3>2. ASSUME NEW t \in {"Update", "Offer", "Answer"}, NEW i \in Infos, out[c] = PeerMsg(t, c, i)
          PROVE  out[c] \in Message /\ out[c].type # "Join"
      BY <1>0, <3>2 DEF PeerMsg
    <3> QED BY <3>1, <3>2 DEF IsolationInv, OutIsOwn
  <2>4. ChanOk'
    BY <1>0, <2>1, <2>2, <2>3, EnteredPush DEF ChanOk
  <2> QED BY <1>2, <1>6, <2>1, <2>2, <2>4
<1>14. ASSUME NEW c \in Conns, SendTaskNext(c) PROVE TodoOk' /\ OutOk' /\ ChanOk'
  <2>1. UNCHANGED <<todo, outTo>>
    BY <1>14 DEF SendTaskNext, SendTaskWrite, SendTaskBreak, SendTaskCancelled, handler, tasks
  <2>2. \A x \in Conns \ {c} : chan'[x] = chan[x]
    BY <1>0, <1>14 DEF SendTaskNext, SendTaskWrite, SendTaskBreak, SendTaskCancelled
  <2>3. chan'[c] = <<>> \/ (chan[c] # <<>> /\ chan'[c] = Tail(chan[c]))
    BY <1>0, <1>14 DEF SendTaskNext, SendTaskWrite, SendTaskBreak, SendTaskCancelled
  <2>4. Range(chan'[c]) \subseteq Range(chan[c]) /\ (chan[c] = <<>> => chan'[c] = <<>>)
    BY <1>0, <2>3, RangeTail, RangeEmpty
  <2>5. \A x \in Conns : Range(chan'[x]) \subseteq Range(chan[x]) /\ (chan[x] = <<>> => chan'[x] = <<>>)
    BY <2>2, <2>4
  <2>6. ChanOk'
    BY <1>0, <2>5, EnteredShrink DEF ChanOk
  <2> QED BY <1>2, <1>3, <2>1, <2>6
<1>15. ASSUME NEW c \in Conns, RecvOverLimit(c) PROVE TodoOk' /\ OutOk' /\ ChanOk'
  <2>1. Range(<<c>>) \subseteq Entered
    BY <1>15 DEF RecvOverLimit, Reading, TasksAfterHello, Entered, Range, TypeInv, TypeOK
  <2> QED BY <1>2, <1>4, <1>7, <1>15, <2>1 DEF RecvOverLimit, handler
<1>16. ASSUME NEW c \in Conns, NEW i \in Infos, RecvUpdate(c, i) PROVE TodoOk' /\ OutOk' /\ ChanOk'
  <2>1. PICK s \in Orders(IF c \in members THEN Others(c) ELSE {}) : Sends(c, PeerMsg("Update", c, i), s)
    BY <1>16 DEF RecvUpdate
  <2>2. Range(s) \subseteq Entered
    <3> DEFINE S == IF c \in members THEN Others(c) ELSE {}
    <3>1. S \in SUBSET Conns /\ S \subseteq Entered
      BY <1>0 DEF Others
    <3>2. s \in Orders(S)
      OBVIOUS
    <3> HIDE DEF S
    <3> QED BY <3>1, <3>2, OrdersOf
  <2> QED BY <1>2, <1>4, <1>7, <1>16, <2>1, <2>2 DEF RecvUpdate, handler
<1>17. ASSUME NEW c \in Conns, NEW kind, NEW t, RecvSdp(c, kind, t) PROVE TodoOk' /\ OutOk' /\ ChanOk'
  <2>1. Range(Target(c, t)) \subseteq Entered
    BY <1>0, RangeEmpty DEF Target, Range
  <2> QED BY <1>2, <1>4, <1>7, <1>17, <2>1 DEF RecvSdp, handler
<1>18. ASSUME NEW c \in Conns, RecvTaskCancelled(c) PROVE TodoOk' /\ OutOk' /\ ChanOk'
  BY <1>2, <1>4, <1>6, <1>18, RangeEmpty DEF RecvTaskCancelled, handler
<1>19. ASSUME NEW c \in Conns, Reject(c) \/ SelectExit(c) \/ RecvTaskEnd(c) \/ ClientClose(c)
       PROVE  TodoOk' /\ OutOk' /\ ChanOk'
  BY <1>2, <1>3, <1>4, <1>19 DEF Reject, SelectExit, RecvTaskEnd, ClientClose, handler, tasks
<1>20. CASE ClearRequests \/ UNCHANGED vars
  BY <1>2, <1>3, <1>4, <1>20 DEF ClearRequests, vars, handler, tasks
<1> QED
  BY <1>9, <1>10, <1>11, <1>12, <1>13, <1>14, <1>15, <1>16, <1>17, <1>18, <1>19, <1>20
  DEF Next, HandlerNext, RecvTaskNext

----------------------------------------------------------------------------
(* A Left follows its Join *)

\* Every Join of q in s has a Left of q behind it.
FollowedByLeft(s, q) ==
    \A i \in DOMAIN s : (s[i].type = "Join" /\ s[i].peer = q) =>
        \E j \in DOMAIN s : j > i /\ s[j] = Left(q)

\* p is told that q is gone, or is bound to be.
Settled(p, q) ==
    FollowedByLeft(chan[p], q) \/ (pc[q] = "leaving" /\ p \in Range(todo[q]))

\* Every member with a channel is settled with everybody who is not a member.
SettledInv ==
    \A p \in members, q \in Conns \ members : RxAlive(p) => Settled(p, q)

\* A queue without a Join of q.
LEMMA FollowNone ==
    ASSUME NEW q, NEW s, \A e \in Range(s) : e.type = "Join" => e.peer # q
    PROVE  FollowedByLeft(s, q)
  BY DEF FollowedByLeft, Range

\* A send of anything but a Join of q.
LEMMA FollowAppend ==
    ASSUME NEW q, NEW s \in Seq(Message), NEW m \in Message, FollowedByLeft(s, q),
           m.type = "Join" => m.peer # q
    PROVE  FollowedByLeft(Append(s, m), q)
<1> DEFINE t == Append(s, m)
<1>1. /\ Len(s) \in Nat /\ DOMAIN s = 1 .. Len(s) /\ DOMAIN t = 1 .. (Len(s) + 1)
      /\ \A i \in 1 .. Len(s) : t[i] = s[i]
      /\ t[Len(s) + 1] = m
  OBVIOUS
<1> HIDE DEF t
<1>2. ASSUME NEW i \in DOMAIN t, t[i].type = "Join", t[i].peer = q
      PROVE  \E j \in DOMAIN t : j > i /\ t[j] = Left(q)
  <2>1. i \in DOMAIN s /\ s[i] = t[i]
    BY <1>1, <1>2
  <2>2. PICK j \in DOMAIN s : j > i /\ s[j] = Left(q)
    BY <1>2, <2>1 DEF FollowedByLeft
  <2>3. j \in DOMAIN t /\ t[j] = s[j]
    BY <1>1
  <2> QED BY <2>2, <2>3
<1>3. FollowedByLeft(t, q)
  BY <1>2 DEF FollowedByLeft
<1> QED BY <1>3 DEF t

\* A send of the Left of q.
LEMMA FollowLeft ==
    ASSUME NEW q \in Conns, NEW s \in Seq(Message)
    PROVE  FollowedByLeft(Append(s, Left(q)), q)
<1> DEFINE t == Append(s, Left(q))
<1>0. Left(q) \in Message /\ Left(q).type # "Join"
  BY MessageTypes, InfosAssumption DEF Left
<1>1. /\ Len(s) \in Nat /\ DOMAIN t = 1 .. (Len(s) + 1) /\ t[Len(s) + 1] = Left(q)
  BY <1>0
<1> HIDE DEF t
<1>2. ASSUME NEW i \in DOMAIN t, t[i].type = "Join"
      PROVE  \E j \in DOMAIN t : j > i /\ t[j] = Left(q)
  <2>1. i # Len(s) + 1
    BY <1>0, <1>1, <1>2
  <2>2. Len(s) + 1 > i /\ Len(s) + 1 \in DOMAIN t
    BY <1>1, <2>1
  <2> QED BY <1>1, <2>2
<1>3. FollowedByLeft(t, q)
  BY <1>2 DEF FollowedByLeft
<1> QED BY <1>3 DEF t

\* The client takes the first message.
LEMMA FollowTail ==
    ASSUME NEW q, NEW s \in Seq(Message), s # <<>>, FollowedByLeft(s, q)
    PROVE  FollowedByLeft(Tail(s), q)
<1> DEFINE t == Tail(s)
<1>1. /\ Len(s) \in Nat /\ DOMAIN s = 1 .. Len(s) /\ DOMAIN t = 1 .. (Len(s) - 1)
      /\ \A i \in 1 .. (Len(s) - 1) : t[i] = s[i + 1]
  OBVIOUS
<1> HIDE DEF t
<1>2. ASSUME NEW i \in DOMAIN t, t[i].type = "Join", t[i].peer = q
      PROVE  \E j \in DOMAIN t : j > i /\ t[j] = Left(q)
  <2>1. i + 1 \in DOMAIN s /\ s[i + 1] = t[i]
    BY <1>1
  <2>2. PICK j \in DOMAIN s : j > i + 1 /\ s[j] = Left(q)
    BY <1>2, <2>1 DEF FollowedByLeft
  <2>3. j - 1 \in DOMAIN t /\ t[j - 1] = s[j] /\ j - 1 > i
    BY <1>1, <2>2
  <2> QED BY <2>2, <2>3
<1>3. FollowedByLeft(t, q)
  BY <1>2 DEF FollowedByLeft
<1> QED BY <1>3 DEF t

\* What a send does to the channel of p.
LEMMA PushedAt ==
    ASSUME TypeOK, NEW h \in Conns, NEW m, NEW p \in Conns
    PROVE  /\ (p = h /\ RxAlive(p)) => Pushed(h, m)[p] = Append(chan[p], m)
           /\ p # h => Pushed(h, m)[p] = chan[p]
           /\ Pushed(h, m)[p] = chan[p] \/ Pushed(h, m)[p] = Append(chan[p], m)
  BY DEF TypeOK, Pushed

\* The message recv_task sends is no Join, and announces at most its own peer,
\* by an Update.
LEMMA OutSays ==
    ASSUME TypeOK, OutIsOwn, NEW c \in Conns
    PROVE  /\ out[c] \in Message /\ out[c].type # "Join"
           /\ \A q \in Conns : Announces(out[c], q) => q = c /\ out[c].type = "Update"
<1>1. CASE out[c] = Error
  BY <1>1 DEF TypeOK, Error, Announces
<1>2. ASSUME NEW t \in {"Update", "Offer", "Answer"}, NEW i \in Infos, out[c] = PeerMsg(t, c, i)
      PROVE  /\ out[c] \in Message /\ out[c].type # "Join"
             /\ \A q \in Conns : Announces(out[c], q) => q = c /\ out[c].type = "Update"
  BY <1>2 DEF TypeOK, PeerMsg, Announces
<1> QED BY <1>1, <1>2 DEF OutIsOwn

\* Every step keeps the members settled with those who left.
LEMMA SettledStep == RefinementInv /\ EnteredInv /\ SettledInv /\ [Next]_vars => SettledInv'
<1> SUFFICES ASSUME RefinementInv, EnteredInv, SettledInv, [Next]_vars,
                    NEW p \in members', NEW q \in Conns \ members', RxAlive(p)'
             PROVE  Settled(p, q)'
  BY DEF SettledInv
<1> USE DEF RefinementInv
<1>0. /\ p \in Conns /\ q \in Conns /\ TypeOK /\ members \subseteq Conns
      /\ chan \in [Conns -> Seq(Message)] /\ todo \in [Conns -> Seq(Conns)]
      /\ pc \in [Conns -> {"idle", "rejected", "joining", "serving", "closing", "leaving"}]
      /\ sendTask \in [Conns -> {"none", "running", "over"}]
      /\ \A g : Room(g) \in SUBSET Conns
  BY TypeStep DEF TypeInv, TypeOK, Room
<1>1. ASSUME Settled(p, q), chan'[p] = chan[p],
             pc[q] = "leaving" => pc'[q] = "leaving" /\ todo'[q] = todo[q]
      PROVE  Settled(p, q)'
  BY <1>1 DEF Settled
<1>2. ASSUME Settled(p, q), NEW h \in Conns, NEW m \in Message, chan' = Pushed(h, m),
             m.type = "Join" => m.peer # q,
             pc[q] = "leaving" => pc'[q] = "leaving" /\ todo'[q] = todo[q]
      PROVE  Settled(p, q)'
  <2>1. chan'[p] = chan[p] \/ chan'[p] = Append(chan[p], m)
    BY <1>0, <1>2, PushedAt
  <2>2. FollowedByLeft(chan[p], q) => FollowedByLeft(Append(chan[p], m), q)
    <3>1. chan[p] \in Seq(Message)
      BY <1>0
    <3> QED BY <1>2, <3>1, FollowAppend
  <2> QED BY <1>2, <2>1, <2>2 DEF Settled
<1>3. ASSUME UNCHANGED members, RxAlive(p) PROVE Settled(p, q)
  BY <1>0, <1>3 DEF SettledInv
<1>4. ASSUME NEW c \in Conns, Accept(c) PROVE Settled(p, q)'
  <2>1. q # c /\ q \notin members /\ UNCHANGED <<chan, sendTask>>
    BY <1>0, <1>4 DEF Accept, tasks
  <2>2. CASE p = c
    <3>1. chan[p] = <<>>
      BY <1>0, <1>4, <2>2 DEF EnteredInv, Entered, Accept
    <3> QED BY <2>1, <3>1 DEF Settled, FollowedByLeft
  <2>3. CASE p # c
    <3>1. p \in members /\ RxAlive(p)
      BY <1>4, <2>1, <2>3 DEF Accept, RxAlive
    <3>2. Settled(p, q)
      BY <1>0, <2>1, <3>1 DEF SettledInv
    <3> QED BY <1>0, <1>1, <1>4, <2>1, <3>2 DEF Accept
  <2> QED BY <2>2, <2>3
<1>5. ASSUME NEW c \in Conns, SendJoin(c) PROVE Settled(p, q)'
  <2>1. UNCHANGED <<members, sendTask, pc>> /\ c \in members /\ q # c
    BY <1>0, <1>5 DEF SendJoin, server, tasks, MembersByControl
  <2>2. Settled(p, q)
    BY <1>3, <2>1 DEF RxAlive
  <2>3. Head(todo[c]) \in Conns
    BY <1>0, <1>5, RangeTail DEF SendJoin
  <2>4. PeerMsg("Join", c, self[c]) \in Message /\ PeerMsg("Join", c, self[c]).peer # q
    BY <2>1, MessageTypes DEF TypeInv, TypeOK, PeerTypes, PeerMsg
  <2>5. chan' = Pushed(Head(todo[c]), PeerMsg("Join", c, self[c])) /\ todo'[q] = todo[q]
    BY <1>0, <1>5, <2>1 DEF SendJoin
  <2> QED BY <1>2, <2>1, <2>2, <2>3, <2>4, <2>5
<1>6. ASSUME NEW c \in Conns, SendHello(c) PROVE Settled(p, q)'
  <2>1. UNCHANGED <<members, todo>> /\ chan' = Pushed(c, Hello(snapshot[c]))
    BY <1>6 DEF SendHello, server
  <2>2. RxAlive(p)
    BY <1>0, <1>6 DEF SendHello, RxAlive, NoneBeforeServing
  <2>3. Hello(snapshot[c]) \in Message /\ Hello(snapshot[c]).type # "Join"
    BY MessageTypes, InfosAssumption DEF TypeInv, TypeOK, Hello
  <2>4. pc[q] = "leaving" => pc'[q] = "leaving" /\ todo'[q] = todo[q]
    BY <1>0, <1>6, <2>1 DEF SendHello
  <2> QED BY <1>2, <1>3, <2>1, <2>2, <2>3, <2>4
<1>7. ASSUME NEW c \in Conns, SendTaskWrite(c) PROVE Settled(p, q)'
  <2>1. UNCHANGED <<members, pc, todo, sendTask>> /\ chan[c] # <<>>
        /\ chan' = [chan EXCEPT ![c] = Tail(chan[c])]
    BY <1>7 DEF SendTaskWrite, server, handler, tasks
  <2>2. Settled(p, q)
    BY <1>3, <2>1 DEF RxAlive
  <2>3. FollowedByLeft(chan[p], q) => FollowedByLeft(chan'[p], q)
    <3>1. CASE p = c
      BY <1>0, <2>1, <3>1, FollowTail
    <3>2. CASE p # c
      BY <1>0, <2>1, <3>2
    <3> QED BY <3>1, <3>2
  <2> QED BY <2>1, <2>2, <2>3 DEF Settled
<1>8. ASSUME NEW c \in Conns, SendTaskBreak(c) \/ SendTaskCancelled(c) PROVE Settled(p, q)'
  <2>1. p # c
    BY <1>0, <1>8 DEF SendTaskBreak, SendTaskCancelled, RxAlive
  <2>2. UNCHANGED <<members, pc, todo>> /\ chan'[p] = chan[p] /\ sendTask'[p] = sendTask[p]
    BY <1>0, <1>8, <2>1 DEF SendTaskBreak, SendTaskCancelled, server, handler
  <2>3. Settled(p, q)
    BY <1>3, <2>2 DEF RxAlive
  <2> QED BY <1>1, <2>2, <2>3
<1>9. ASSUME NEW c \in Conns, SendOut(c) PROVE Settled(p, q)'
  <2>1. UNCHANGED <<members, pc, todo, sendTask>> /\ chan' = Pushed(Head(outTo[c]), out[c])
    BY <1>9 DEF SendOut, server, handler
  <2>2. Settled(p, q)
    BY <1>3, <2>1 DEF RxAlive
  <2>3. Head(outTo[c]) \in Conns
    BY <1>9, RangeTail DEF SendOut, TypeInv, TypeOK, SendingHasTarget
  <2>4. out[c] \in Message /\ out[c].type # "Join"
    BY <1>0, OutSays DEF IsolationInv
  <2> QED BY <1>2, <2>1, <2>2, <2>3, <2>4
<1>10. ASSUME NEW c \in Conns, Disconnect(c) PROVE Settled(p, q)'
  <2>1. PICK s \in Orders(Room(Group(c)) \ {c}) : todo' = [todo EXCEPT ![c] = s]
    BY <1>10 DEF Disconnect, Remaining
  <2>2. Range(s) = Room(Group(c)) \ {c}
    <3>1. Room(Group(c)) \ {c} \in SUBSET Conns
      BY <1>0
    <3> QED BY <3>1, OrdersOf
  <2>3. p \in members /\ p # c /\ UNCHANGED <<chan, sendTask>>
    BY <1>10 DEF Disconnect, tasks
  <2>4. CASE q # c
    <3>1. Settled(p, q)
      BY <1>0, <1>10, <2>3, <2>4 DEF Disconnect, SettledInv, RxAlive
    <3> QED BY <1>0, <1>1, <1>10, <2>1, <2>3, <2>4, <3>1 DEF Disconnect
  <2>5. CASE q = c /\ Group(p) = Group(c)
    <3>1. p \in Range(todo'[q]) /\ pc'[q] = "leaving"
      BY <1>0, <1>10, <2>1, <2>2, <2>3, <2>5 DEF Disconnect, Room
    <3> QED BY <3>1 DEF Settled
  <2>6. CASE q = c /\ Group(p) # Group(c)
    <3>1. \A e \in Range(chan[p]) : e.type = "Join" => e.peer # q
      BY <1>0, <2>6 DEF IsolationInv, RoomIsolation, Within, PeerTypes
    <3>2. FollowedByLeft(chan[p], q)
      BY <3>1, FollowNone
    <3> QED BY <2>3, <3>2 DEF Settled
  <2> QED BY <2>4, <2>5, <2>6
<1>11. ASSUME NEW c \in Conns, SendLeft(c) PROVE Settled(p, q)'
  <2>1. /\ UNCHANGED <<members, pc, sendTask>> /\ todo[c] # <<>>
        /\ chan' = Pushed(Head(todo[c]), Left(c)) /\ todo' = [todo EXCEPT ![c] = Tail(todo[c])]
    BY <1>11 DEF SendLeft, server, tasks
  <2>2. Settled(p, q) /\ RxAlive(p)
    BY <1>3, <2>1 DEF RxAlive
  <2>3. Head(todo[c]) \in Conns /\ Range(todo[c]) = {Head(todo[c])} \cup Range(Tail(todo[c]))
    BY <1>0, <2>1, RangeTail
  <2>4. Left(c) \in Message /\ Left(c).type # "Join"
    BY MessageTypes, InfosAssumption DEF Left
  <2>5. CASE q # c
    BY <1>0, <1>2, <2>1, <2>2, <2>3, <2>4, <2>5
  <2>6. CASE q = c /\ p = Head(todo[c])
    <3>1. chan'[p] = Append(chan[p], Left(q))
      BY <1>0, <2>1, <2>2, <2>3, <2>6, PushedAt
    <3>2. FollowedByLeft(chan'[p], q)
      BY <1>0, <3>1, FollowLeft
    <3> QED BY <3>2 DEF Settled
  <2>7. CASE q = c /\ p # Head(todo[c])
    <3>1. chan'[p] = chan[p]
      BY <1>0, <2>1, <2>3, <2>7, PushedAt
    <3>2. p \in Range(todo[q]) => p \in Range(todo'[q])
      BY <1>0, <2>1, <2>3, <2>7
    <3> QED BY <2>1, <2>2, <3>1, <3>2 DEF Settled
  <2> QED BY <2>5, <2>6, <2>7
<1>12. ASSUME NEW c \in Conns, Reject(c) \/ SelectExit(c) PROVE Settled(p, q)'
  <2>1. UNCHANGED <<members, todo, sendTask, chan>>
    BY <1>12 DEF Reject, SelectExit, server, tasks
  <2>2. pc[q] = "leaving" => pc'[q] = "leaving"
    BY <1>0, <1>12 DEF Reject, SelectExit
  <2> QED BY <1>1, <1>3, <2>1, <2>2 DEF RxAlive
<1>13. ASSUME UNCHANGED <<members, pc, todo, sendTask, chan>> PROVE Settled(p, q)'
  BY <1>1, <1>3, <1>13 DEF RxAlive
<1>14. ASSUME NEW c \in Conns,
              \/ RecvOverLimit(c) \/ RecvTaskEnd(c) \/ RecvTaskCancelled(c) \/ ClientClose(c)
              \/ \E i \in Infos : RecvUpdate(c, i)
              \/ \E kind \in {"Offer", "Answer"}, t \in Conns : RecvSdp(c, kind, t)
       PROVE  Settled(p, q)'
  BY <1>13, <1>14 DEF RecvOverLimit, RecvTaskEnd, RecvTaskCancelled, ClientClose, RecvUpdate,
     RecvSdp, server, handler, tasks
<1>15. CASE ClearRequests \/ UNCHANGED vars
  BY <1>13, <1>15 DEF ClearRequests, vars, server, handler, tasks
<1> QED
  BY <1>4, <1>5, <1>6, <1>7, <1>8, <1>9, <1>10, <1>11, <1>12, <1>14, <1>15
  DEF Next, HandlerNext, RecvTaskNext, SendTaskNext

\* A Join queued for a member is followed by the Left of the same peer as soon
\* as that peer is out of the room.
LEMMA SettledJoins == TypeOK /\ SettledInv => JoinThenLeft
<1> SUFFICES ASSUME TypeOK, SettledInv, NEW p \in members, RxAlive(p), NEW i \in DOMAIN chan[p],
                    chan[p][i].type = "Join", chan[p][i].peer \notin members
             PROVE  \/ \E j \in DOMAIN chan[p] : j > i /\ chan[p][j] = Left(chan[p][i].peer)
                    \/ /\ pc[chan[p][i].peer] = "leaving"
                       /\ p \in Range(todo[chan[p][i].peer])
  BY DEF JoinThenLeft
<1>1. chan[p][i] \in Message
  BY DEF TypeOK
<1>2. chan[p][i].peer \in Conns
  BY <1>1 DEF Message, Error, PeerTypes
<1> QED BY <1>2 DEF SettledInv, Settled, FollowedByLeft

----------------------------------------------------------------------------
(* Updates *)

\* Until its Hello is queued, the info a handler captured is the one of tx_map.
JoiningIsCurrent == \A q \in Conns : pc[q] = "joining" => self[q] = client[q]

\* The Update a member is sending is about its info of tx_map.
UpdateIsCurrent ==
    \A q \in members : (recvTask[q] = "sending" /\ out[q].type = "Update") =>
        out[q] = PeerMsg("Update", q, client[q])

\* A Hello that is queued lists the snapshot of its peer.
HelloIsSnapshot ==
    \A p \in Conns : \A m \in Range(chan[p]) : m.type = "Hello" => m.peers = snapshot[p]

\* The last announcement of q in s is about the info i.
Newest(s, q, i) ==
    \E k \in DOMAIN s :
        /\ Announces(s[k], q)
        /\ s[k].info = i
        /\ \A j \in DOMAIN s : Announces(s[j], q) => j <= k

\* Nothing in s announces q.
Silent(s, q) == \A j \in DOMAIN s : ~Announces(s[j], q)

\* A client that lists ds and is sent s ends up with the info i of q.
Heard(s, ds, q, i) == Newest(s, q, i) \/ (Silent(s, q) /\ [peer |-> q, info |-> i] \in ds)

\* What p will have heard of q is what it is sent and what it lists, unless a
\* Join or an Update is still to be sent.
LEMMA HearsIs ==
    ASSUME NEW p, NEW q
    PROVE  HearsNewest(p, q) <=>
              \/ pc[q] = "joining" /\ p \in Range(todo[q]) /\ self[q] = client[q]
              \/ /\ recvTask[q] = "sending"
                 /\ out[q] = PeerMsg("Update", q, client[q])
                 /\ p \in Range(outTo[q])
              \/ Heard(chan[p], roster[p], q, client[q])
  BY DEF HearsNewest, Heard, Newest, Silent

\* A send of a message that does not announce q.
LEMMA HeardAppend ==
    ASSUME NEW q, NEW i, NEW ds, NEW s \in Seq(Message), NEW m \in Message,
           ~Announces(m, q), Heard(s, ds, q, i)
    PROVE  Heard(Append(s, m), ds, q, i)
<1> DEFINE t == Append(s, m)
<1>1. /\ Len(s) \in Nat /\ DOMAIN s = 1 .. Len(s) /\ DOMAIN t = 1 .. (Len(s) + 1)
      /\ \A j \in 1 .. Len(s) : t[j] = s[j]
      /\ t[Len(s) + 1] = m
  OBVIOUS
<1> HIDE DEF t
<1>2. \A j \in DOMAIN t : Announces(t[j], q) => j \in DOMAIN s /\ t[j] = s[j]
  <2> SUFFICES ASSUME NEW j \in DOMAIN t, Announces(t[j], q) PROVE j \in DOMAIN s /\ t[j] = s[j]
    OBVIOUS
  <2>1. j # Len(s) + 1
    BY <1>1
  <2> QED BY <1>1, <2>1
<1>3. DOMAIN s \subseteq DOMAIN t
  BY <1>1
<1>4. CASE Newest(s, q, i)
  <2>1. PICK k \in DOMAIN s : /\ Announces(s[k], q) /\ s[k].info = i
                              /\ \A j \in DOMAIN s : Announces(s[j], q) => j <= k
    BY <1>4 DEF Newest
  <2>2. k \in DOMAIN t /\ t[k] = s[k]
    BY <1>1, <1>3
  <2>3. \A j \in DOMAIN t : Announces(t[j], q) => j <= k
    BY <1>2, <2>1
  <2>4. Newest(t, q, i)
    BY <2>1, <2>2, <2>3 DEF Newest
  <2> QED BY <2>4 DEF Heard, t
<1>5. CASE Silent(s, q) /\ [peer |-> q, info |-> i] \in ds
  <2>1. Silent(t, q)
    BY <1>2, <1>5 DEF Silent
  <2> QED BY <1>5, <2>1 DEF Heard, t
<1> QED BY <1>4, <1>5 DEF Heard

\* A send of the announcement of q with the info i.
LEMMA HeardNews ==
    ASSUME NEW q, NEW i, NEW ds, NEW s \in Seq(Message), NEW m \in Message,
           Announces(m, q), m.info = i
    PROVE  Heard(Append(s, m), ds, q, i)
<1> DEFINE t == Append(s, m)
<1>1. Len(s) \in Nat /\ DOMAIN t = 1 .. (Len(s) + 1) /\ t[Len(s) + 1] = m
  OBVIOUS
<1> HIDE DEF t
<1>2. Len(s) + 1 \in DOMAIN t /\ \A j \in DOMAIN t : j <= Len(s) + 1
  BY <1>1
<1>3. Newest(t, q, i)
  BY <1>1, <1>2 DEF Newest
<1> QED BY <1>3 DEF Heard, t

\* The client takes a message that is neither a Left of q nor a Hello with q.
LEMMA AppliedKeeps ==
    ASSUME NEW ds, NEW m, NEW q, NEW i, [peer |-> q, info |-> i] \in ds, ~Announces(m, q),
           ~(m.type = "Left" /\ m.peer = q),
           m.type = "Hello" => \A d \in m.peers : d.peer # q
    PROVE  [peer |-> q, info |-> i] \in Applied(ds, m)
<1> DEFINE e == [peer |-> q, info |-> i]
<1>0. e.peer = q /\ e \in ds
  OBVIOUS
<1> HIDE DEF e
<1>1. CASE m.type = "Hello"
  <2>1. Applied(ds, m) = RegisterAll(ds, m.peers)
    BY <1>1 DEF Applied
  <2> QED BY <1>0, <1>1, <2>1 DEF RegisterAll, e
<1>2. CASE m.type \in {"Join", "Update"}
  <2>1. Applied(ds, m) = Register(ds, [peer |-> m.peer, info |-> m.info]) /\ m.peer # q
    BY <1>2 DEF Applied, Announces
  <2> QED BY <1>0, <2>1 DEF Register, e
<1>3. CASE m.type = "Left"
  <2>1. Applied(ds, m) = Unregister(ds, m.peer) /\ m.peer # q
    BY <1>3 DEF Applied
  <2> QED BY <1>0, <2>1 DEF Unregister, e
<1>4. CASE m.type \notin {"Hello", "Join", "Update", "Left"}
  <2>1. Applied(ds, m) = ds
    BY <1>4 DEF Applied
  <2> QED BY <2>1
<1> QED BY <1>1, <1>2, <1>3, <1>4

\* The client takes the first message of its channel.
LEMMA HeardTail ==
    ASSUME NEW q, NEW i, NEW ds, NEW s \in Seq(Message), s # <<>>, Heard(s, ds, q, i),
           ~(Head(s).type = "Left" /\ Head(s).peer = q),
           Head(s).type = "Hello" => \A d \in Head(s).peers : d.peer # q
    PROVE  Heard(Tail(s), Applied(ds, Head(s)), q, i)
<1> DEFINE t == Tail(s)
           new == Applied(ds, Head(s))
<1>1. /\ Len(s) \in Nat /\ Len(s) > 0 /\ DOMAIN s = 1 .. Len(s) /\ DOMAIN t = 1 .. (Len(s) - 1)
      /\ \A j \in 1 .. (Len(s) - 1) : t[j] = s[j + 1]
      /\ Head(s) = s[1]
  OBVIOUS
<1> HIDE DEF t, new
<1>2. \A j \in DOMAIN t : j + 1 \in DOMAIN s /\ t[j] = s[j + 1]
  BY <1>1
<1>3. CASE Newest(s, q, i)
  <2>1. PICK k \in DOMAIN s : /\ Announces(s[k], q) /\ s[k].info = i
                              /\ \A j \in DOMAIN s : Announces(s[j], q) => j <= k
    BY <1>3 DEF Newest
  <2>2. CASE k = 1
    <3>1. Silent(t, q)
      <4> SUFFICES ASSUME NEW j \in DOMAIN t, Announces(t[j], q) PROVE FALSE
        BY DEF Silent
      <4>1. j + 1 <= k
        BY <1>2, <2>1
      <4> QED BY <1>1, <2>2, <4>1
    <3>2. Head(s).type \in {"Join", "Update"} /\ Head(s).peer = q /\ Head(s).info = i
      BY <1>1, <2>1, <2>2 DEF Announces
    <3>3. new = Register(ds, [peer |-> q, info |-> i])
      BY <3>2 DEF Applied, new
    <3>4. [peer |-> q, info |-> i] \in new
      BY <3>3 DEF Register
    <3> QED BY <3>1, <3>4 DEF Heard, t, new
  <2>3. CASE k # 1
    <3>1. k - 1 \in DOMAIN t /\ t[k - 1] = s[k]
      BY <1>1, <2>3
    <3>2. ASSUME NEW j \in DOMAIN t, Announces(t[j], q) PROVE j <= k - 1
      <4>1. j + 1 <= k
        BY <1>2, <2>1, <3>2
      <4> QED BY <1>1, <4>1
    <3>3. Newest(t, q, i)
      BY <2>1, <3>1, <3>2 DEF Newest
    <3> QED BY <3>3 DEF Heard, t
  <2> QED BY <2>2, <2>3
<1>4. CASE Silent(s, q) /\ [peer |-> q, info |-> i] \in ds
  <2>1. Silent(t, q)
    BY <1>2, <1>4 DEF Silent
  <2>2. ~Announces(Head(s), q)
    BY <1>1, <1>4 DEF Silent
  <2>3. [peer |-> q, info |-> i] \in new
    BY <1>4, <2>2, AppliedKeeps DEF new
  <2> QED BY <2>1, <2>3 DEF Heard, t, new
<1> QED BY <1>3, <1>4 DEF Heard

DeliveryInv ==
    /\ RefinementInv /\ EnteredInv /\ LeftMeansGone /\ SettledInv
    /\ JoiningIsCurrent /\ UpdateIsCurrent /\ HelloIsSnapshot /\ UpdateNotLost

\* Every step keeps the info of those who are joining.
LEMMA JoiningStep == RefinementInv /\ JoiningIsCurrent /\ [Next]_vars => JoiningIsCurrent'
<1> SUFFICES ASSUME RefinementInv, JoiningIsCurrent, [Next]_vars, NEW q \in Conns, pc'[q] = "joining"
             PROVE  self'[q] = client'[q]
  BY DEF JoiningIsCurrent
<1>0. /\ client \in [Conns -> Infos] /\ self \in [Conns -> Infos]
      /\ pc \in [Conns -> {"idle", "rejected", "joining", "serving", "closing", "leaving"}]
      /\ TasksAfterHello
  BY DEF RefinementInv, TypeInv, TypeOK
<1>1. pc[q] = "joining" => self[q] = client[q]
  BY DEF JoiningIsCurrent
<1>2. ASSUME NEW c \in Conns, Accept(c) PROVE self'[q] = client'[q]
  <2>1. CASE q = c
    BY <1>0, <1>2, <2>1 DEF Accept
  <2>2. CASE q # c
    BY <1>0, <1>1, <1>2, <2>2 DEF Accept
  <2> QED BY <2>1, <2>2
<1>3. ASSUME NEW c \in Conns, NEW i \in Infos, RecvUpdate(c, i) PROVE self'[q] = client'[q]
  <2>1. pc[q] = "joining" /\ UNCHANGED self
    BY <1>3 DEF RecvUpdate, handler
  <2>2. q # c
    BY <1>0, <1>3, <2>1 DEF RecvUpdate, Reading, TasksAfterHello
  <2> QED BY <1>0, <1>1, <1>3, <2>1, <2>2 DEF RecvUpdate
<1>4. ASSUME NEW c \in Conns, Reject(c) \/ SendHello(c) \/ SelectExit(c) \/ Disconnect(c)
      PROVE  self'[q] = client'[q]
  <2>1. UNCHANGED <<client, self>>
    BY <1>4 DEF Reject, SendHello, SelectExit, Disconnect, server
  <2>2. pc[q] = "joining"
    BY <1>0, <1>4 DEF Reject, SendHello, SelectExit, Disconnect
  <2> QED BY <1>1, <2>1, <2>2
<1>5. CASE UNCHANGED <<client, self, pc>>
  BY <1>1, <1>5
<1>6. ASSUME NEW c \in Conns, SendJoin(c) \/ SendLeft(c) \/ ClientClose(c) \/ SendTaskNext(c)
      PROVE  self'[q] = client'[q]
  BY <1>5, <1>6 DEF SendJoin, SendLeft, ClientClose, SendTaskNext, SendTaskWrite, SendTaskBreak,
     SendTaskCancelled, server, handler
<1>7. ASSUME NEW c \in Conns,
             \/ RecvOverLimit(c) \/ RecvTaskEnd(c) \/ RecvTaskCancelled(c) \/ SendOut(c)
             \/ \E kind \in {"Offer", "Answer"}, t \in Conns : RecvSdp(c, kind, t)
      PROVE  self'[q] = client'[q]
  BY <1>5, <1>7 DEF RecvOverLimit, RecvTaskEnd, RecvTaskCancelled, SendOut, RecvSdp, server, handler
<1>8. CASE ClearRequests \/ UNCHANGED vars
  BY <1>5, <1>8 DEF ClearRequests, vars, server, handler
<1> QED BY <1>2, <1>3, <1>4, <1>6, <1>7, <1>8 DEF Next, HandlerNext, RecvTaskNext

\* Every step keeps the Updates that are being sent current.
LEMMA CurrentStep == RefinementInv /\ UpdateIsCurrent /\ [Next]_vars => UpdateIsCurrent'
<1> SUFFICES ASSUME RefinementInv, UpdateIsCurrent, [Next]_vars, NEW q \in members',
                    recvTask'[q] = "sending", out'[q].type = "Update"
             PROVE  out'[q] = PeerMsg("Update", q, client'[q])
  BY DEF UpdateIsCurrent
<1>0. /\ client \in [Conns -> Infos] /\ out \in [Conns -> Message] /\ outTo \in [Conns -> Seq(Conns)]
      /\ recvTask \in [Conns -> {"none", "reading", "sending", "over"}]
      /\ members \subseteq Conns /\ q \in Conns /\ TasksAfterHello
  BY TypeStep DEF RefinementInv, TypeInv, TypeOK
<1>1. ASSUME q \in members, recvTask[q] = "sending", out'[q] = out[q], client'[q] = client[q]
      PROVE  out'[q] = PeerMsg("Update", q, client'[q])
  BY <1>1 DEF UpdateIsCurrent
<1>2. ASSUME NEW c \in Conns, Accept(c) PROVE out'[q] = PeerMsg("Update", q, client'[q])
  <2>1. q # c
    BY <1>0, <1>2 DEF Accept, TasksAfterHello, tasks
  <2> QED BY <1>0, <1>1, <1>2, <2>1 DEF Accept, tasks
<1>3. ASSUME NEW c \in Conns, NEW i \in Infos, RecvUpdate(c, i)
      PROVE  out'[q] = PeerMsg("Update", q, client'[q])
  <2>1. PICK s : Sends(c, PeerMsg("Update", c, i), s)
    BY <1>3 DEF RecvUpdate
  <2>2. UNCHANGED members /\ recvTask[c] = "reading"
    BY <1>3 DEF RecvUpdate, Reading
  <2>3. CASE q = c
    <3>1. s # <<>>
      BY <2>1, <2>2, <2>3 DEF Sends
    <3>2. out'[q] = PeerMsg("Update", c, i)
      BY <1>0, <2>1, <2>3, <3>1 DEF Sends
    <3>3. client'[q] = i
      BY <1>0, <1>3, <2>2, <2>3 DEF RecvUpdate
    <3> QED BY <2>3, <3>2, <3>3
  <2>4. CASE q # c
    <3>1. out'[q] = out[q] /\ recvTask'[q] = recvTask[q]
      BY <1>0, <2>1, <2>4 DEF Sends
    <3>2. client'[q] = client[q]
      BY <1>0, <1>3, <2>4 DEF RecvUpdate
    <3> QED BY <1>1, <2>2, <3>1, <3>2
  <2> QED BY <2>3, <2>4
<1>4. ASSUME NEW c \in Conns,
             RecvOverLimit(c) \/ \E kind \in {"Offer", "Answer"}, t \in Conns : RecvSdp(c, kind, t)
      PROVE  out'[q] = PeerMsg("Update", q, client'[q])
  <2>1. PICK m, s : Sends(c, m, s) /\ m.type # "Update"
    BY <1>4 DEF RecvOverLimit, RecvSdp, Error, PeerMsg
  <2>2. UNCHANGED <<members, client>> /\ recvTask[c] = "reading"
    BY <1>4 DEF RecvOverLimit, RecvSdp, Reading, server
  <2>3. CASE q = c
    <3>1. s # <<>>
      BY <2>1, <2>2, <2>3 DEF Sends
    <3>2. out'[q] = m
      BY <1>0, <2>1, <2>3, <3>1 DEF Sends
    <3> QED BY <2>1, <3>2
  <2>4. CASE q # c
    BY <1>0, <1>1, <2>1, <2>2, <2>4 DEF Sends
  <2> QED BY <2>3, <2>4
<1>5. ASSUME NEW c \in Conns, SendOut(c) \/ RecvTaskEnd(c) \/ RecvTaskCancelled(c) \/ SendHello(c)
      PROVE  out'[q] = PeerMsg("Update", q, client'[q])
  <2>1. UNCHANGED <<members, client>>
    BY <1>5 DEF SendOut, RecvTaskEnd, RecvTaskCancelled, SendHello, server
  <2>2. recvTask[q] = "sending" /\ out'[q] = out[q]
    BY <1>0, <1>5 DEF SendOut, RecvTaskEnd, RecvTaskCancelled, SendHello
  <2> QED BY <1>1, <2>1, <2>2
<1>6. CASE members' \subseteq members /\ UNCHANGED <<client, recvTask, out>>
  BY <1>1, <1>6
<1>7. ASSUME NEW c \in Conns,
             \/ Reject(c) \/ SendJoin(c) \/ SelectExit(c) \/ Disconnect(c) \/ SendLeft(c)
             \/ ClientClose(c) \/ SendTaskNext(c)
      PROVE  members' \subseteq members /\ UNCHANGED <<client, recvTask, out>>
  BY <1>7 DEF Reject, SendJoin, SelectExit, Disconnect, SendLeft, ClientClose, SendTaskNext,
     SendTaskWrite, SendTaskBreak, SendTaskCancelled, server, tasks
<1>8. CASE ClearRequests \/ UNCHANGED vars
  BY <1>6, <1>8 DEF ClearRequests, vars, server, tasks
<1> QED BY <1>2, <1>3, <1>4, <1>5, <1>6, <1>7, <1>8 DEF Next, HandlerNext, RecvTaskNext

\* Every step keeps the Hello of a peer about its snapshot.
LEMMA HelloStep ==
    RefinementInv /\ EnteredInv /\ HelloIsSnapshot /\ [Next]_vars => HelloIsSnapshot'
<1> SUFFICES ASSUME RefinementInv, EnteredInv, HelloIsSnapshot, [Next]_vars,
                    NEW p \in Conns, NEW m \in Range(chan'[p]), m.type = "Hello"
             PROVE  m.peers = snapshot'[p]
  BY DEF HelloIsSnapshot
<1> USE DEF RefinementInv
<1>0. /\ TypeOK /\ chan \in [Conns -> Seq(Message)] /\ snapshot \in [Conns -> SUBSET Device]
      /\ todo \in [Conns -> Seq(Conns)]
  BY DEF TypeInv, TypeOK
<1>1. ASSUME m \in Range(chan[p]), snapshot'[p] = snapshot[p] PROVE m.peers = snapshot'[p]
  BY <1>1 DEF HelloIsSnapshot
<1>2. ASSUME NEW c \in Conns, Accept(c) PROVE m.peers = snapshot'[p]
  <2>1. UNCHANGED chan
    BY <1>2 DEF Accept
  <2>2. p # c
    <3>1. c \in Conns \ Entered
      BY <1>2 DEF Accept, Entered
    <3>2. chan[c] = <<>>
      BY <3>1 DEF EnteredInv
    <3> QED BY <2>1, <3>2, RangeEmpty
  <2> QED BY <1>0, <1>1, <1>2, <2>1, <2>2 DEF Accept
<1>3. ASSUME NEW c \in Conns, SendHello(c) PROVE m.peers = snapshot'[p]
  <2>1. Hello(snapshot[c]) \in Message
    BY <1>0, MessageTypes, InfosAssumption DEF TypeOK
  <2>2. chan' = Pushed(c, Hello(snapshot[c])) /\ UNCHANGED snapshot
    BY <1>3 DEF SendHello
  <2>3. m \in Range(chan[p]) \/ (m = Hello(snapshot[c]) /\ p = c)
    BY <1>0, <2>1, <2>2, PushedRange
  <2> QED BY <1>1, <2>2, <2>3 DEF Hello
<1>4. ASSUME NEW h \in Conns, NEW e \in Message, e.type # "Hello", chan' = Pushed(h, e),
             UNCHANGED snapshot
      PROVE  m.peers = snapshot'[p]
  <2>1. m \in Range(chan[p]) \/ m = e
    BY <1>0, <1>4, PushedRange
  <2> QED BY <1>1, <1>4, <2>1
<1>5. ASSUME NEW c \in Conns, SendJoin(c) PROVE m.peers = snapshot'[p]
  <2>1. PeerMsg("Join", c, self[c]) \in Message /\ PeerMsg("Join", c, self[c]).type # "Hello"
    BY MessageTypes DEF TypeInv, TypeOK, PeerTypes, PeerMsg
  <2>2. Head(todo[c]) \in Conns
    BY <1>0, <1>5, RangeTail DEF SendJoin
  <2> QED BY <1>4, <1>5, <2>1, <2>2 DEF SendJoin
<1>6. ASSUME NEW c \in Conns, SendLeft(c) PROVE m.peers = snapshot'[p]
  <2>1. Left(c) \in Message /\ Left(c).type # "Hello"
    BY MessageTypes, InfosAssumption DEF Left
  <2>2. Head(todo[c]) \in Conns
    BY <1>0, <1>6, RangeTail DEF SendLeft
  <2> QED BY <1>4, <1>6, <2>1, <2>2 DEF SendLeft
<1>7. ASSUME NEW c \in Conns, SendOut(c) PROVE m.peers = snapshot'[p]
  <2>1. out[c] \in Message /\ out[c].type # "Hello"
    <3>1. CASE out[c] = Error
      BY <1>0, <3>1 DEF TypeOK, Error
    <3>2. ASSUME NEW t \in {"Update", "Offer", "Answer"}, NEW i \in Infos, out[c] = PeerMsg(t, c, i)
          PROVE  out[c] \in Message /\ out[c].type # "Hello"
      BY <1>0, <3>2 DEF TypeOK, PeerMsg
    <3> QED BY <3>1, <3>2 DEF IsolationInv, OutIsOwn
  <2>2. Head(outTo[c]) \in Conns
    BY <1>7, RangeTail DEF SendOut, TypeInv, TypeOK, SendingHasTarget
  <2> QED BY <1>4, <1>7, <2>1, <2>2 DEF SendOut, handler
<1>8. ASSUME NEW c \in Conns, SendTaskNext(c) PROVE m.peers = snapshot'[p]
  <2>1. UNCHANGED snapshot
    BY <1>8 DEF SendTaskNext, SendTaskWrite, SendTaskBreak, SendTaskCancelled, handler
  <2>2. chan'[p] = chan[p] \/ chan'[p] = <<>> \/ (chan[p] # <<>> /\ chan'[p] = Tail(chan[p]))
    BY <1>0, <1>8 DEF SendTaskNext, SendTaskWrite, SendTaskBreak, SendTaskCancelled
  <2>3. m \in Range(chan[p])
    <3>1. chan[p] \in Seq(Message)
      BY <1>0
    <3>2. chan[p] # <<>> => Range(Tail(chan[p])) \subseteq Range(chan[p])
      BY <3>1, RangeTail
    <3> QED BY <2>2, <3>2, RangeEmpty
  <2> QED BY <1>1, <2>1, <2>3
<1>9. CASE UNCHANGED <<chan, snapshot>>
  BY <1>1, <1>9
<1>10. ASSUME NEW c \in Conns,
              \/ Reject(c) \/ SelectExit(c) \/ Disconnect(c) \/ ClientClose(c)
              \/ RecvOverLimit(c) \/ RecvTaskEnd(c) \/ RecvTaskCancelled(c)
              \/ \E i \in Infos : RecvUpdate(c, i)
              \/ \E kind \in {"Offer", "Answer"}, t \in Conns : RecvSdp(c, kind, t)
       PROVE  UNCHANGED <<chan, snapshot>>
  BY <1>10 DEF Reject, SelectExit, Disconnect, ClientClose, RecvOverLimit, RecvTaskEnd,
     RecvTaskCancelled, RecvUpdate, RecvSdp, handler
<1>11. CASE ClearRequests \/ UNCHANGED vars
  BY <1>9, <1>11 DEF ClearRequests, vars, handler
<1> QED BY <1>2, <1>3, <1>5, <1>6, <1>7, <1>8, <1>9, <1>10, <1>11 DEF Next, HandlerNext, RecvTaskNext

\* Whatever step is taken, a peer that was in the room before q hears the newest
\* of q.
LEMMA UpdateStep == DeliveryInv /\ [Next]_vars => UpdateNotLost'
<1> SUFFICES ASSUME DeliveryInv, [Next]_vars, NEW p \in members', NEW q \in members', p # q,
                    Group(p) = Group(q), RxAlive(p)', ~aborted'[q],
                    \A d \in snapshot'[p] : d.peer # q
             PROVE  HearsNewest(p, q)'
  BY DEF UpdateNotLost
<1> USE DEF DeliveryInv, RefinementInv
<1>0. /\ p \in Conns /\ q \in Conns /\ TypeOK /\ members \subseteq Conns
      /\ chan \in [Conns -> Seq(Message)] /\ todo \in [Conns -> Seq(Conns)]
      /\ outTo \in [Conns -> Seq(Conns)] /\ roster \in [Conns -> SUBSET Device]
      /\ client \in [Conns -> Infos] /\ self \in [Conns -> Infos] /\ out \in [Conns -> Message]
      /\ pc \in [Conns -> {"idle", "rejected", "joining", "serving", "closing", "leaving"}]
      /\ sendTask \in [Conns -> {"none", "running", "over"}]
      /\ recvTask \in [Conns -> {"none", "reading", "sending", "over"}]
      /\ aborted \in [Conns -> BOOLEAN] /\ snapshot \in [Conns -> SUBSET Device]
      /\ \A g : Room(g) \in SUBSET Conns
  BY TypeStep DEF TypeInv, TypeOK, Room
<1>1. ASSUME p \in members, q \in members, RxAlive(p), aborted'[q] = aborted[q],
             snapshot'[p] = snapshot[p]
      PROVE  HearsNewest(p, q)
  BY <1>1 DEF UpdateNotLost
<1> DEFINE Joining == pc[q] = "joining" /\ p \in Range(todo[q]) /\ self[q] = client[q]
           Sending == /\ recvTask[q] = "sending"
                      /\ out[q] = PeerMsg("Update", q, client[q])
                      /\ p \in Range(outTo[q])
           HeardNow == Heard(chan[p], roster[p], q, client[q])
           JoiningKept == Joining => Joining'
           SendingKept == Sending => Sending'
           HeardKept == HeardNow => HeardNow'
<1>2. HearsNewest(p, q) <=> Joining \/ Sending \/ HeardNow
  BY HearsIs
<1>3. HearsNewest(p, q)' <=> Joining' \/ Sending' \/ HeardNow'
  BY DEF HearsNewest, Heard, Newest, Silent
<1>4. ASSUME UNCHANGED <<pc, todo, self, client>> PROVE JoiningKept
  BY <1>4
<1>5. ASSUME UNCHANGED <<recvTask, out, outTo, client>> PROVE SendingKept
  BY <1>5
<1>6. ASSUME chan'[p] = chan[p], roster'[p] = roster[p], client'[q] = client[q] PROVE HeardKept
  BY <1>6
<1>7. ASSUME NEW h \in Conns, NEW m \in Message, chan' = Pushed(h, m), ~Announces(m, q) \/ h # p,
             roster' = roster, client'[q] = client[q]
      PROVE  HeardKept
  <2>1. chan[p] \in Seq(Message)
    BY <1>0
  <2>2. CASE chan'[p] = chan[p]
    BY <1>6, <1>7, <2>2
  <2>3. CASE chan'[p] = Append(chan[p], m) /\ ~Announces(m, q)
    BY <1>7, <2>1, <2>3, HeardAppend
  <2> QED BY <1>0, <1>7, <2>2, <2>3, PushedAt
<1> HIDE DEF Joining, Sending, HeardNow
<1>8. ASSUME HearsNewest(p, q), JoiningKept, SendingKept, HeardKept PROVE HearsNewest(p, q)'
  BY <1>2, <1>3, <1>8
<1> HIDE DEF JoiningKept, SendingKept, HeardKept
<1>9. ASSUME NEW c \in Conns, Accept(c) PROVE HearsNewest(p, q)'
  <2>1. UNCHANGED <<sendTask, recvTask, aborted, out, outTo, chan, roster>>
    BY <1>9 DEF Accept, tasks, ends
  <2>2. p # c
    <3> SUFFICES ASSUME p = c PROVE FALSE
      OBVIOUS
    <3>1. q \in Room(Group(c))
      BY <1>9 DEF Accept, Room
    <3>2. [peer |-> q, info |-> client[q]] \in snapshot'[p]
      BY <1>0, <1>9, <3>1 DEF Accept
    <3> QED BY <3>2
  <2>3. CASE q = c
    <3>1. PICK s \in Orders(Room(Group(c))) : todo' = [todo EXCEPT ![c] = s]
      BY <1>9 DEF Accept, PeersToNotify
    <3>2. Range(s) = Room(Group(c))
      BY <1>0, OrdersOf
    <3>3. p \in Room(Group(c))
      BY <1>9, <2>2, <2>3 DEF Accept, Room
    <3>4. p \in Range(todo'[q]) /\ pc'[q] = "joining" /\ self'[q] = client'[q]
      BY <1>0, <1>9, <2>3, <3>1, <3>2, <3>3 DEF Accept
    <3> QED BY <1>3, <3>4 DEF Joining
  <2>4. CASE q # c
    <3>1. /\ p \in members /\ q \in members
          /\ pc'[q] = pc[q] /\ todo'[q] = todo[q] /\ self'[q] = self[q] /\ client'[q] = client[q]
          /\ snapshot'[p] = snapshot[p]
      BY <1>0, <1>9, <2>2, <2>4 DEF Accept
    <3>2. HearsNewest(p, q)
      BY <1>1, <2>1, <3>1 DEF RxAlive
    <3>3. JoiningKept /\ SendingKept
      BY <2>1, <3>1 DEF Joining, Sending, JoiningKept, SendingKept
    <3> QED BY <1>6, <1>8, <2>1, <3>1, <3>2, <3>3
  <2> QED BY <2>3, <2>4
<1>10. ASSUME NEW c \in Conns, SendJoin(c) PROVE HearsNewest(p, q)'
  <2>1. /\ UNCHANGED <<members, client, self, pc, snapshot, sendTask, recvTask,
                       aborted, out, outTo, roster>>
        /\ todo[c] # <<>> /\ pc[c] = "joining" /\ todo' = [todo EXCEPT ![c] = Tail(todo[c])]
        /\ chan' = Pushed(Head(todo[c]), PeerMsg("Join", c, self[c]))
    BY <1>10 DEF SendJoin, server, tasks, ends
  <2>2. HearsNewest(p, q) /\ RxAlive(p)
    BY <1>1, <2>1 DEF RxAlive
  <2>3. Head(todo[c]) \in Conns /\ Range(todo[c]) = {Head(todo[c])} \cup Range(Tail(todo[c]))
    BY <1>0, <2>1, RangeTail
  <2>4. /\ PeerMsg("Join", c, self[c]) \in Message /\ PeerMsg("Join", c, self[c]).info = self[c]
        /\ Announces(PeerMsg("Join", c, self[c]), q) <=> q = c
    BY <1>0, MessageTypes DEF PeerTypes, PeerMsg, Announces
  <2>5. SendingKept
    BY <1>5, <2>1
  <2>6. CASE q = c /\ p = Head(todo[c])
    <3>1. chan'[p] = Append(chan[p], PeerMsg("Join", c, self[c]))
      BY <1>0, <2>1, <2>2, <2>3, <2>6, PushedAt
    <3>2. self[c] = client[q] /\ client'[q] = client[q] /\ chan[p] \in Seq(Message)
      BY <1>0, <2>1, <2>6 DEF JoiningIsCurrent
    <3>3. HeardNow'
      BY <2>4, <2>6, <3>1, <3>2, HeardNews DEF HeardNow
    <3> QED BY <1>3, <3>3
  <2>7. CASE q = c /\ p # Head(todo[c])
    <3>1. p \in Range(todo[q]) => p \in Range(todo'[q])
      BY <1>0, <2>1, <2>3, <2>7
    <3>2. JoiningKept
      BY <2>1, <3>1 DEF Joining, JoiningKept
    <3>3. HeardKept
      BY <1>7, <2>1, <2>3, <2>4, <2>7
    <3> QED BY <1>8, <2>2, <2>5, <3>2, <3>3
  <2>8. CASE q # c
    <3>1. JoiningKept
      BY <1>0, <2>1, <2>8 DEF Joining, JoiningKept
    <3>2. HeardKept
      BY <1>7, <2>1, <2>3, <2>4, <2>8
    <3> QED BY <1>8, <2>2, <2>5, <3>1, <3>2
  <2> QED BY <2>6, <2>7, <2>8
<1>11. ASSUME NEW c \in Conns, SendHello(c) PROVE HearsNewest(p, q)'
  <2>1. /\ UNCHANGED <<members, client, self, todo, snapshot, aborted, out, outTo, roster>>
        /\ pc[c] = "joining" /\ todo[c] = <<>> /\ chan' = Pushed(c, Hello(snapshot[c]))
    BY <1>11 DEF SendHello, server, ends
  <2>2. RxAlive(p)
    BY <1>0, <1>11 DEF SendHello, RxAlive, NoneBeforeServing
  <2>3. HearsNewest(p, q)
    BY <1>1, <2>1, <2>2
  <2>4. Hello(snapshot[c]) \in Message /\ ~Announces(Hello(snapshot[c]), q)
    BY <1>0, MessageTypes, InfosAssumption DEF Hello, Announces
  <2>5. HeardKept
    BY <1>7, <2>1, <2>4
  <2>6. JoiningKept
    BY <1>0, <1>11, <2>1, RangeEmpty DEF SendHello, Joining, JoiningKept
  <2>7. SendingKept
    <3>1. recvTask[q] = "sending" => recvTask'[q] = "sending"
      BY <1>0, <1>11, <2>1 DEF SendHello, TasksAfterHello
    <3> QED BY <2>1, <3>1 DEF Sending, SendingKept
  <2> QED BY <1>8, <2>3, <2>5, <2>6, <2>7
<1>12. ASSUME NEW c \in Conns, SendTaskWrite(c) PROVE HearsNewest(p, q)'
  <2>1. /\ UNCHANGED <<members, client, self, pc, todo, snapshot, sendTask,
                       recvTask, aborted, out, outTo>>
        /\ chan[c] # <<>> /\ chan' = [chan EXCEPT ![c] = Tail(chan[c])]
        /\ roster' = [roster EXCEPT ![c] = Applied(roster[c], Head(chan[c]))]
    BY <1>12 DEF SendTaskWrite, server, handler, tasks
  <2>2. HearsNewest(p, q)
    BY <1>1, <2>1 DEF RxAlive
  <2>3. JoiningKept /\ SendingKept
    BY <1>4, <1>5, <2>1
  <2>4. CASE p # c
    BY <1>0, <1>6, <1>8, <2>1, <2>2, <2>3, <2>4
  <2>5. CASE p = c
    <3>1. /\ chan[p] \in Seq(Message) /\ chan[p] # <<>> /\ chan'[p] = Tail(chan[p])
          /\ roster'[p] = Applied(roster[p], Head(chan[p])) /\ client'[q] = client[q]
      BY <1>0, <2>1, <2>5
    <3>2. Head(chan[p]) \in Range(chan[p])
      BY <3>1, RangeTail
    <3>3. ~(Head(chan[p]).type = "Left" /\ Head(chan[p]).peer = q)
      BY <1>0, <2>1, <3>2 DEF LeftMeansGone, MembersByControl
    <3>4. Head(chan[p]).type = "Hello" => \A d \in Head(chan[p]).peers : d.peer # q
      BY <1>0, <2>1, <3>2 DEF HelloIsSnapshot
    <3>5. HeardKept
      <4>1. HeardNow => Heard(Tail(chan[p]), Applied(roster[p], Head(chan[p])), q, client[q])
        BY <3>1, <3>3, <3>4, HeardTail DEF HeardNow
      <4> QED BY <3>1, <4>1 DEF HeardNow, HeardKept
    <3> QED BY <1>8, <2>2, <2>3, <3>5
  <2> QED BY <2>4, <2>5
<1>13. ASSUME NEW c \in Conns, SendTaskBreak(c) \/ SendTaskCancelled(c) PROVE HearsNewest(p, q)'
  <2>1. p # c
    BY <1>0, <1>13 DEF SendTaskBreak, SendTaskCancelled, RxAlive
  <2>2. /\ UNCHANGED <<members, client, self, pc, todo, snapshot, recvTask, aborted, out, outTo, roster>>
        /\ chan'[p] = chan[p] /\ sendTask'[p] = sendTask[p]
    BY <1>0, <1>13, <2>1 DEF SendTaskBreak, SendTaskCancelled, server, handler, ends
  <2>3. HearsNewest(p, q)
    BY <1>1, <2>2 DEF RxAlive
  <2> QED BY <1>4, <1>5, <1>6, <1>8, <2>2, <2>3
<1>14. ASSUME NEW c \in Conns, SendOut(c) PROVE HearsNewest(p, q)'
  <2>1. /\ UNCHANGED <<members, client, self, pc, todo, snapshot, sendTask, aborted, roster>>
        /\ recvTask[c] = "sending" /\ outTo' = [outTo EXCEPT ![c] = Tail(outTo[c])]
        /\ chan' = Pushed(Head(outTo[c]), out[c])
    BY <1>14 DEF SendOut, server, handler, ends
  <2>2. HearsNewest(p, q) /\ RxAlive(p)
    BY <1>1, <2>1 DEF RxAlive
  <2>3. /\ Head(outTo[c]) \in Conns
        /\ Range(outTo[c]) = {Head(outTo[c])} \cup Range(Tail(outTo[c]))
    BY <1>0, <2>1, RangeTail DEF TypeInv, SendingHasTarget
  <2>4. out[c] \in Message /\ (Announces(out[c], q) => q = c /\ out[c].type = "Update")
    BY <1>0, OutSays DEF IsolationInv
  <2>5. JoiningKept
    BY <1>4, <2>1
  <2>6. ASSUME q # c PROVE SendingKept
    <3>1. recvTask'[q] = recvTask[q] /\ out'[q] = out[q] /\ outTo'[q] = outTo[q]
      BY <1>0, <1>14, <2>6 DEF SendOut
    <3> QED BY <2>1, <3>1 DEF Sending, SendingKept
  <2>7. CASE q = c /\ p = Head(outTo[c]) /\ out[c].type = "Update"
    <3>1. out[c] = PeerMsg("Update", q, client[q])
      BY <2>1, <2>7 DEF UpdateIsCurrent
    <3>2. Announces(out[c], q) /\ out[c].info = client[q]
      BY <3>1 DEF PeerMsg, Announces
    <3>3. chan'[p] = Append(chan[p], out[c]) /\ chan[p] \in Seq(Message)
      <4>1. chan' = Pushed(p, out[c]) /\ TypeOK /\ p \in Conns
        BY <1>0, <2>1, <2>7
      <4>2. Pushed(p, out[c])[p] = Append(chan[p], out[c])
        BY <2>2, <4>1, PushedAt
      <4> QED BY <1>0, <4>1, <4>2
    <3>4. HeardNow'
      BY <2>1, <2>4, <3>2, <3>3, HeardNews DEF HeardNow
    <3> QED BY <1>3, <3>4
  <2>8. CASE q = c /\ p # Head(outTo[c])
    <3>1. HeardKept
      BY <1>7, <2>1, <2>3, <2>4, <2>8
    <3>2. SendingKept
      <4> SUFFICES ASSUME Sending PROVE Sending'
        BY DEF SendingKept
      <4>1. p \in Range(Tail(outTo[c]))
        BY <2>3, <2>8 DEF Sending
      <4>2. Tail(outTo[c]) # <<>>
        BY <4>1, RangeEmpty
      <4>3. UNCHANGED <<out, recvTask>> /\ outTo'[q] = Tail(outTo[c])
        BY <1>0, <1>14, <2>8, <4>2 DEF SendOut
      <4> QED BY <2>1, <4>1, <4>3 DEF Sending
    <3> QED BY <1>8, <2>2, <2>5, <3>1, <3>2
  <2>9. CASE q = c /\ out[c].type # "Update"
    <3>1. ~Sending
      BY <2>9 DEF Sending, PeerMsg
    <3>2. HeardKept
      BY <1>7, <2>1, <2>3, <2>4, <2>9
    <3> QED BY <1>8, <2>2, <2>5, <3>1, <3>2 DEF SendingKept
  <2>10. CASE q # c
    <3>1. HeardKept
      BY <1>7, <2>1, <2>3, <2>4, <2>10
    <3> QED BY <1>8, <2>2, <2>5, <2>6, <2>10, <3>1
  <2> QED BY <2>7, <2>8, <2>9, <2>10
<1>15. ASSUME NEW c \in Conns, NEW i \in Infos, RecvUpdate(c, i) PROVE HearsNewest(p, q)'
  <2>1. UNCHANGED <<members, self, pc, todo, snapshot, sendTask, aborted, chan, roster>>
    BY <1>15 DEF RecvUpdate, handler, ends
  <2>2. PICK s \in Orders(IF c \in members THEN Others(c) ELSE {}) : Sends(c, PeerMsg("Update", c, i), s)
    BY <1>15 DEF RecvUpdate
  <2>3. CASE q = c
    <3>1. q \in members /\ p \in members
      BY <2>1
    <3>2. Others(c) \in SUBSET Conns /\ s \in Orders(Others(c))
      BY <1>0, <2>2, <2>3, <3>1 DEF Others
    <3>3. p \in Range(s)
      BY <2>3, <3>1, <3>2, OrdersOf DEF Others, Room
    <3>4. s # <<>>
      BY <3>3, RangeEmpty
    <3>5. recvTask'[q] = "sending" /\ out'[q] = PeerMsg("Update", q, i) /\ outTo'[q] = s
      BY <1>0, <2>2, <2>3, <3>4 DEF Sends
    <3>6. client'[q] = i
      BY <1>0, <1>15, <2>3, <3>1 DEF RecvUpdate
    <3> QED BY <1>3, <3>3, <3>5, <3>6 DEF Sending
  <2>4. CASE q # c
    <3>1. client'[q] = client[q]
      BY <1>0, <1>15, <2>4 DEF RecvUpdate
    <3>2. recvTask'[q] = recvTask[q] /\ out'[q] = out[q] /\ outTo'[q] = outTo[q]
      BY <1>0, <2>2, <2>4 DEF Sends
    <3>3. HearsNewest(p, q)
      BY <1>1, <2>1 DEF RxAlive
    <3>4. JoiningKept /\ SendingKept
      BY <2>1, <3>1, <3>2 DEF Joining, Sending, JoiningKept, SendingKept
    <3> QED BY <1>6, <1>8, <2>1, <3>1, <3>3, <3>4
  <2> QED BY <2>3, <2>4
<1>16. ASSUME NEW c \in Conns,
              \/ RecvOverLimit(c) \/ RecvTaskEnd(c)
              \/ \E kind \in {"Offer", "Answer"}, t \in Conns : RecvSdp(c, kind, t)
       PROVE  HearsNewest(p, q)'
  <2>1. /\ UNCHANGED <<members, client, self, pc, todo, snapshot, sendTask, aborted, chan, roster>>
        /\ recvTask[c] = "reading"
    BY <1>16 DEF RecvOverLimit, RecvTaskEnd, RecvSdp, Reading, server, handler, ends
  <2>2. HearsNewest(p, q)
    BY <1>1, <2>1 DEF RxAlive
  <2>3. q # c => recvTask'[q] = recvTask[q] /\ out'[q] = out[q] /\ outTo'[q] = outTo[q]
    BY <1>0, <1>16 DEF RecvOverLimit, RecvTaskEnd, RecvSdp, Sends
  <2>4. SendingKept
    BY <2>1, <2>3 DEF Sending, SendingKept
  <2> QED BY <1>4, <1>6, <1>8, <2>1, <2>2, <2>4
<1>17. ASSUME NEW c \in Conns, RecvTaskCancelled(c) PROVE HearsNewest(p, q)'
  <2>1. /\ UNCHANGED <<members, client, self, pc, todo, snapshot, sendTask, aborted, chan, roster>>
        /\ aborted[c]
    BY <1>17 DEF RecvTaskCancelled, server, handler, ends
  <2>2. q # c
    BY <2>1
  <2>3. HearsNewest(p, q)
    BY <1>1, <2>1 DEF RxAlive
  <2>4. SendingKept
    <3>1. recvTask'[q] = recvTask[q] /\ out'[q] = out[q] /\ outTo'[q] = outTo[q]
      BY <1>0, <1>17, <2>2 DEF RecvTaskCancelled
    <3> QED BY <2>1, <3>1 DEF Sending, SendingKept
  <2> QED BY <1>4, <1>6, <1>8, <2>1, <2>3, <2>4
<1>18. ASSUME NEW c \in Conns, SelectExit(c) PROVE HearsNewest(p, q)'
  <2>1. /\ UNCHANGED <<members, client, self, todo, snapshot, sendTask,
                       recvTask, out, outTo, chan, roster>>
        /\ aborted' = [aborted EXCEPT ![c] = TRUE] /\ pc' = [pc EXCEPT ![c] = "closing"]
    BY <1>18 DEF SelectExit, server, ends
  <2>2. q # c
    BY <1>0, <2>1
  <2>3. aborted'[q] = aborted[q] /\ pc'[q] = pc[q]
    BY <1>0, <2>1, <2>2
  <2>4. HearsNewest(p, q)
    BY <1>1, <2>1, <2>3 DEF RxAlive
  <2>5. JoiningKept
    BY <2>1, <2>3 DEF Joining, JoiningKept
  <2> QED BY <1>5, <1>6, <1>8, <2>1, <2>4, <2>5
<1>19. ASSUME NEW c \in Conns, Disconnect(c) PROVE HearsNewest(p, q)'
  <2>1. /\ UNCHANGED <<client, self, snapshot, sendTask, recvTask, aborted, out, outTo, chan, roster>>
        /\ p \in members /\ q \in members /\ q # c
    BY <1>19 DEF Disconnect, tasks, ends
  <2>2. pc'[q] = pc[q] /\ todo'[q] = todo[q]
    BY <1>0, <1>19, <2>1 DEF Disconnect
  <2>3. HearsNewest(p, q)
    BY <1>1, <2>1 DEF RxAlive
  <2>4. JoiningKept
    BY <2>1, <2>2 DEF Joining, JoiningKept
  <2> QED BY <1>5, <1>6, <1>8, <2>1, <2>3, <2>4
<1>20. ASSUME NEW c \in Conns, SendLeft(c) PROVE HearsNewest(p, q)'
  <2>1. /\ UNCHANGED <<members, client, self, pc, snapshot, sendTask, recvTask,
                       aborted, out, outTo, roster>>
        /\ todo[c] # <<>> /\ pc[c] = "leaving" /\ todo' = [todo EXCEPT ![c] = Tail(todo[c])]
        /\ chan' = Pushed(Head(todo[c]), Left(c))
    BY <1>20 DEF SendLeft, server, tasks, ends
  <2>2. HearsNewest(p, q)
    BY <1>1, <2>1 DEF RxAlive
  <2>3. Head(todo[c]) \in Conns
    BY <1>0, <2>1, RangeTail
  <2>4. Left(c) \in Message /\ ~Announces(Left(c), q)
    BY MessageTypes, InfosAssumption DEF Left, Announces
  <2>5. q # c
    BY <1>0, <2>1 DEF MembersByControl
  <2>6. JoiningKept
    BY <1>0, <2>1, <2>5 DEF Joining, JoiningKept
  <2>7. HeardKept
    BY <1>7, <2>1, <2>3, <2>4
  <2> QED BY <1>5, <1>8, <2>1, <2>2, <2>6, <2>7
<1>21. ASSUME NEW c \in Conns, Reject(c) PROVE HearsNewest(p, q)'
  <2>1. /\ UNCHANGED <<members, client, self, todo, snapshot, sendTask,
                       recvTask, aborted, out, outTo, chan, roster>>
        /\ pc[c] = "idle" /\ pc' = [pc EXCEPT ![c] = "rejected"]
    BY <1>21 DEF Reject, tasks
  <2>2. HearsNewest(p, q)
    BY <1>1, <2>1 DEF RxAlive
  <2>3. JoiningKept
    BY <1>0, <2>1 DEF Joining, JoiningKept
  <2> QED BY <1>5, <1>6, <1>8, <2>1, <2>2, <2>3
<1>22. ASSUME UNCHANGED <<members, client, self, pc, todo, snapshot, sendTask, recvTask, aborted,
                          out, outTo, chan, roster>>
       PROVE  HearsNewest(p, q)'
  <2>1. HearsNewest(p, q)
    BY <1>1, <1>22 DEF RxAlive
  <2> QED BY <1>4, <1>5, <1>6, <1>8, <1>22, <2>1
<1>23. ASSUME NEW c \in Conns, ClientClose(c) PROVE HearsNewest(p, q)'
  BY <1>22, <1>23 DEF ClientClose, server, handler, tasks
<1>24. CASE ClearRequests \/ UNCHANGED vars
  BY <1>22, <1>24 DEF ClearRequests, vars, server, handler, tasks, ends
<1> QED
  BY <1>9, <1>10, <1>11, <1>12, <1>13, <1>14, <1>15, <1>16, <1>17, <1>18, <1>19, <1>20, <1>21,
     <1>23, <1>24
  DEF Next, HandlerNext, RecvTaskNext, SendTaskNext

\* The invariant holds initially and is kept by every step.
LEMMA DeliveryInvariance == Spec => []DeliveryInv
<1>1. Init => EnteredInv /\ LeftMeansGone /\ SettledInv
  BY RangeEmpty DEF Init, EnteredInv, LeftMeansGone, SettledInv
<1>2. Init => JoiningIsCurrent /\ UpdateIsCurrent /\ HelloIsSnapshot /\ UpdateNotLost
  BY RangeEmpty DEF Init, JoiningIsCurrent, UpdateIsCurrent, HelloIsSnapshot, UpdateNotLost
<1>3. RefinementInv /\ LeftMeansGone /\ [Next]_vars => LeftMeansGone'
  BY LeftStep DEF RefinementInv, IsolationInv
<1>4. RefinementInv' /\ DeliveryInv /\ [Next]_vars => DeliveryInv'
  BY <1>3, EnteredStep, SettledStep, JoiningStep, CurrentStep, HelloStep, UpdateStep DEF DeliveryInv
<1> QED BY <1>1, <1>2, <1>4, RefinementInvariance, PTL DEF Spec, DeliveryInv

\* A Join queued for a member is followed by the Left of the same peer as soon
\* as that peer is out of the room, although the Left is sent by another task
\* and through the same bounded channel: no Join leaves a departed peer listed.
THEOREM JoinsAreSettled == Spec => []JoinThenLeft
<1>1. DeliveryInv => JoinThenLeft
  BY SettledJoins DEF DeliveryInv, RefinementInv, TypeInv
<1> QED BY <1>1, DeliveryInvariance, PTL

\* Updates are neither lost nor overtaken: a peer that was in the room before q
\* ends up with the info that tx_map has of q, however the handlers, the tasks
\* and the blocking sends of the two interleave.
THEOREM UpdatesArrive == Spec => []UpdateNotLost
  BY DeliveryInvariance, PTL DEF DeliveryInv

=============================================================================
