------------------------- MODULE RtcSignalingProofs -------------------------
(***************************************************************************)
(* The exchange of session descriptions, for any peers, rooms, sessions    *)
(* and capacities: a call of send_offer goes on with the answer to its own *)
(* offer and no other.                                                     *)
(***************************************************************************)
EXTENDS RtcSignaling, TLAPS

----------------------------------------------------------------------------
(* Types *)

ClientRequests ==
    [type : {"Offer", "Answer"}, target : Peers, sid : Sessions]
        \cup [type : {"Update"}, target : Peers, sid : {None}]

ConnTypes ==
    /\ sock \in [Peers -> {"none", "open", "gone"}]
    /\ conn \in [Peers -> {"idle", "hello", "open", "panicked"}]
    /\ client \in [Peers -> BOOLEAN]
    /\ sendTask \in [Peers -> {"none", "running", "over"}]

CallTypes ==
    /\ callbacks \in [Peers -> SUBSET Sessions]
    /\ offering \in [Sessions -> {"none", "offer", "register", "wait", "exchanged", "failed"}]
    /\ accepting \in [Sessions -> {"none", "answer", "exchanged", "failed"}]
    /\ offerer \in [Sessions -> Peers \cup {None}]
    /\ target \in [Sessions -> Peers \cup {None}]
    /\ \A s \in Sessions : accepting[s] # "none" => offering[s] \notin {"none", "offer"}
    /\ \A s \in Sessions : offering[s] # "none" => offerer[s] \in Peers /\ target[s] \in Peers

RoomTypes ==
    /\ present \subseteq Peers
    /\ owed \subseteq {"Hello", "Join", "Left"} \X Peers \X Peers

ChanTypes ==
    /\ up \in [Peers -> Seq(ClientRequests)]
    /\ mail \in [Peers -> Seq(RoomMessages)]
    /\ recvChan \in [Peers -> Seq(RoomMessages)]
    /\ inHand \in [Peers -> RoomMessages \cup {None}]
    /\ appChan \in [Peers -> Seq(RoomMessages)]
    /\ \A c \in Peers : /\ Len(mail[c]) <= Capacity
                        /\ Len(recvChan[c]) <= 1
                        /\ Len(appChan[c]) <= ListenerCap

TypeInv == ConnTypes /\ CallTypes /\ RoomTypes /\ ChanTypes

----------------------------------------------------------------------------
(* Messages on their way *)

\* The elements of a queue.
In(q) == {q[i] : i \in DOMAIN q}

\* The sessions offered by messages of a queue, and that no two of them offer the same.
OffersOf(m) == IF m.type = "Offer" THEN {m.sid} ELSE {}
Offers(q) == UNION {OffersOf(m) : m \in In(q)}
OfferedOnce(q) ==
    \A i, j \in DOMAIN q : OffersOf(q[i]) \cap OffersOf(q[j]) # {} => i = j

\* What a message written by c has to do with its session.
UpOk(c, m) ==
    /\ m.type = "Offer" =>
         /\ offering[m.sid] \notin {"none", "offer"} /\ accepting[m.sid] = "none"
         /\ offerer[m.sid] = c /\ target[m.sid] = m.target
    /\ m.type = "Answer" =>
         /\ offering[m.sid] # "none" /\ accepting[m.sid] = "exchanged"
         /\ target[m.sid] = c /\ offerer[m.sid] = m.target

\* What a message for x has to do with its session.
DownOk(x, m) ==
    /\ m.type = "Offer" =>
         /\ offering[m.sid] \notin {"none", "offer"} /\ accepting[m.sid] = "none"
         /\ offerer[m.sid] = m.peer /\ target[m.sid] = x
    /\ m.type = "Answer" =>
         /\ offering[m.sid] # "none" /\ accepting[m.sid] = "exchanged"
         /\ offerer[m.sid] = x /\ target[m.sid] = m.peer

Hand(x) == IF inHand[x] = None THEN <<>> ELSE <<inHand[x]>>
Down(x) == In(mail[x]) \cup In(recvChan[x]) \cup In(Hand(x)) \cup In(appChan[x])

MessageInv ==
    \A c \in Peers :
        /\ \A m \in In(up[c]) : UpOk(c, m)
        /\ \A m \in Down(c) : DownOk(c, m)

DownOffers(x) ==
    Offers(mail[x]) \cup Offers(recvChan[x]) \cup Offers(Hand(x)) \cup Offers(appChan[x])

\* An offer is on its way once, at one of the stations to its target.
DownOnce(x) ==
    /\ OfferedOnce(mail[x]) /\ OfferedOnce(appChan[x])
    /\ Offers(mail[x]) \cap Offers(recvChan[x]) = {} /\ Offers(mail[x]) \cap Offers(Hand(x)) = {}
    /\ Offers(mail[x]) \cap Offers(appChan[x]) = {} /\ Offers(recvChan[x]) \cap Offers(Hand(x)) = {}
    /\ Offers(recvChan[x]) \cap Offers(appChan[x]) = {} /\ Offers(Hand(x)) \cap Offers(appChan[x]) = {}

OnceInv ==
    \A c \in Peers :
        /\ OfferedOnce(up[c]) /\ DownOnce(c)
        /\ \A x \in Peers : Offers(up[c]) \cap DownOffers(x) = {}

----------------------------------------------------------------------------
(* Queues *)

\* What is appended to a queue is in it.
LEMMA QueueAppend ==
    ASSUME NEW E, NEW q \in Seq(E), NEW m \in E
    PROVE  /\ Append(q, m) \in Seq(E) /\ Len(Append(q, m)) = Len(q) + 1
           /\ In(Append(q, m)) = In(q) \cup {m}
           /\ Offers(Append(q, m)) = Offers(q) \cup OffersOf(m)
           /\ OfferedOnce(q) /\ Offers(q) \cap OffersOf(m) = {} => OfferedOnce(Append(q, m))
<1> DEFINE r == Append(q, m)
<1>1. /\ r \in Seq(E) /\ Len(r) = Len(q) + 1 /\ Len(q) \in Nat
      /\ DOMAIN r = 1..(Len(q) + 1) /\ DOMAIN q = 1..Len(q)
      /\ r[Len(q) + 1] = m /\ \A i \in 1..Len(q) : r[i] = q[i]
  OBVIOUS
<1> HIDE DEF r
<1>2. In(r) = In(q) \cup {m}
  <2>1. ASSUME NEW x \in In(r) PROVE x \in In(q) \cup {m}
    <3>1. PICK i \in DOMAIN r : x = r[i]
      BY DEF In
    <3>2. CASE i = Len(q) + 1
      BY <1>1, <3>1, <3>2
    <3>3. CASE i \in DOMAIN q
      BY <1>1, <3>1, <3>3 DEF In
    <3> QED BY <1>1, <3>2, <3>3
  <2>2. ASSUME NEW x \in In(q) PROVE x \in In(r)
    <3>1. PICK i \in DOMAIN q : x = q[i]
      BY DEF In
    <3>2. i \in DOMAIN r /\ r[i] = x
      BY <1>1, <3>1
    <3> QED BY <3>2 DEF In
  <2>3. m \in In(r)
    <3>1. Len(q) + 1 \in DOMAIN r
      BY <1>1
    <3> QED BY <1>1, <3>1 DEF In
  <2> QED BY <2>1, <2>2, <2>3
<1>3. Offers(r) = Offers(q) \cup OffersOf(m)
  BY <1>2 DEF Offers
<1>4. ASSUME OfferedOnce(q), Offers(q) \cap OffersOf(m) = {} PROVE OfferedOnce(r)
  <2> SUFFICES ASSUME NEW i \in DOMAIN r, NEW j \in DOMAIN r,
                      OffersOf(r[i]) \cap OffersOf(r[j]) # {}
               PROVE  i = j
    BY DEF OfferedOnce
  <2>1. \A k \in DOMAIN q : OffersOf(q[k]) \cap OffersOf(m) = {}
    BY <1>4 DEF Offers, In
  <2>2. CASE i \in DOMAIN q /\ j \in DOMAIN q
    BY <1>1, <1>4, <2>2 DEF OfferedOnce
  <2>3. CASE i \in DOMAIN q /\ j = Len(q) + 1
    BY <1>1, <2>1, <2>3
  <2>4. CASE i = Len(q) + 1 /\ j \in DOMAIN q
    BY <1>1, <2>1, <2>4
  <2> QED BY <1>1, <2>2, <2>3, <2>4
<1> QED BY <1>1, <1>2, <1>3, <1>4 DEF r

\* The head of a queue and the rest of it.
LEMMA QueueTail ==
    ASSUME NEW E, NEW q \in Seq(E), q # <<>>
    PROVE  /\ Tail(q) \in Seq(E) /\ Len(Tail(q)) = Len(q) - 1 /\ Head(q) \in E
           /\ In(q) = In(Tail(q)) \cup {Head(q)}
           /\ Offers(q) = Offers(Tail(q)) \cup OffersOf(Head(q))
           /\ OfferedOnce(q) =>
                OfferedOnce(Tail(q)) /\ Offers(Tail(q)) \cap OffersOf(Head(q)) = {}
<1> DEFINE r == Tail(q)
           h == Head(q)
<1>1. /\ r \in Seq(E) /\ Len(r) = Len(q) - 1 /\ Len(q) \in Nat /\ Len(q) > 0
      /\ DOMAIN r = 1..(Len(q) - 1) /\ DOMAIN q = 1..Len(q) /\ h = q[1] /\ h \in E
      /\ \A i \in 1..(Len(q) - 1) : r[i] = q[i + 1]
  OBVIOUS
<1> HIDE DEF r, h
<1>2. In(q) = In(r) \cup {h}
  <2>1. ASSUME NEW x \in In(q) PROVE x \in In(r) \cup {h}
    <3>1. PICK i \in DOMAIN q : x = q[i]
      BY DEF In
    <3>2. CASE i = 1
      BY <1>1, <3>1, <3>2
    <3>3. CASE i - 1 \in DOMAIN r
      <4>1. r[i - 1] = q[i]
        BY <1>1, <3>3
      <4> QED BY <3>1, <3>3, <4>1 DEF In
    <3> QED BY <1>1, <3>2, <3>3
  <2>2. ASSUME NEW x \in In(r) PROVE x \in In(q)
    <3>1. PICK i \in DOMAIN r : x = r[i]
      BY DEF In
    <3>2. i + 1 \in DOMAIN q /\ q[i + 1] = x
      BY <1>1, <3>1
    <3> QED BY <3>2 DEF In
  <2>3. h \in In(q)
    <3>1. 1 \in DOMAIN q
      BY <1>1
    <3> QED BY <1>1, <3>1 DEF In
  <2> QED BY <2>1, <2>2, <2>3
<1>3. Offers(q) = Offers(r) \cup OffersOf(h)
  BY <1>2 DEF Offers
<1>4. ASSUME OfferedOnce(q) PROVE OfferedOnce(r) /\ Offers(r) \cap OffersOf(h) = {}
  <2>1. OfferedOnce(r)
    <3> SUFFICES ASSUME NEW i \in DOMAIN r, NEW j \in DOMAIN r,
                        OffersOf(r[i]) \cap OffersOf(r[j]) # {}
                 PROVE  i = j
      BY DEF OfferedOnce
    <3>1. i + 1 \in DOMAIN q /\ j + 1 \in DOMAIN q /\ r[i] = q[i + 1] /\ r[j] = q[j + 1]
      BY <1>1
    <3>2. i + 1 = j + 1
      BY <1>4, <3>1 DEF OfferedOnce
    <3> QED BY <1>1, <3>2
  <2>2. \A i \in DOMAIN r : OffersOf(r[i]) \cap OffersOf(h) = {}
    <3> SUFFICES ASSUME NEW i \in DOMAIN r PROVE OffersOf(r[i]) \cap OffersOf(h) = {}
      OBVIOUS
    <3>1. i + 1 \in DOMAIN q /\ 1 \in DOMAIN q /\ i + 1 # 1 /\ r[i] = q[i + 1] /\ h = q[1]
      BY <1>1
    <3> QED BY <1>4, <3>1 DEF OfferedOnce
  <2> QED BY <2>1, <2>2 DEF Offers, In
<1> QED BY <1>1, <1>2, <1>3, <1>4 DEF r, h

\* Queues of none and of one message.
LEMMA QueueEmpty == In(<<>>) = {} /\ Offers(<<>>) = {} /\ OfferedOnce(<<>>)
  BY DEF In, Offers, OfferedOnce

\* Likewise.
LEMMA QueueOne ==
    ASSUME NEW m
    PROVE  In(<<m>>) = {m} /\ Offers(<<m>>) = OffersOf(m) /\ OfferedOnce(<<m>>)
<1>1. DOMAIN <<m>> = {1} /\ <<m>>[1] = m
  OBVIOUS
<1>2. In(<<m>>) = {m}
  BY <1>1 DEF In
<1> QED BY <1>1, <1>2 DEF Offers, OfferedOnce

\* The sessions that are offered.
LEMMA OffersAre ==
    ASSUME NEW q, NEW s
    PROVE  s \in Offers(q) <=> \E m \in In(q) : m.type = "Offer" /\ m.sid = s
  BY DEF Offers, OffersOf

----------------------------------------------------------------------------
(* Type correctness *)

\* The fields of a message.
LEMMA MessageTypes ==
    ASSUME NEW m \in RoomMessages
    PROVE  /\ m.peer \in Peers /\ m # None
           /\ m.type \in {"Offer", "Answer"} => m.sid \in Sessions
  BY NoneAssumption DEF RoomMessages, SdpMessages

\* The fields of a request.
LEMMA RequestTypes ==
    ASSUME NEW m \in ClientRequests
    PROVE  /\ m.type \in {"Offer", "Answer", "Update"} /\ m.target \in Peers
           /\ m.type # "Update" => m.type \in {"Offer", "Answer"} /\ m.sid \in Sessions
  BY DEF ClientRequests

\* The messages that are made.
LEMMA MadeTypes ==
    /\ \A p \in Peers, type \in {"Hello", "Join", "Left", "Update"} :
          ServerMsg(type, p, None) \in RoomMessages
    /\ \A p \in Peers, s \in Sessions, type \in {"Offer", "Answer"} :
          ServerMsg(type, p, s) \in RoomMessages /\ ClientMsg(type, p, s) \in ClientRequests
    /\ \A p \in Peers : ClientMsg("Update", p, None) \in ClientRequests
  BY DEF ServerMsg, ClientMsg, RoomMessages, SdpMessages, ClientRequests

\* Every step keeps the types of the connections.
LEMMA ConnStep == ConnTypes /\ [Next]_vars => ConnTypes'
<1> SUFFICES ASSUME ConnTypes, [Next]_vars PROVE ConnTypes'
  OBVIOUS
<1>1. CASE UNCHANGED <<sock, conn, client, sendTask>>
  BY <1>1 DEF ConnTypes
<1>2. ASSUME NEW c \in Peers,
             \/ Connect(c) \/ WriteFails(c) \/ ReadHello(c) \/ ConnectReturns(c)
             \/ ConnectPanics(c) \/ DemoReturns(c) \/ SocketLost(c)
      PROVE  ConnTypes'
  BY <1>2 DEF ConnTypes, Connect, WriteFails, ReadHello, ConnectReturns, ConnectPanics,
     DemoReturns, SocketLost
<1>3. ASSUME NEW c \in Peers,
             \/ ReadMessage(c) \/ ListenerTake(c) \/ ListenerForward(c) \/ ListenerPanics(c)
             \/ FfiMessage(c) \/ DemoMessage(c) \/ SendUpdate(c)
      PROVE  ConnTypes'
  BY <1>1, <1>3 DEF ReadMessage, ListenerTake, ListenerForward, ListenerPanics,
     FfiMessage, DemoMessage, SendUpdate, conns
<1>4. ASSUME NEW s \in Sessions, Exchange(s) PROVE ConnTypes'
  BY <1>1, <1>4 DEF Exchange, SendOffer, RegisterCallback, SendAnswer, AnswerImpossible, conns
<1>5. CASE Server \/ UNCHANGED vars \/ \E c, x \in Peers, s \in Sessions : FfiOffer(c, x, s)
  BY <1>1, <1>5 DEF Server, vars, FfiOffer, conns
<1> QED BY <1>2, <1>3, <1>4, <1>5 DEF Next, Tasks

\* Every step keeps the types of the room.
LEMMA RoomStep == RoomTypes /\ [Next]_vars => RoomTypes'
<1> SUFFICES ASSUME RoomTypes, [Next]_vars PROVE RoomTypes'
  OBVIOUS
<1>1. CASE UNCHANGED <<present, owed>>
  BY <1>1 DEF RoomTypes
<1>2. ASSUME NEW c \in Peers, Tasks(c) \/ Connect(c) \/ SendUpdate(c) \/ SocketLost(c)
      PROVE  RoomTypes'
  BY <1>1, <1>2 DEF Tasks, WriteFails, ReadHello, ReadMessage, ConnectReturns, ConnectPanics,
     ListenerTake, ListenerForward, ListenerPanics, FfiMessage, DemoMessage, DemoReturns, Connect,
     SendUpdate, SocketLost, Take, Close, roomVars
<1>3. ASSUME NEW s \in Sessions, Exchange(s) PROVE RoomTypes'
  BY <1>1, <1>3 DEF Exchange, SendOffer, RegisterCallback, SendAnswer, AnswerImpossible, roomVars
<1>4. CASE UNCHANGED vars \/ \E c, x \in Peers, s \in Sessions : FfiOffer(c, x, s)
  BY <1>1, <1>4 DEF vars, FfiOffer, roomVars
<1>5. ASSUME NEW c \in Peers, ServerEnter(c) \/ ServerLeave(c) PROVE RoomTypes'
  BY <1>5 DEF ServerEnter, ServerLeave, Enter, Leave, RoomTypes, RoomMates
<1>6. CASE ServerPosts
  BY <1>6 DEF ServerPosts, PostOwed, RoomTypes
<1>7. ASSUME NEW c \in Peers, ServerRelay(c) PROVE RoomTypes'
  BY <1>1, <1>7 DEF ServerRelay, Post, roomVars
<1> QED BY <1>2, <1>3, <1>4, <1>5, <1>6, <1>7 DEF Next, Server

\* A call with a fresh session id.
LEMMA NewOfferTyped ==
    ASSUME CallTypes, NEW c \in Peers, NEW x \in Peers, NEW s \in Sessions, NewOffer(c, x, s),
           UNCHANGED <<accepting, callbacks>>
    PROVE  CallTypes'
  BY DEF NewOffer, CallTypes

\* An accepted offer is the head of the channel to the consumer.
LEMMA OfferTaken ==
    ASSUME TypeInv, MessageInv, NEW c \in Peers, Consumes(c)
    PROVE  LET m == Head(appChan[c])
           IN  /\ m \in RoomMessages /\ m \in Down(c) /\ DownOk(c, m)
               /\ m.type = "Offer" => m.sid \in Sessions /\ offering[m.sid] \notin {"none", "offer"}
<1>1. appChan[c] \in Seq(RoomMessages) /\ appChan[c] # <<>>
  BY DEF TypeInv, ChanTypes, Consumes
<1> DEFINE m == Head(appChan[c])
<1>2. m \in RoomMessages /\ m \in In(appChan[c])
  BY <1>1, QueueTail
<1> HIDE DEF m
<1>3. m \in Down(c) /\ DownOk(c, m)
  BY <1>2 DEF Down, MessageInv
<1>4. m.type = "Offer" => m.sid \in Sessions
  BY <1>2, MessageTypes
<1> QED BY <1>2, <1>3, <1>4 DEF m, DownOk

\* Every step keeps the types of the calls.
LEMMA CallStep == TypeInv /\ MessageInv /\ AnswerMatchesOffer /\ [Next]_vars => CallTypes'
<1> SUFFICES ASSUME TypeInv, MessageInv, AnswerMatchesOffer, [Next]_vars PROVE CallTypes'
  OBVIOUS
<1>0. CallTypes
  BY DEF TypeInv
<1>1. CASE UNCHANGED <<callbacks, offering, accepting, offerer, target>>
  BY <1>0, <1>1 DEF CallTypes
<1>2. ASSUME NEW c \in Peers, ListenerTake(c) PROVE CallTypes'
  <2> DEFINE X == Called(c, Head(recvChan[c]))
  <2>1. /\ callbacks' = [callbacks EXCEPT ![c] = @ \ X]
        /\ offering' = [s \in Sessions |-> IF s \in X THEN "exchanged" ELSE offering[s]]
        /\ UNCHANGED <<accepting, offerer, target>>
    BY <1>2 DEF ListenerTake
  <2>2. \A s \in X : offering[s] = "wait"
    BY DEF Called, AnswerMatchesOffer
  <2> HIDE DEF X
  <2>3. callbacks' \in [Peers -> SUBSET Sessions]
    BY <1>0, <2>1 DEF CallTypes
  <2>4. \A s \in Sessions : offering'[s] # "none" => offering[s] # "none"
    BY <2>1, <2>2
  <2>5. \A s \in Sessions : offering[s] \notin {"none", "offer"} => offering'[s] \notin {"none", "offer"}
    BY <2>1
  <2> QED BY <1>0, <2>1, <2>3, <2>4, <2>5 DEF CallTypes
<1>3. ASSUME NEW c \in Peers, FfiMessage(c) PROVE CallTypes'
  <2> DEFINE m == Head(appChan[c])
  <2>1. m.type = "Offer" => m.sid \in Sessions /\ offering[m.sid] \notin {"none", "offer"}
    BY <1>3, OfferTaken DEF FfiMessage
  <2>2. /\ UNCHANGED <<callbacks, offering, offerer, target>>
        /\ \/ accepting' = accepting
           \/ m.type = "Offer" /\ accepting' = [accepting EXCEPT ![m.sid] = "answer"]
    BY <1>3 DEF FfiMessage, AcceptOffer
  <2> HIDE DEF m
  <2> QED BY <1>0, <2>1, <2>2 DEF CallTypes
<1>4. ASSUME NEW c \in Peers, DemoMessage(c) PROVE CallTypes'
  <2> DEFINE m == Head(appChan[c])
  <2>1. m \in RoomMessages /\ m.peer \in Peers
        /\ (m.type = "Offer" => m.sid \in Sessions /\ offering[m.sid] \notin {"none", "offer"})
    BY <1>4, OfferTaken, MessageTypes DEF DemoMessage
  <2>2. \/ UNCHANGED <<callbacks, offering, accepting, offerer, target>>
        \/ \E s \in Sessions : NewOffer(c, m.peer, s) /\ UNCHANGED <<accepting, callbacks>>
        \/ /\ m.type = "Offer" /\ accepting' = [accepting EXCEPT ![m.sid] = "answer"]
           /\ UNCHANGED <<callbacks, offering, offerer, target>>
    BY <1>4 DEF DemoMessage, calls
  <2> HIDE DEF m
  <2>3. CASE m.type = "Offer" /\ accepting' = [accepting EXCEPT ![m.sid] = "answer"]
             /\ UNCHANGED <<callbacks, offering, offerer, target>>
    BY <1>0, <2>1, <2>3 DEF CallTypes
  <2> QED BY <1>0, <1>1, <2>1, <2>2, <2>3, NewOfferTyped
<1>5. ASSUME NEW c \in Peers, NEW x \in Peers, NEW s \in Sessions, FfiOffer(c, x, s) PROVE CallTypes'
  BY <1>0, <1>5, NewOfferTyped DEF FfiOffer
<1>6. ASSUME NEW s \in Sessions, Exchange(s) PROVE CallTypes'
  <2>1. CASE SendOffer(s)
    BY <1>0, <2>1 DEF SendOffer, CallTypes
  <2>2. CASE RegisterCallback(s)
    BY <1>0, <2>2 DEF RegisterCallback, Registered, CallTypes
  <2>3. CASE SendAnswer(s) \/ AnswerImpossible(s)
    BY <1>0, <2>3 DEF SendAnswer, AnswerImpossible, CallTypes
  <2> QED BY <1>6, <2>1, <2>2, <2>3 DEF Exchange
<1>7. ASSUME NEW c \in Peers,
             \/ WriteFails(c) \/ ReadHello(c) \/ ReadMessage(c) \/ ConnectReturns(c)
             \/ ConnectPanics(c) \/ ListenerForward(c) \/ ListenerPanics(c) \/ DemoReturns(c)
             \/ Connect(c) \/ SendUpdate(c) \/ SocketLost(c)
      PROVE  CallTypes'
  BY <1>1, <1>7 DEF WriteFails, ReadHello, ReadMessage, ConnectReturns, ConnectPanics,
     ListenerForward, ListenerPanics, DemoReturns, Connect, SendUpdate, SocketLost, calls
<1>8. CASE Server \/ UNCHANGED vars
  BY <1>1, <1>8 DEF Server, vars, calls
<1> QED BY <1>2, <1>3, <1>4, <1>5, <1>6, <1>7, <1>8 DEF Next, Tasks

----------------------------------------------------------------------------
(* Messages that move towards the consumer *)

Stays(y) == UNCHANGED <<mail[y], recvChan[y], inHand[y], appChan[y]>>

\* Nothing new is on its way to y, and what is there once stays there once.
DownMoves(y) ==
    /\ Down(y)' \subseteq Down(y)
    /\ DownOffers(y)' \subseteq DownOffers(y)
    /\ DownOnce(y) => DownOnce(y)'

\* A peer whose channels do not change.
LEMMA StaysMoves ==
    ASSUME NEW y, Stays(y)
    PROVE  Down(y)' = Down(y) /\ DownOffers(y)' = DownOffers(y) /\ DownOnce(y)' = DownOnce(y)
<1>1. Hand(y)' = Hand(y)
  BY DEF Stays, Hand
<1> QED BY <1>1 DEF Stays, Down, DownOffers, DownOnce

\* The channel from the reading task holds a message or none.
LEMMA AtMostOne ==
    ASSUME NEW E, NEW q \in Seq(E), Len(q) <= 1, q # <<>>
    PROVE  q = <<Head(q)>> /\ Head(q) \in E
<1>1. Len(q) \in Nat /\ Len(q) # 0 /\ Head(q) = q[1]
  OBVIOUS
<1>2. Len(q) = 1
  BY <1>1
<1>3. DOMAIN q = 1..1 /\ q = [i \in 1..1 |-> q[i]] /\ q[1] \in E
  BY <1>2
<1>4. /\ <<q[1]>> \in Seq(E) /\ Len(<<q[1]>>) = 1 /\ <<q[1]>>[1] = q[1]
  BY <1>3
<1>5. DOMAIN <<q[1]>> = 1..1 /\ <<q[1]>> = [i \in 1..1 |-> <<q[1]>>[i]]
  BY <1>4
<1>6. \A i \in 1..1 : <<q[1]>>[i] = q[i]
  BY <1>4
<1> QED BY <1>1, <1>3, <1>5, <1>6

\* The reading task passes a message on.
LEMMA ReadMoves ==
    ASSUME TypeInv, NEW c \in Peers, ReadMessage(c)
    PROVE  ChanTypes' /\ \A y \in Peers : DownMoves(y)
<1>1. /\ ChanTypes
      /\ mail[c] # <<>> /\ recvChan[c] = <<>>
      /\ recvChan' = [recvChan EXCEPT ![c] = <<Head(mail[c])>>]
      /\ mail' = [mail EXCEPT ![c] = Tail(@)]
      /\ UNCHANGED <<up, inHand, appChan>>
  BY DEF ReadMessage, Reading, Take, TypeInv
<1> DEFINE m == Head(mail[c])
           q == Tail(mail[c])
<1>2. /\ mail[c] \in Seq(RoomMessages) /\ q \in Seq(RoomMessages) /\ m \in RoomMessages
      /\ Len(q) = Len(mail[c]) - 1 /\ Len(mail[c]) <= Capacity /\ Len(mail[c]) \in Nat
      /\ In(mail[c]) = In(q) \cup {m} /\ Offers(mail[c]) = Offers(q) \cup OffersOf(m)
      /\ OfferedOnce(mail[c]) => OfferedOnce(q) /\ Offers(q) \cap OffersOf(m) = {}
  BY <1>1, QueueTail DEF ChanTypes
<1> HIDE DEF m, q
<1>3. /\ mail'[c] = q /\ recvChan'[c] = <<m>> /\ inHand'[c] = inHand[c] /\ appChan'[c] = appChan[c]
      /\ \A y \in Peers \ {c} : mail'[y] = mail[y] /\ recvChan'[y] = recvChan[y]
  BY <1>1 DEF m, q, ChanTypes
<1>4. ChanTypes'
  <2>1. Len(q) <= Capacity /\ <<m>> \in Seq(RoomMessages) /\ Len(<<m>>) <= 1
    BY <1>2, CapacityAssumption
  <2>2. mail' \in [Peers -> Seq(RoomMessages)] /\ recvChan' \in [Peers -> Seq(RoomMessages)]
    BY <1>1, <1>2, <2>1 DEF ChanTypes, m, q
  <2>3. \A y \in Peers : Len(mail'[y]) <= Capacity /\ Len(recvChan'[y]) <= 1
    BY <1>1, <1>3, <2>1 DEF ChanTypes
  <2> QED BY <1>1, <2>2, <2>3 DEF ChanTypes
<1>5. DownMoves(c)
  <2>1. Hand(c)' = Hand(c)
    BY <1>3 DEF Hand
  <2>2. /\ In(recvChan[c]) = {} /\ In(recvChan[c])' = {m}
        /\ Offers(recvChan[c]) = {} /\ Offers(recvChan[c])' = OffersOf(m)
    BY <1>1, <1>3, QueueEmpty, QueueOne
  <2>3. Down(c)' \subseteq Down(c)
    BY <1>2, <1>3, <2>1, <2>2 DEF Down
  <2>4. DownOffers(c)' \subseteq DownOffers(c)
    BY <1>2, <1>3, <2>1, <2>2 DEF DownOffers
  <2>5. DownOnce(c) => DownOnce(c)'
    BY <1>2, <1>3, <2>1, <2>2 DEF DownOnce
  <2> QED BY <2>3, <2>4, <2>5 DEF DownMoves
<1>6. ASSUME NEW y \in Peers \ {c} PROVE DownMoves(y)
  <2>1. Stays(y)
    BY <1>1, <1>3 DEF Stays
  <2> QED BY <2>1, StaysMoves DEF DownMoves
<1> QED BY <1>4, <1>5, <1>6

\* The listener passes a message on, or keeps it in hand while the channel is full.
LEMMA TakeMoves ==
    ASSUME TypeInv, NEW c \in Peers, ListenerTake(c)
    PROVE  ChanTypes' /\ \A y \in Peers : DownMoves(y)
<1> DEFINE m == Head(recvChan[c])
<1>1. /\ ChanTypes
      /\ inHand[c] = None /\ recvChan[c] # <<>>
      /\ recvChan' = [recvChan EXCEPT ![c] = <<>>]
      /\ UNCHANGED <<up, mail>>
      /\ Forward(c, m)
  BY DEF ListenerTake, TypeInv, roomVars
<1>2. recvChan[c] = <<m>> /\ m \in RoomMessages /\ m # None
  BY <1>1, AtMostOne, MessageTypes DEF ChanTypes
<1> HIDE DEF m
<1>3. /\ recvChan'[c] = <<>> /\ mail'[c] = mail[c]
      /\ Offers(recvChan[c]) = OffersOf(m) /\ Offers(recvChan[c])' = {}
      /\ In(recvChan[c]) = {m} /\ In(recvChan[c])' = {}
      /\ \A y \in Peers \ {c} : recvChan'[y] = recvChan[y] /\ mail'[y] = mail[y]
  BY <1>1, <1>2, QueueOne, QueueEmpty DEF ChanTypes
<1>4. Hand(c) = <<>> /\ In(Hand(c)) = {} /\ Offers(Hand(c)) = {}
  BY <1>1, QueueEmpty DEF Hand
<1>5. recvChan' \in [Peers -> Seq(RoomMessages)] /\ \A y \in Peers : Len(recvChan'[y]) <= 1
  BY <1>1, <1>3 DEF ChanTypes
<1>6. CASE CanForward(c)
  <2>1. /\ appChan' = [appChan EXCEPT ![c] = Append(@, m)] /\ UNCHANGED inHand
        /\ Len(appChan[c]) < ListenerCap /\ appChan[c] \in Seq(RoomMessages)
    BY <1>1, <1>6 DEF Forward, CanForward, ChanTypes
  <2> DEFINE q == Append(appChan[c], m)
  <2>2. /\ q \in Seq(RoomMessages) /\ Len(q) = Len(appChan[c]) + 1
        /\ In(q) = In(appChan[c]) \cup {m}
        /\ Offers(q) = Offers(appChan[c]) \cup OffersOf(m)
        /\ OfferedOnce(appChan[c]) /\ Offers(appChan[c]) \cap OffersOf(m) = {} => OfferedOnce(q)
    BY <1>2, <2>1, QueueAppend
  <2>3. Len(q) <= ListenerCap
    BY <2>1, <2>2, CapacityAssumption
  <2>4. appChan'[c] = q /\ \A y \in Peers \ {c} : appChan'[y] = appChan[y]
    BY <1>1, <2>1 DEF ChanTypes
  <2>5. ChanTypes'
    <3>1. appChan' \in [Peers -> Seq(RoomMessages)]
      BY <1>1, <2>1, <2>2 DEF ChanTypes
    <3>2. \A y \in Peers : Len(appChan'[y]) <= ListenerCap
      BY <1>1, <2>3, <2>4 DEF ChanTypes
    <3> QED BY <1>1, <1>5, <2>1, <3>1, <3>2 DEF ChanTypes
  <2> HIDE DEF q
  <2>6. Hand(c)' = <<>>
    BY <1>1, <2>1 DEF Hand
  <2>7. DownMoves(c)
    <3>1. Down(c)' \subseteq Down(c)
      BY <1>3, <1>4, <2>2, <2>4, <2>6 DEF Down
    <3>2. DownOffers(c)' \subseteq DownOffers(c)
      BY <1>3, <1>4, <2>2, <2>4, <2>6 DEF DownOffers
    <3>3. DownOnce(c) => DownOnce(c)'
      BY <1>3, <1>4, <2>2, <2>4, <2>6 DEF DownOnce
    <3> QED BY <3>1, <3>2, <3>3 DEF DownMoves
  <2>8. ASSUME NEW y \in Peers \ {c} PROVE DownMoves(y)
    <3>1. Stays(y)
      BY <1>3, <2>1, <2>4 DEF Stays
    <3> QED BY <3>1, StaysMoves DEF DownMoves
  <2> QED BY <2>5, <2>7, <2>8
<1>7. CASE ~CanForward(c)
  <2>1. inHand' = [inHand EXCEPT ![c] = m] /\ UNCHANGED appChan
    BY <1>1, <1>7 DEF Forward
  <2>2. inHand'[c] = m /\ \A y \in Peers \ {c} : inHand'[y] = inHand[y]
    BY <1>1, <2>1 DEF ChanTypes
  <2>3. ChanTypes'
    <3>1. inHand' \in [Peers -> RoomMessages \cup {None}]
      BY <1>1, <1>2, <2>1 DEF ChanTypes
    <3> QED BY <1>1, <1>5, <2>1, <3>1 DEF ChanTypes
  <2>4. Hand(c)' = <<m>>
    BY <1>2, <2>2 DEF Hand
  <2>5. In(Hand(c))' = {m} /\ Offers(Hand(c))' = OffersOf(m)
    BY <2>4, QueueOne
  <2>6. DownMoves(c)
    <3>1. Down(c)' \subseteq Down(c)
      BY <1>3, <1>4, <2>1, <2>5 DEF Down
    <3>2. DownOffers(c)' \subseteq DownOffers(c)
      BY <1>3, <1>4, <2>1, <2>5 DEF DownOffers
    <3>3. DownOnce(c) => DownOnce(c)'
      BY <1>3, <1>4, <2>1, <2>5 DEF DownOnce
    <3> QED BY <3>1, <3>2, <3>3 DEF DownMoves
  <2>7. ASSUME NEW y \in Peers \ {c} PROVE DownMoves(y)
    <3>1. Stays(y)
      BY <1>3, <2>1, <2>2 DEF Stays
    <3> QED BY <3>1, StaysMoves DEF DownMoves
  <2> QED BY <2>3, <2>6, <2>7
<1> QED BY <1>6, <1>7

\* The listener has room again.
LEMMA ForwardMoves ==
    ASSUME TypeInv, NEW c \in Peers, ListenerForward(c)
    PROVE  ChanTypes' /\ \A y \in Peers : DownMoves(y)
<1> DEFINE m == inHand[c]
           q == Append(appChan[c], m)
<1>1. /\ ChanTypes /\ m # None
      /\ Len(appChan[c]) < ListenerCap
      /\ appChan' = [appChan EXCEPT ![c] = Append(@, m)]
      /\ inHand' = [inHand EXCEPT ![c] = None]
      /\ UNCHANGED <<up, mail, recvChan>>
  BY DEF ListenerForward, CanForward, TypeInv, roomVars
<1>2. m \in RoomMessages /\ appChan[c] \in Seq(RoomMessages)
  BY <1>1 DEF ChanTypes
<1>3. /\ q \in Seq(RoomMessages) /\ Len(q) = Len(appChan[c]) + 1
      /\ In(q) = In(appChan[c]) \cup {m}
      /\ Offers(q) = Offers(appChan[c]) \cup OffersOf(m)
      /\ OfferedOnce(appChan[c]) /\ Offers(appChan[c]) \cap OffersOf(m) = {} => OfferedOnce(q)
  BY <1>2, QueueAppend
<1>4. Len(q) <= ListenerCap
  BY <1>1, <1>2, <1>3, CapacityAssumption
<1>5. /\ appChan'[c] = q /\ inHand'[c] = None
      /\ \A y \in Peers \ {c} : appChan'[y] = appChan[y] /\ inHand'[y] = inHand[y]
  BY <1>1 DEF ChanTypes
<1>6. ChanTypes'
  <2>1. appChan' \in [Peers -> Seq(RoomMessages)] /\ inHand' \in [Peers -> RoomMessages \cup {None}]
    BY <1>1, <1>3 DEF ChanTypes
  <2>2. \A y \in Peers : Len(appChan'[y]) <= ListenerCap
    BY <1>1, <1>4, <1>5 DEF ChanTypes
  <2> QED BY <1>1, <2>1, <2>2 DEF ChanTypes
<1>7. DownMoves(c)
  <2>1. Hand(c) = <<m>> /\ Hand(c)' = <<>>
    BY <1>1, <1>5 DEF Hand
  <2>2. /\ In(Hand(c)) = {m} /\ In(Hand(c))' = {}
        /\ Offers(Hand(c)) = OffersOf(m) /\ Offers(Hand(c))' = {}
    BY <2>1, QueueOne, QueueEmpty
  <2> HIDE DEF m, q
  <2>3. Down(c)' \subseteq Down(c)
    BY <1>1, <1>3, <1>5, <2>2 DEF Down
  <2>4. DownOffers(c)' \subseteq DownOffers(c)
    BY <1>1, <1>3, <1>5, <2>2 DEF DownOffers
  <2>5. ASSUME DownOnce(c) PROVE DownOnce(c)'
    <3>1. /\ OfferedOnce(mail[c])' /\ OfferedOnce(appChan[c])'
          /\ Offers(mail[c])' = Offers(mail[c]) /\ Offers(recvChan[c])' = Offers(recvChan[c])
          /\ Offers(appChan[c])' = Offers(appChan[c]) \cup OffersOf(m)
      BY <1>1, <1>3, <1>5, <2>2, <2>5 DEF DownOnce
    <3> QED BY <2>2, <2>5, <3>1 DEF DownOnce
  <2> QED BY <2>3, <2>4, <2>5 DEF DownMoves
<1>8. ASSUME NEW y \in Peers \ {c} PROVE DownMoves(y)
  <2>1. Stays(y)
    BY <1>1, <1>5 DEF Stays
  <2> QED BY <2>1, StaysMoves DEF DownMoves
<1> QED BY <1>6, <1>7, <1>8

\* What the listener holds when it panics is lost.
LEMMA PanicMoves ==
    ASSUME TypeInv, NEW c \in Peers, ListenerPanics(c)
    PROVE  ChanTypes' /\ \A y \in Peers : DownMoves(y)
<1>1. /\ ChanTypes
      /\ recvChan' = [recvChan EXCEPT ![c] = <<>>]
      /\ inHand' = [inHand EXCEPT ![c] = None]
      /\ UNCHANGED <<up, mail, appChan>>
  BY DEF ListenerPanics, TypeInv, roomVars
<1>2. /\ recvChan'[c] = <<>> /\ inHand'[c] = None
      /\ \A y \in Peers \ {c} : recvChan'[y] = recvChan[y] /\ inHand'[y] = inHand[y]
  BY <1>1 DEF ChanTypes
<1>3. ChanTypes'
  <2>1. \A y \in Peers : Len(recvChan'[y]) <= 1
    BY <1>1, <1>2 DEF ChanTypes
  <2>2. recvChan' \in [Peers -> Seq(RoomMessages)] /\ inHand' \in [Peers -> RoomMessages \cup {None}]
    BY <1>1 DEF ChanTypes
  <2> QED BY <1>1, <2>1, <2>2 DEF ChanTypes
<1>4. DownMoves(c)
  <2>1. Hand(c)' = <<>>
    BY <1>2 DEF Hand
  <2>2. /\ In(Hand(c))' = {} /\ Offers(Hand(c))' = {}
        /\ In(recvChan[c])' = {} /\ Offers(recvChan[c])' = {}
    BY <1>2, <2>1, QueueEmpty
  <2> QED BY <1>1, <2>2 DEF DownMoves, Down, DownOffers, DownOnce
<1>5. ASSUME NEW y \in Peers \ {c} PROVE DownMoves(y)
  <2>1. Stays(y)
    BY <1>1, <1>2 DEF Stays
  <2> QED BY <2>1, StaysMoves DEF DownMoves
<1> QED BY <1>3, <1>4, <1>5

\* The consumer takes a message; an offer it takes is on its way no more.
LEMMA ConsumeMoves ==
    ASSUME TypeInv, OnceInv, NEW c \in Peers, Consumes(c), Consumed(c),
           UNCHANGED <<up, mail, recvChan, inHand>>
    PROVE  /\ ChanTypes' /\ \A y \in Peers : DownMoves(y)
           /\ OffersOf(Head(appChan[c])) \cap DownOffers(c)' = {}
<1> DEFINE m == Head(appChan[c])
           q == Tail(appChan[c])
<1>1. ChanTypes /\ appChan[c] # <<>> /\ appChan' = [appChan EXCEPT ![c] = q]
  BY DEF Consumes, Consumed, TypeInv
<1>2. /\ appChan[c] \in Seq(RoomMessages) /\ q \in Seq(RoomMessages)
      /\ Len(q) = Len(appChan[c]) - 1 /\ Len(appChan[c]) <= ListenerCap
      /\ In(appChan[c]) = In(q) \cup {m} /\ Offers(appChan[c]) = Offers(q) \cup OffersOf(m)
      /\ OfferedOnce(appChan[c]) => OfferedOnce(q) /\ Offers(q) \cap OffersOf(m) = {}
  BY <1>1, QueueTail DEF ChanTypes
<1> HIDE DEF m, q
<1>3. Len(q) <= ListenerCap
  BY <1>2, CapacityAssumption
<1>4. appChan'[c] = q /\ \A y \in Peers \ {c} : appChan'[y] = appChan[y]
  BY <1>1 DEF ChanTypes
<1>5. ChanTypes'
  <2>1. appChan' \in [Peers -> Seq(RoomMessages)]
    BY <1>1, <1>2 DEF ChanTypes
  <2>2. \A y \in Peers : Len(appChan'[y]) <= ListenerCap
    BY <1>1, <1>3, <1>4 DEF ChanTypes
  <2> QED BY <1>1, <2>1, <2>2 DEF ChanTypes
<1>6. Hand(c)' = Hand(c)
  BY DEF Hand
<1>7. DownMoves(c)
  BY <1>2, <1>4, <1>6 DEF DownMoves, Down, DownOffers, DownOnce
<1>8. OffersOf(m) \cap DownOffers(c)' = {}
  <2>1. DownOnce(c)
    BY DEF OnceInv
  <2> QED BY <1>2, <1>4, <1>6, <2>1 DEF DownOffers, DownOnce
<1>9. ASSUME NEW y \in Peers \ {c} PROVE DownMoves(y)
  <2>1. Stays(y)
    BY <1>4 DEF Stays
  <2> QED BY <2>1, StaysMoves DEF DownMoves
<1> QED BY <1>5, <1>7, <1>8, <1>9 DEF m

\* The demo returns and drops its channel.
LEMMA ReturnMoves ==
    ASSUME TypeInv, NEW c \in Peers, DemoReturns(c)
    PROVE  ChanTypes' /\ \A y \in Peers : DownMoves(y)
<1>1. /\ ChanTypes /\ UNCHANGED <<up, mail, recvChan, inHand>>
      /\ appChan' = appChan \/ appChan' = [appChan EXCEPT ![c] = <<>>]
  BY DEF DemoReturns, TypeInv, roomVars
<1>2. CASE appChan' = appChan
  <2>1. ChanTypes'
    BY <1>1, <1>2 DEF ChanTypes
  <2>2. \A y \in Peers : Stays(y)
    BY <1>1, <1>2 DEF Stays
  <2> QED BY <2>1, <2>2, StaysMoves DEF DownMoves
<1>3. CASE appChan' = [appChan EXCEPT ![c] = <<>>]
  <2>1. appChan'[c] = <<>> /\ \A y \in Peers \ {c} : appChan'[y] = appChan[y]
    BY <1>1, <1>3 DEF ChanTypes
  <2>2. ChanTypes'
    <3>1. appChan' \in [Peers -> Seq(RoomMessages)]
      BY <1>1, <1>3 DEF ChanTypes
    <3>2. \A y \in Peers : Len(appChan'[y]) <= ListenerCap
      BY <1>1, <2>1, CapacityAssumption DEF ChanTypes
    <3> QED BY <1>1, <3>1, <3>2 DEF ChanTypes
  <2>3. In(appChan[c])' = {} /\ Offers(appChan[c])' = {} /\ OfferedOnce(appChan[c])'
    BY <2>1, QueueEmpty
  <2>4. Hand(c)' = Hand(c)
    BY <1>1 DEF Hand
  <2>5. DownMoves(c)
    BY <1>1, <2>3, <2>4 DEF DownMoves, Down, DownOffers, DownOnce
  <2>6. ASSUME NEW y \in Peers \ {c} PROVE DownMoves(y)
    <3>1. Stays(y)
      BY <1>1, <2>1 DEF Stays
    <3> QED BY <3>1, StaysMoves DEF DownMoves
  <2> QED BY <2>2, <2>5, <2>6
<1> QED BY <1>1, <1>2, <1>3

----------------------------------------------------------------------------
(* Messages that are written and relayed *)

\* Nothing new is on its way from y.
UpMoves(y) ==
    /\ In(up[y])' \subseteq In(up[y])
    /\ Offers(up[y])' \subseteq Offers(up[y])
    /\ OfferedOnce(up[y]) => OfferedOnce(up[y])'

\* m may be new on its way to x.
DownGets(x, m) ==
    /\ Down(x)' \subseteq Down(x) \cup {m}
    /\ DownOffers(x)' \subseteq DownOffers(x) \cup OffersOf(m)
    /\ DownOnce(x) /\ OffersOf(m) \cap DownOffers(x) = {} => DownOnce(x)'

\* m may be new on its way from c.
UpGets(c, m) ==
    /\ In(up[c])' \subseteq In(up[c]) \cup {m}
    /\ Offers(up[c])' \subseteq Offers(up[c]) \cup OffersOf(m)
    /\ OfferedOnce(up[c]) /\ OffersOf(m) \cap Offers(up[c]) = {} => OfferedOnce(up[c])'

\* Requests that do not change.
LEMMA UpStays ==
    ASSUME NEW y, UNCHANGED up[y]
    PROVE  UpMoves(y)
  BY DEF UpMoves

\* A lost socket takes along what is on its way.
LEMMA LostMoves ==
    ASSUME TypeInv, NEW c \in Peers, SocketLost(c)
    PROVE  ChanTypes' /\ \A y \in Peers : DownMoves(y) /\ UpMoves(y)
<1>1. /\ ChanTypes
      /\ up' = [up EXCEPT ![c] = <<>>] /\ mail' = [mail EXCEPT ![c] = <<>>]
      /\ UNCHANGED <<recvChan, inHand, appChan>>
  BY DEF SocketLost, Close, TypeInv
<1>2. /\ up'[c] = <<>> /\ mail'[c] = <<>>
      /\ \A y \in Peers \ {c} : up'[y] = up[y] /\ mail'[y] = mail[y]
  BY <1>1 DEF ChanTypes
<1>3. ChanTypes'
  <2>1. up' \in [Peers -> Seq(ClientRequests)] /\ mail' \in [Peers -> Seq(RoomMessages)]
    BY <1>1 DEF ChanTypes
  <2>2. \A y \in Peers : Len(mail'[y]) <= Capacity
    BY <1>1, <1>2, CapacityAssumption DEF ChanTypes
  <2> QED BY <1>1, <2>1, <2>2 DEF ChanTypes
<1>4. DownMoves(c) /\ UpMoves(c)
  <2>1. /\ In(mail[c])' = {} /\ Offers(mail[c])' = {} /\ OfferedOnce(mail[c])'
        /\ In(up[c])' = {} /\ Offers(up[c])' = {} /\ OfferedOnce(up[c])'
    BY <1>2, QueueEmpty
  <2>2. Hand(c)' = Hand(c)
    BY <1>1 DEF Hand
  <2> QED BY <1>1, <2>1, <2>2 DEF DownMoves, UpMoves, Down, DownOffers, DownOnce
<1>5. ASSUME NEW y \in Peers \ {c} PROVE DownMoves(y) /\ UpMoves(y)
  <2>1. Stays(y)
    BY <1>1, <1>2 DEF Stays
  <2> QED BY <1>2, <2>1, StaysMoves, UpStays DEF DownMoves
<1> QED BY <1>3, <1>4, <1>5

\* A request is written, or lost with the socket.
LEMMA SendsGets ==
    ASSUME TypeInv, NEW c \in Peers, NEW m \in ClientRequests, Sends(c, m),
           UNCHANGED <<mail, recvChan, inHand, appChan>>
    PROVE  /\ ChanTypes' /\ UpGets(c, m)
           /\ \A y \in Peers \ {c} : UNCHANGED up[y]
           /\ \A y \in Peers : Stays(y)
<1>0. ChanTypes /\ \A y \in Peers : Stays(y)
  BY DEF TypeInv, Stays
<1>1. CASE up' = up
  BY <1>0, <1>1 DEF ChanTypes, UpGets
<1>2. CASE up' = [up EXCEPT ![c] = Append(@, m)]
  <2> DEFINE q == Append(up[c], m)
  <2>1. up[c] \in Seq(ClientRequests)
    BY <1>0 DEF ChanTypes
  <2>2. /\ q \in Seq(ClientRequests) /\ In(q) = In(up[c]) \cup {m}
        /\ Offers(q) = Offers(up[c]) \cup OffersOf(m)
        /\ OfferedOnce(up[c]) /\ Offers(up[c]) \cap OffersOf(m) = {} => OfferedOnce(q)
    BY <2>1, QueueAppend
  <2>3. up'[c] = q /\ \A y \in Peers \ {c} : up'[y] = up[y]
    BY <1>0, <1>2 DEF ChanTypes
  <2>4. up' \in [Peers -> Seq(ClientRequests)]
    BY <1>0, <1>2, <2>2 DEF ChanTypes
  <2>5. ChanTypes'
    BY <1>0, <2>4 DEF ChanTypes
  <2> HIDE DEF q
  <2>6. UpGets(c, m)
    BY <2>2, <2>3 DEF UpGets
  <2> QED BY <1>0, <2>3, <2>5, <2>6
<1> QED BY <1>1, <1>2 DEF Sends

\* One mailbox that gets a message.
LEMMA MailGets ==
    ASSUME ChanTypes, NEW x \in Peers, NEW m \in RoomMessages,
           mail'[x] = Append(mail[x], m), UNCHANGED <<recvChan[x], inHand[x], appChan[x]>>
    PROVE  DownGets(x, m)
<1> DEFINE q == Append(mail[x], m)
<1>1. mail[x] \in Seq(RoomMessages)
  BY DEF ChanTypes
<1>2. /\ In(q) = In(mail[x]) \cup {m}
      /\ Offers(q) = Offers(mail[x]) \cup OffersOf(m)
      /\ OfferedOnce(mail[x]) /\ Offers(mail[x]) \cap OffersOf(m) = {} => OfferedOnce(q)
  BY <1>1, QueueAppend
<1>3. mail'[x] = q /\ Hand(x)' = Hand(x)
  BY DEF Hand
<1> HIDE DEF q
<1>4. Down(x)' \subseteq Down(x) \cup {m} /\ DownOffers(x)' \subseteq DownOffers(x) \cup OffersOf(m)
  BY <1>2, <1>3 DEF Down, DownOffers
<1>5. ASSUME DownOnce(x), OffersOf(m) \cap DownOffers(x) = {} PROVE DownOnce(x)'
  <2>1. /\ OffersOf(m) \cap Offers(mail[x]) = {} /\ OffersOf(m) \cap Offers(recvChan[x]) = {}
        /\ OffersOf(m) \cap Offers(Hand(x)) = {} /\ OffersOf(m) \cap Offers(appChan[x]) = {}
    BY <1>5 DEF DownOffers
  <2>2. OfferedOnce(q)
    BY <1>2, <1>5, <2>1 DEF DownOnce
  <2> QED BY <1>2, <1>3, <1>5, <2>1, <2>2 DEF DownOnce
<1> QED BY <1>4, <1>5 DEF DownGets

\* The server posts a message, which a closed mailbox does not keep.
LEMMA PostedGets ==
    ASSUME TypeInv, NEW x \in Peers, NEW m \in RoomMessages, HasSpace(x), mail' = Posted(x, m),
           UNCHANGED <<recvChan, inHand, appChan>>, up' \in [Peers -> Seq(ClientRequests)]
    PROVE  ChanTypes' /\ DownGets(x, m) /\ \A y \in Peers \ {x} : Stays(y)
<1>0. ChanTypes
  BY DEF TypeInv
<1>1. CASE mail' = mail
  <2>1. Stays(x) /\ \A y \in Peers \ {x} : Stays(y)
    BY <1>1 DEF Stays
  <2>2. DownGets(x, m)
    BY <2>1, StaysMoves DEF DownGets
  <2> QED BY <1>0, <1>1, <2>1, <2>2 DEF ChanTypes
<1>2. CASE mail' = [mail EXCEPT ![x] = Append(@, m)] /\ Len(mail[x]) < Capacity
  <2>1. mail'[x] = Append(mail[x], m) /\ \A y \in Peers \ {x} : mail'[y] = mail[y]
    BY <1>0, <1>2 DEF ChanTypes
  <2>2. mail[x] \in Seq(RoomMessages)
    BY <1>0 DEF ChanTypes
  <2>3. Append(mail[x], m) \in Seq(RoomMessages) /\ Len(Append(mail[x], m)) = Len(mail[x]) + 1
    BY <2>2, QueueAppend
  <2>4. Len(mail'[x]) <= Capacity
    BY <1>2, <2>1, <2>2, <2>3, CapacityAssumption
  <2>5. mail' \in [Peers -> Seq(RoomMessages)]
    BY <1>0, <1>2, <2>3 DEF ChanTypes
  <2>6. ChanTypes'
    BY <1>0, <2>1, <2>4, <2>5 DEF ChanTypes
  <2>7. DownGets(x, m)
    BY <1>0, <2>1, MailGets
  <2>8. \A y \in Peers \ {x} : Stays(y)
    BY <2>1 DEF Stays
  <2> QED BY <2>6, <2>7, <2>8
<1> QED BY <1>1, <1>2 DEF HasSpace, Posted

----------------------------------------------------------------------------
(* What a step does to the channels *)

Neutral(m) == m.type \notin {"Offer", "Answer"}

\* No offer and no answer is written or relayed.
Quiet ==
    \A y \in Peers :
        /\ UpMoves(y) \/ \E m \in ClientRequests : Neutral(m) /\ UpGets(y, m)
        /\ DownMoves(y) \/ \E m \in RoomMessages : Neutral(m) /\ DownGets(y, m)

\* c writes m.
Writes(c, m) ==
    /\ UpGets(c, m)
    /\ \A y \in Peers \ {c} : UNCHANGED up[y]
    /\ \A y \in Peers : Stays(y)

\* The offer or answer that c has written longest ago is relayed.
Relays(c) ==
    \E r \in ClientRequests :
        /\ up[c] # <<>> /\ r = Head(up[c]) /\ r.type \in {"Offer", "Answer"}
        /\ up' = [up EXCEPT ![c] = Tail(@)]
        /\ DownGets(r.target, ServerMsg(r.type, c, r.sid))
        /\ \A y \in Peers \ {r.target} : Stays(y)
        /\ UNCHANGED calls

\* What is written or relayed when a step is not quiet.
Speaks ==
    \/ \E s \in Sessions, c, x \in Peers :
            /\ SendOffer(s) /\ c = offerer[s] /\ x = target[s]
            /\ Writes(c, ClientMsg("Offer", x, s))
    \/ \E s \in Sessions, c, x \in Peers :
            /\ SendAnswer(s) /\ c = target[s] /\ x = offerer[s]
            /\ accepting' = [accepting EXCEPT ![s] = "exchanged"]
            /\ Writes(c, ClientMsg("Answer", x, s))
    \/ \E c \in Peers : Relays(c)

\* Channels that do not change.
LEMMA SilentStep ==
    ASSUME TypeInv, UNCHANGED <<mail, up, recvChan, inHand, appChan>>
    PROVE  ChanTypes' /\ Quiet
<1>1. ChanTypes'
  BY DEF TypeInv, ChanTypes
<1>2. \A y \in Peers : Stays(y) /\ UpMoves(y)
  BY UpStays DEF Stays
<1> QED BY <1>1, <1>2, StaysMoves DEF Quiet, DownMoves

\* The server reads the oldest request of c.
LEMMA RequestRead ==
    ASSUME TypeInv, NEW c \in Peers, up[c] # <<>>, up' = [up EXCEPT ![c] = Tail(@)]
    PROVE  /\ Head(up[c]) \in ClientRequests /\ Head(up[c]) \in In(up[c])
           /\ up' \in [Peers -> Seq(ClientRequests)] /\ \A y \in Peers : UpMoves(y)
           /\ \A y \in Peers \ {c} : UNCHANGED up[y]
           /\ OfferedOnce(up[c]) => OffersOf(Head(up[c])) \cap Offers(up[c])' = {}
<1>0. up \in [Peers -> Seq(ClientRequests)] /\ up[c] \in Seq(ClientRequests)
  BY DEF TypeInv, ChanTypes
<1> DEFINE q == Tail(up[c])
           m == Head(up[c])
<1>1. /\ q \in Seq(ClientRequests) /\ m \in ClientRequests
      /\ In(up[c]) = In(q) \cup {m} /\ Offers(up[c]) = Offers(q) \cup OffersOf(m)
      /\ OfferedOnce(up[c]) => OfferedOnce(q) /\ Offers(q) \cap OffersOf(m) = {}
  BY <1>0, QueueTail
<1>2. up'[c] = q /\ \A y \in Peers \ {c} : up'[y] = up[y]
  BY <1>0
<1>3. up' \in [Peers -> Seq(ClientRequests)]
  BY <1>0, <1>1
<1> HIDE DEF q, m
<1>4. UpMoves(c) /\ (OfferedOnce(up[c]) => OffersOf(m) \cap Offers(up[c])' = {})
  BY <1>1, <1>2 DEF UpMoves
<1>5. \A y \in Peers \ {c} : UpMoves(y)
  BY <1>2, UpStays
<1> QED BY <1>1, <1>2, <1>3, <1>4, <1>5 DEF m

\* The server relays a request, or an Update to everybody.
LEMMA RelayStep ==
    ASSUME TypeInv, NEW c \in Peers, ServerRelay(c), UNCHANGED <<recvChan, inHand, appChan, calls>>
    PROVE  ChanTypes' /\ (Quiet \/ Relays(c))
<1>0. ChanTypes /\ present \subseteq Peers /\ up[c] # <<>> /\ up' = [up EXCEPT ![c] = Tail(@)]
  BY DEF TypeInv, ServerRelay, RoomTypes
<1>r. PICK r : r = Head(up[c])
  OBVIOUS
<1>1. /\ r \in ClientRequests /\ up' \in [Peers -> Seq(ClientRequests)]
      /\ \A y \in Peers : UpMoves(y)
  BY <1>0, <1>r, RequestRead
<1>2. /\ r.type \in {"Offer", "Answer", "Update"} /\ r.target \in Peers
      /\ r.type # "Update" => r.type \in {"Offer", "Answer"} /\ r.sid \in Sessions
  BY <1>1, RequestTypes
<1>3. CASE r.type # "Update" /\ Post(c, r.target, ServerMsg(r.type, c, r.sid))
  <2>1. ServerMsg(r.type, c, r.sid) \in RoomMessages
    BY <1>2, <1>3, MadeTypes
  <2>2. /\ ChanTypes' /\ DownGets(r.target, ServerMsg(r.type, c, r.sid))
        /\ \A y \in Peers \ {r.target} : Stays(y)
    BY <1>1, <1>2, <1>3, <2>1, PostedGets DEF Post
  <2> QED BY <1>0, <1>r, <1>1, <1>2, <1>3, <2>2 DEF Relays
<1>4. CASE UNCHANGED roomVars
  <2>1. ChanTypes'
    BY <1>0, <1>1, <1>4 DEF ChanTypes, roomVars
  <2>2. \A y \in Peers : Stays(y)
    BY <1>4 DEF Stays, roomVars
  <2> QED BY <1>1, <2>1, <2>2, StaysMoves DEF Quiet, DownMoves
<1>5. CASE /\ \A x \in RoomMates(c) : HasSpace(x)
           /\ mail' = [x \in Peers |-> IF x \in RoomMates(c) \ closed
                                       THEN Append(mail[x], ServerMsg("Update", c, None))
                                       ELSE mail[x]]
  <2> DEFINE u == ServerMsg("Update", c, None)
             R == RoomMates(c) \ closed
  <2>1. u \in RoomMessages /\ Neutral(u)
    BY MadeTypes DEF Neutral, ServerMsg
  <2>2. \A x \in R : x \in Peers /\ Len(mail[x]) < Capacity
    BY <1>0, <1>5 DEF HasSpace, RoomMates
  <2>3. mail' = [x \in Peers |-> IF x \in R THEN Append(mail[x], u) ELSE mail[x]]
    BY <1>5
  <2> HIDE DEF u, R
  <2>4. ASSUME NEW x \in Peers
        PROVE  /\ mail'[x] \in Seq(RoomMessages) /\ Len(mail'[x]) <= Capacity
               /\ DownMoves(x) \/ DownGets(x, u)
    <3>1. mail[x] \in Seq(RoomMessages) /\ Len(mail[x]) <= Capacity
      BY <1>0 DEF ChanTypes
    <3>2. CASE x \in R
      <4>1. mail'[x] = Append(mail[x], u)
        BY <2>3, <3>2
      <4>2. Append(mail[x], u) \in Seq(RoomMessages) /\ Len(Append(mail[x], u)) = Len(mail[x]) + 1
        BY <2>1, <3>1, QueueAppend
      <4>3. Len(mail'[x]) <= Capacity
        BY <2>2, <3>1, <3>2, <4>1, <4>2, CapacityAssumption
      <4>4. DownGets(x, u)
        BY <1>0, <2>1, <4>1, MailGets
      <4> QED BY <4>1, <4>2, <4>3, <4>4
    <3>3. CASE x \notin R
      <4>1. mail'[x] = mail[x]
        BY <2>3, <3>3
      <4>2. Stays(x)
        BY <4>1 DEF Stays
      <4> QED BY <3>1, <4>1, <4>2, StaysMoves DEF DownMoves
    <3> QED BY <3>2, <3>3
  <2>5. mail' \in [Peers -> Seq(RoomMessages)]
    BY <2>3, <2>4
  <2>6. ChanTypes'
    BY <1>0, <1>1, <2>4, <2>5 DEF ChanTypes
  <2>7. Quiet
    BY <1>1, <2>1, <2>4 DEF Quiet
  <2> QED BY <2>6, <2>7
<1> QED BY <1>r, <1>3, <1>4, <1>5 DEF ServerRelay

\* The messages a step moves, and those it writes and relays.
LEMMA FlowStep == TypeInv /\ OnceInv /\ [Next]_vars => ChanTypes' /\ (Quiet \/ Speaks)
<1> SUFFICES ASSUME TypeInv, OnceInv, [Next]_vars PROVE ChanTypes' /\ (Quiet \/ Speaks)
  OBVIOUS
<1>1. ASSUME ChanTypes', \A y \in Peers : DownMoves(y), UNCHANGED up PROVE ChanTypes' /\ Quiet
  BY <1>1, UpStays DEF Quiet
<1>2. ASSUME NEW c \in Peers, Tasks(c) PROVE ChanTypes' /\ Quiet
  <2>1. CASE WriteFails(c) \/ ReadHello(c) \/ ConnectReturns(c) \/ ConnectPanics(c)
    BY <2>1, SilentStep DEF WriteFails, ReadHello, ConnectReturns, ConnectPanics, roomVars, channels
  <2>2. CASE ReadMessage(c)
    BY <1>1, <2>2, ReadMoves DEF ReadMessage
  <2>3. CASE ListenerTake(c)
    BY <1>1, <2>3, TakeMoves DEF ListenerTake
  <2>4. CASE ListenerForward(c)
    BY <1>1, <2>4, ForwardMoves DEF ListenerForward
  <2>5. CASE ListenerPanics(c)
    BY <1>1, <2>5, PanicMoves DEF ListenerPanics
  <2>6. CASE FfiMessage(c) \/ DemoMessage(c)
    <3>1. Consumes(c) /\ Consumed(c) /\ UNCHANGED <<up, mail, recvChan, inHand>>
      BY <2>6 DEF FfiMessage, DemoMessage, roomVars
    <3> QED BY <1>1, <3>1, ConsumeMoves
  <2>7. CASE DemoReturns(c)
    BY <1>1, <2>7, ReturnMoves DEF DemoReturns
  <2> QED BY <1>2, <2>1, <2>2, <2>3, <2>4, <2>5, <2>6, <2>7 DEF Tasks
<1>3. ASSUME NEW c \in Peers, Connect(c) PROVE ChanTypes' /\ Quiet
  BY <1>3, SilentStep DEF Connect, roomVars, channels
<1>4. ASSUME NEW c \in Peers, SendUpdate(c) PROVE ChanTypes' /\ Quiet
  <2> DEFINE m == ClientMsg("Update", c, None)
  <2>1. m \in ClientRequests /\ Neutral(m)
    BY MadeTypes DEF Neutral, ClientMsg
  <2>2. Sends(c, m) /\ UNCHANGED <<mail, recvChan, inHand, appChan>>
    BY <1>4 DEF SendUpdate, roomVars
  <2> HIDE DEF m
  <2>3. /\ ChanTypes' /\ UpGets(c, m) /\ \A y \in Peers : Stays(y)
        /\ \A y \in Peers \ {c} : UNCHANGED up[y]
    BY <2>1, <2>2, SendsGets
  <2>4. \A y \in Peers : DownMoves(y)
    BY <2>3, StaysMoves DEF DownMoves
  <2>5. \A y \in Peers \ {c} : UpMoves(y)
    BY <2>3, UpStays
  <2> QED BY <2>1, <2>3, <2>4, <2>5 DEF Quiet
<1>5. ASSUME NEW c \in Peers, SocketLost(c) PROVE ChanTypes' /\ Quiet
  BY <1>5, LostMoves DEF Quiet
<1>6. ASSUME NEW c \in Peers, NEW x \in Peers, NEW s \in Sessions, FfiOffer(c, x, s)
      PROVE  ChanTypes' /\ Quiet
  BY <1>6, SilentStep DEF FfiOffer, roomVars, channels
<1>7. ASSUME NEW s \in Sessions, Exchange(s) PROVE ChanTypes' /\ (Quiet \/ Speaks)
  <2>0. offering[s] # "none" => offerer[s] \in Peers /\ target[s] \in Peers
    BY DEF TypeInv, CallTypes
  <2>1. CASE SendOffer(s)
    <3>1. offerer[s] \in Peers /\ target[s] \in Peers /\ UNCHANGED <<mail, recvChan, inHand, appChan>>
      BY <2>0, <2>1 DEF SendOffer, roomVars
    <3>p. PICK c \in Peers, x \in Peers : c = offerer[s] /\ x = target[s]
      BY <3>1
    <3>2. CASE Sends(c, ClientMsg("Offer", x, s))
      <4>1. ClientMsg("Offer", x, s) \in ClientRequests
        BY MadeTypes
      <4> QED BY <2>1, <3>1, <3>p, <3>2, <4>1, SendsGets DEF Speaks, Writes
    <3>3. CASE SendFails(c)
      BY <3>1, <3>3, SilentStep DEF SendFails
    <3> QED BY <2>1, <3>p, <3>2, <3>3 DEF SendOffer
  <2>2. CASE SendAnswer(s)
    <3>0. offering[s] # "none"
      BY <2>2 DEF SendAnswer, TypeInv, CallTypes
    <3>1. offerer[s] \in Peers /\ target[s] \in Peers /\ UNCHANGED <<mail, recvChan, inHand, appChan>>
      BY <2>0, <2>2, <3>0 DEF SendAnswer, roomVars
    <3>p. PICK c \in Peers, x \in Peers : c = target[s] /\ x = offerer[s]
      BY <3>1
    <3>2. CASE /\ Sends(c, ClientMsg("Answer", x, s))
               /\ accepting' = [accepting EXCEPT ![s] = "exchanged"]
      <4>1. ClientMsg("Answer", x, s) \in ClientRequests
        BY MadeTypes
      <4> QED BY <2>2, <3>1, <3>p, <3>2, <4>1, SendsGets DEF Speaks, Writes
    <3>3. CASE SendFails(c)
      BY <3>1, <3>3, SilentStep DEF SendFails
    <3> QED BY <2>2, <3>p, <3>2, <3>3 DEF SendAnswer
  <2>3. CASE RegisterCallback(s) \/ AnswerImpossible(s)
    BY <2>3, SilentStep DEF RegisterCallback, AnswerImpossible, roomVars, channels
  <2> QED BY <1>7, <2>1, <2>2, <2>3 DEF Exchange
<1>8. CASE Server
  <2>0. UNCHANGED <<recvChan, inHand, appChan, calls>>
    BY <1>8 DEF Server
  <2>1. ASSUME NEW c \in Peers, ServerEnter(c) \/ ServerLeave(c), UNCHANGED up
        PROVE  ChanTypes' /\ Quiet
    BY <2>0, <2>1, SilentStep DEF ServerEnter, ServerLeave, Enter, Leave
  <2>2. CASE ServerPosts /\ UNCHANGED up
    <3>1. PICK o \in owed : PostOwed(o[2], o[3], ServerMsg(o[1], o[2], None))
      BY <2>2 DEF ServerPosts
    <3>2. o[1] \in {"Hello", "Join", "Left"} /\ o[2] \in Peers /\ o[3] \in Peers
      BY <3>1 DEF TypeInv, RoomTypes
    <3> DEFINE m == ServerMsg(o[1], o[2], None)
               x == o[3]
    <3>3. m \in RoomMessages /\ Neutral(m) /\ x \in Peers
      BY <3>2, MadeTypes DEF Neutral, ServerMsg
    <3>4. HasSpace(x) /\ mail' = Posted(x, m) /\ up' \in [Peers -> Seq(ClientRequests)]
      BY <2>2, <3>1 DEF PostOwed, TypeInv, ChanTypes
    <3> HIDE DEF m, x
    <3>5. ChanTypes' /\ DownGets(x, m) /\ \A y \in Peers \ {x} : Stays(y)
      BY <2>0, <3>3, <3>4, PostedGets
    <3>6. \A y \in Peers \ {x} : DownMoves(y)
      BY <3>5, StaysMoves DEF DownMoves
    <3>7. \A y \in Peers : UpMoves(y)
      BY <2>2, UpStays
    <3> QED BY <3>3, <3>5, <3>6, <3>7 DEF Quiet
  <2>3. ASSUME NEW c \in Peers, ServerRelay(c) PROVE ChanTypes' /\ (Quiet \/ Speaks)
    BY <2>0, <2>3, RelayStep DEF Speaks
  <2> QED BY <1>8, <2>1, <2>2, <2>3 DEF Server
<1>9. CASE UNCHANGED vars
  BY <1>9, SilentStep DEF vars, roomVars, channels
<1> QED BY <1>2, <1>3, <1>4, <1>5, <1>6, <1>7, <1>8, <1>9 DEF Next

----------------------------------------------------------------------------
(* What a step does to a session *)

Kept(s) ==
    /\ offering[s] # "none" =>
         offering'[s] # "none" /\ offerer'[s] = offerer[s] /\ target'[s] = target[s]
    /\ offering[s] \notin {"none", "offer"} => offering'[s] \notin {"none", "offer"}
    /\ accepting[s] = "exchanged" => accepting'[s] = "exchanged"

Unaccepted(s) == accepting[s] = "none" => accepting'[s] = "none"

\* The consumer of c takes the offer of s.
TakesOffer(c, s) ==
    /\ Consumes(c) /\ Consumed(c) /\ UNCHANGED <<up, mail, recvChan, inHand>>
    /\ Head(appChan[c]).type = "Offer" /\ Head(appChan[c]).sid = s

\* A step on one session, which leaves the others alone.
LEMMA KeptByCall ==
    ASSUME CallTypes, NEW t \in Sessions, UNCHANGED <<offerer, target>>,
           \/ UNCHANGED accepting /\ offering' = [offering EXCEPT ![t] = offering'[t]]
           \/ UNCHANGED offering /\ accepting' = [accepting EXCEPT ![t] = accepting'[t]],
           offering'[t] # offering[t] => offering'[t] \notin {"none", "offer"},
           accepting'[t] # accepting[t] => accepting[t] = "answer"
    PROVE  \A s \in Sessions : Kept(s) /\ Unaccepted(s)
<1> SUFFICES ASSUME NEW s \in Sessions PROVE Kept(s) /\ Unaccepted(s)
  OBVIOUS
<1>1. CASE s = t
  BY <1>1 DEF Kept, Unaccepted, CallTypes
<1>2. CASE s # t
  <2>1. offering'[s] = offering[s] /\ accepting'[s] = accepting[s]
    BY <1>2 DEF CallTypes
  <2> QED BY <2>1 DEF Kept, Unaccepted
<1> QED BY <1>1, <1>2

\* A new call takes a session that is not used.
LEMMA KeptByOffer ==
    ASSUME CallTypes, NEW c, NEW x, NEW t \in Sessions, NewOffer(c, x, t), UNCHANGED accepting
    PROVE  \A s \in Sessions : Kept(s) /\ Unaccepted(s)
<1> SUFFICES ASSUME NEW s \in Sessions PROVE Kept(s) /\ Unaccepted(s)
  OBVIOUS
<1>1. CASE s = t
  BY <1>1 DEF NewOffer, Kept, Unaccepted
<1>2. CASE s # t
  <2>1. offering'[s] = offering[s] /\ offerer'[s] = offerer[s] /\ target'[s] = target[s]
    BY <1>2 DEF NewOffer, CallTypes
  <2> QED BY <2>1 DEF Kept, Unaccepted
<1> QED BY <1>1, <1>2

\* An offer that is accepted was not accepted before.
LEMMA KeptByAccept ==
    ASSUME TypeInv, MessageInv, NEW c \in Peers, NEW t, TakesOffer(c, t),
           accepting' = [accepting EXCEPT ![t] = "answer"], UNCHANGED <<offering, offerer, target>>
    PROVE  \A s \in Sessions : Kept(s) /\ (Unaccepted(s) \/ TakesOffer(c, s))
<1>1. t \in Sessions /\ accepting[t] = "none" /\ CallTypes
  <2>1. DownOk(c, Head(appChan[c])) /\ t \in Sessions
    BY OfferTaken DEF TakesOffer
  <2> QED BY <2>1 DEF DownOk, TakesOffer, TypeInv
<1> SUFFICES ASSUME NEW s \in Sessions PROVE Kept(s) /\ (Unaccepted(s) \/ TakesOffer(c, s))
  OBVIOUS
<1>2. CASE s = t
  BY <1>1, <1>2 DEF Kept
<1>3. CASE s # t
  <2>1. accepting'[s] = accepting[s]
    BY <1>1, <1>3 DEF CallTypes
  <2> QED BY <2>1 DEF Kept, Unaccepted
<1> QED BY <1>2, <1>3

\* No step takes back an offer, moves it to other peers or takes back an answer.
LEMMA KeptStep ==
    TypeInv /\ MessageInv /\ AnswerMatchesOffer /\ [Next]_vars =>
        \A s \in Sessions : Kept(s) /\ (Unaccepted(s) \/ \E c \in Peers : TakesOffer(c, s))
<1> DEFINE Goal == \A s \in Sessions : Kept(s) /\ (Unaccepted(s) \/ \E c \in Peers : TakesOffer(c, s))
<1> SUFFICES ASSUME TypeInv, MessageInv, AnswerMatchesOffer, [Next]_vars PROVE Goal
  OBVIOUS
<1>0. CallTypes
  BY DEF TypeInv
<1>1. CASE UNCHANGED calls
  BY <1>1 DEF calls, Kept, Unaccepted
<1>2. ASSUME NEW c \in Peers, ListenerTake(c) PROVE Goal
  <2> DEFINE X == Called(c, Head(recvChan[c]))
  <2>1. /\ offering' = [s \in Sessions |-> IF s \in X THEN "exchanged" ELSE offering[s]]
        /\ UNCHANGED <<accepting, offerer, target>>
    BY <1>2 DEF ListenerTake
  <2> HIDE DEF X
  <2> QED BY <2>1 DEF Kept, Unaccepted
<1>3. ASSUME NEW c \in Peers, FfiMessage(c) PROVE Goal
  <2> DEFINE m == Head(appChan[c])
  <2>1. /\ UNCHANGED <<offering, offerer, target>>
        /\ \/ UNCHANGED accepting
           \/ TakesOffer(c, m.sid) /\ accepting' = [accepting EXCEPT ![m.sid] = "answer"]
    BY <1>3 DEF FfiMessage, AcceptOffer, TakesOffer, roomVars
  <2> HIDE DEF m
  <2> QED BY <1>1, <2>1, KeptByAccept DEF calls
<1>4. ASSUME NEW c \in Peers, DemoMessage(c) PROVE Goal
  <2> DEFINE m == Head(appChan[c])
  <2>1. \/ UNCHANGED calls
        \/ \E s \in Sessions : NewOffer(c, m.peer, s) /\ UNCHANGED accepting
        \/ /\ TakesOffer(c, m.sid) /\ accepting' = [accepting EXCEPT ![m.sid] = "answer"]
           /\ UNCHANGED <<offering, offerer, target>>
    BY <1>4 DEF DemoMessage, TakesOffer, roomVars
  <2> HIDE DEF m
  <2> QED BY <1>0, <1>1, <2>1, KeptByAccept, KeptByOffer
<1>5. ASSUME NEW c \in Peers, NEW x \in Peers, NEW s \in Sessions, FfiOffer(c, x, s) PROVE Goal
  BY <1>0, <1>5, KeptByOffer DEF FfiOffer
<1>6. ASSUME NEW s \in Sessions, Exchange(s) PROVE Goal
  <2>1. CASE SendOffer(s) \/ RegisterCallback(s)
    <3>1. /\ UNCHANGED <<accepting, offerer, target>>
          /\ offering' = [offering EXCEPT ![s] = offering'[s]]
          /\ offering'[s] \in {"register", "wait", "failed"}
      BY <1>0, <2>1 DEF SendOffer, RegisterCallback, CallTypes
    <3> QED BY <1>0, <3>1, KeptByCall
  <2>2. CASE SendAnswer(s) \/ AnswerImpossible(s)
    <3>1. /\ UNCHANGED <<offering, offerer, target>>
          /\ accepting' = [accepting EXCEPT ![s] = accepting'[s]]
          /\ accepting[s] = "answer"
      BY <1>0, <2>2 DEF SendAnswer, AnswerImpossible, CallTypes
    <3> QED BY <1>0, <3>1, KeptByCall
  <2> QED BY <1>6, <2>1, <2>2 DEF Exchange
<1>7. ASSUME NEW c \in Peers,
             \/ WriteFails(c) \/ ReadHello(c) \/ ReadMessage(c) \/ ConnectReturns(c)
             \/ ConnectPanics(c) \/ ListenerForward(c) \/ ListenerPanics(c) \/ DemoReturns(c)
             \/ Connect(c) \/ SendUpdate(c) \/ SocketLost(c)
      PROVE  Goal
  BY <1>1, <1>7 DEF WriteFails, ReadHello, ReadMessage, ConnectReturns, ConnectPanics,
     ListenerForward, ListenerPanics, DemoReturns, Connect, SendUpdate, SocketLost
<1>8. CASE Server \/ UNCHANGED vars
  BY <1>1, <1>8 DEF Server, vars
<1> QED BY <1>2, <1>3, <1>4, <1>5, <1>6, <1>7, <1>8 DEF Next, Tasks

----------------------------------------------------------------------------
(* Offers and answers belong to their session *)

\* The messages on their way have their types.
LEMMA OnWayTypes ==
    ASSUME ChanTypes, NEW y \in Peers
    PROVE  In(up[y]) \subseteq ClientRequests /\ Down(y) \subseteq RoomMessages
<1>1. /\ up[y] \in Seq(ClientRequests) /\ mail[y] \in Seq(RoomMessages)
      /\ recvChan[y] \in Seq(RoomMessages) /\ appChan[y] \in Seq(RoomMessages)
      /\ inHand[y] \in RoomMessages \cup {None}
  BY DEF ChanTypes
<1>2. ASSUME NEW E, NEW q \in Seq(E) PROVE In(q) \subseteq E
  BY DEF In
<1>3. In(Hand(y)) \subseteq RoomMessages
  BY <1>1, QueueEmpty, QueueOne DEF Hand
<1> QED BY <1>1, <1>2, <1>3 DEF Down

\* The sessions that are offered to y.
LEMMA OnWayOffers ==
    ASSUME NEW y, NEW s
    PROVE  s \in DownOffers(y) <=> \E m \in Down(y) : m.type = "Offer" /\ m.sid = s
  BY OffersAre DEF Down, DownOffers

\* An offer that is still on its way is not accepted.
LEMMA StillUnaccepted ==
    ASSUME TypeInv, MessageInv, OnceInv, AnswerMatchesOffer, [Next]_vars, NEW y \in Peers
    PROVE  /\ \A m \in In(up[y]) : m.type = "Offer" => m.sid \in Sessions /\ Unaccepted(m.sid)
           /\ \A m \in Down(y) \cap Down(y)' :
                 m.type = "Offer" => m.sid \in Sessions /\ Unaccepted(m.sid)
<1>0. ChanTypes
  BY DEF TypeInv
<1>1. ASSUME NEW m \in In(up[y]), m.type = "Offer" PROVE m.sid \in Sessions /\ Unaccepted(m.sid)
  <2>1. m.sid \in Sessions
    BY <1>0, <1>1, OnWayTypes, RequestTypes
  <2>2. m.sid \in Offers(up[y])
    BY <1>1, OffersAre
  <2>3. ASSUME NEW c \in Peers, TakesOffer(c, m.sid) PROVE FALSE
    <3>1. Head(appChan[c]) \in Down(c)
      BY <2>3, OfferTaken DEF TakesOffer
    <3>2. m.sid \in DownOffers(c)
      BY <2>3, <3>1, OnWayOffers DEF TakesOffer
    <3> QED BY <2>2, <3>2 DEF OnceInv
  <2> QED BY <2>1, <2>3, KeptStep
<1>2. ASSUME NEW m \in Down(y), m \in Down(y)', m.type = "Offer"
      PROVE  m.sid \in Sessions /\ Unaccepted(m.sid)
  <2>1. m.sid \in Sessions /\ target[m.sid] = y
    BY <1>0, <1>2, OnWayTypes, MessageTypes DEF MessageInv, DownOk
  <2>2. m.sid \in DownOffers(y)'
    BY <1>2, OffersAre DEF Down, DownOffers
  <2>3. ASSUME NEW c \in Peers, TakesOffer(c, m.sid) PROVE FALSE
    <3>1. DownOk(c, Head(appChan[c]))
      BY <2>3, OfferTaken DEF TakesOffer
    <3>2. c = y
      BY <2>1, <2>3, <3>1 DEF DownOk, TakesOffer
    <3>3. OffersOf(Head(appChan[c])) \cap DownOffers(c)' = {}
      BY <2>3, ConsumeMoves DEF TakesOffer
    <3>4. m.sid \in OffersOf(Head(appChan[c]))
      BY <2>3 DEF TakesOffer, OffersOf
    <3> QED BY <2>2, <3>2, <3>3, <3>4
  <2> QED BY <2>1, <2>3, KeptStep
<1> QED BY <1>1, <1>2

\* A message that stays on its way stays right.
LEMMA StaysRight ==
    ASSUME TypeInv, MessageInv, OnceInv, AnswerMatchesOffer, [Next]_vars, NEW y \in Peers
    PROVE  /\ \A m \in In(up[y]) : UpOk(y, m)'
           /\ \A m \in Down(y) \cap Down(y)' : DownOk(y, m)'
<1>0. ChanTypes
  BY DEF TypeInv
<1>1. ASSUME NEW m \in In(up[y]) PROVE UpOk(y, m)'
  <2>1. UpOk(y, m) /\ m \in ClientRequests
    BY <1>0, OnWayTypes DEF MessageInv
  <2>2. m.type \in {"Offer", "Answer"} => m.sid \in Sessions /\ Kept(m.sid)
    BY <2>1, RequestTypes, KeptStep
  <2>3. m.type = "Offer" => Unaccepted(m.sid)
    BY StillUnaccepted
  <2> QED BY <2>1, <2>2, <2>3 DEF UpOk, Kept, Unaccepted
<1>2. ASSUME NEW m \in Down(y), m \in Down(y)' PROVE DownOk(y, m)'
  <2>1. DownOk(y, m) /\ m \in RoomMessages
    BY <1>0, <1>2, OnWayTypes DEF MessageInv
  <2>2. m.type \in {"Offer", "Answer"} => m.sid \in Sessions /\ Kept(m.sid)
    BY <2>1, MessageTypes, KeptStep
  <2>3. m.type = "Offer" => Unaccepted(m.sid)
    BY <1>2, StillUnaccepted
  <2> QED BY <2>1, <2>2, <2>3 DEF DownOk, Kept, Unaccepted
<1> QED BY <1>1, <1>2

\* Every step leaves on their way only offers and answers that belong to their session.
LEMMA MessageStep ==
    TypeInv /\ MessageInv /\ OnceInv /\ AnswerMatchesOffer /\ [Next]_vars => MessageInv'
<1> SUFFICES ASSUME TypeInv, MessageInv, OnceInv, AnswerMatchesOffer, [Next]_vars PROVE MessageInv'
  OBVIOUS
<1>0. CallTypes /\ ChanTypes
  BY DEF TypeInv
<1>1. SUFFICES ASSUME NEW y \in Peers
               PROVE  /\ \A m \in In(up[y])' : m \in In(up[y]) \/ UpOk(y, m)'
                      /\ \A m \in Down(y)' : m \in Down(y) \/ DownOk(y, m)'
  BY StaysRight DEF MessageInv
<1>2. CASE Quiet
  <2>1. ASSUME NEW m, Neutral(m) PROVE UpOk(y, m)' /\ DownOk(y, m)'
    BY <2>1 DEF Neutral, UpOk, DownOk
  <2>2. /\ \A m \in In(up[y])' : m \in In(up[y]) \/ Neutral(m)
        /\ \A m \in Down(y)' : m \in Down(y) \/ Neutral(m)
    BY <1>2 DEF Quiet, UpMoves, UpGets, DownMoves, DownGets
  <2> QED BY <2>1, <2>2
<1>3. ASSUME NEW s \in Sessions, NEW c \in Peers, NEW x \in Peers,
             SendOffer(s), c = offerer[s], x = target[s], Writes(c, ClientMsg("Offer", x, s))
      PROVE  /\ \A m \in In(up[y])' : m \in In(up[y]) \/ UpOk(y, m)'
             /\ \A m \in Down(y)' : m \in Down(y) \/ DownOk(y, m)'
  <2> DEFINE m == ClientMsg("Offer", x, s)
  <2>1. /\ offering'[s] \in {"register", "failed"} /\ accepting'[s] = "none"
        /\ UNCHANGED <<offerer, target>>
    BY <1>0, <1>3 DEF SendOffer, CallTypes
  <2>2. m.type = "Offer" /\ m.sid = s /\ m.target = x
    BY DEF ClientMsg
  <2>4. In(up[y])' \subseteq In(up[y]) \/ (y = c /\ In(up[y])' \subseteq In(up[y]) \cup {m})
    BY <1>3 DEF Writes, UpGets
  <2> HIDE DEF m
  <2>3. y = c => UpOk(y, m)'
    BY <1>3, <2>1, <2>2 DEF UpOk
  <2>5. Down(y)' = Down(y)
    BY <1>3, StaysMoves DEF Writes
  <2> QED BY <2>3, <2>4, <2>5
<1>4. ASSUME NEW s \in Sessions, NEW c \in Peers, NEW x \in Peers,
             SendAnswer(s), c = target[s], x = offerer[s],
             accepting' = [accepting EXCEPT ![s] = "exchanged"], Writes(c, ClientMsg("Answer", x, s))
      PROVE  /\ \A m \in In(up[y])' : m \in In(up[y]) \/ UpOk(y, m)'
             /\ \A m \in Down(y)' : m \in Down(y) \/ DownOk(y, m)'
  <2> DEFINE m == ClientMsg("Answer", x, s)
  <2>1. /\ offering'[s] # "none" /\ accepting'[s] = "exchanged" /\ UNCHANGED <<offerer, target>>
    BY <1>0, <1>4 DEF SendAnswer, CallTypes
  <2>2. m.type = "Answer" /\ m.sid = s /\ m.target = x
    BY DEF ClientMsg
  <2>4. In(up[y])' \subseteq In(up[y]) \/ (y = c /\ In(up[y])' \subseteq In(up[y]) \cup {m})
    BY <1>4 DEF Writes, UpGets
  <2> HIDE DEF m
  <2>3. y = c => UpOk(y, m)'
    BY <1>4, <2>1, <2>2 DEF UpOk
  <2>5. Down(y)' = Down(y)
    BY <1>4, StaysMoves DEF Writes
  <2> QED BY <2>3, <2>4, <2>5
<1>5. ASSUME NEW c \in Peers, Relays(c)
      PROVE  /\ \A m \in In(up[y])' : m \in In(up[y]) \/ UpOk(y, m)'
             /\ \A m \in Down(y)' : m \in Down(y) \/ DownOk(y, m)'
  <2>0. PICK r \in ClientRequests :
            /\ up[c] # <<>> /\ r = Head(up[c]) /\ r.type \in {"Offer", "Answer"}
            /\ up' = [up EXCEPT ![c] = Tail(@)]
            /\ DownGets(r.target, ServerMsg(r.type, c, r.sid))
            /\ \A z \in Peers \ {r.target} : Stays(z)
            /\ UNCHANGED calls
    BY <1>5 DEF Relays
  <2> DEFINE m == ServerMsg(r.type, c, r.sid)
  <2>1. r \in In(up[c]) /\ In(up[y])' \subseteq In(up[y])
    BY <2>0, RequestRead DEF UpMoves
  <2>2. /\ UpOk(c, r) /\ r.type \in {"Offer", "Answer"}
        /\ UNCHANGED <<offering, accepting, offerer, target>>
    BY <2>0, <2>1 DEF MessageInv, calls
  <2>3. m.type = r.type /\ m.peer = c /\ m.sid = r.sid
    BY DEF ServerMsg
  <2>4. (y # r.target /\ Stays(y)) \/ (y = r.target /\ DownGets(y, m))
    BY <2>0
  <2> HIDE DEF m
  <2>5. y = r.target => DownOk(y, m)'
    BY <2>2, <2>3 DEF UpOk, DownOk
  <2> QED BY <2>1, <2>4, <2>5, StaysMoves DEF DownGets
<1> QED BY <1>2, <1>3, <1>4, <1>5, FlowStep DEF Speaks

----------------------------------------------------------------------------
(* An offer is on its way once *)

\* Nothing is offered in addition.
LEMMA OnceKept ==
    ASSUME OnceInv,
           \A y \in Peers : /\ OfferedOnce(up[y])' /\ DownOnce(y)'
                            /\ Offers(up[y])' \subseteq Offers(up[y])
                            /\ DownOffers(y)' \subseteq DownOffers(y)
    PROVE  OnceInv'
<1> SUFFICES ASSUME NEW c \in Peers, NEW x \in Peers PROVE Offers(up[c])' \cap DownOffers(x)' = {}
  BY DEF OnceInv
<1>1. Offers(up[c]) \cap DownOffers(x) = {}
  BY DEF OnceInv
<1> QED BY <1>1

\* The sessions of the offers on their way.
LEMMA OfferSessions ==
    ASSUME TypeInv, MessageInv, NEW y \in Peers
    PROVE  /\ \A s \in Offers(up[y]) : offering[s] # "offer" /\ offerer[s] = y
           /\ \A s \in DownOffers(y) : offering[s] # "offer"
<1>1. ASSUME NEW s \in Offers(up[y]) PROVE offering[s] # "offer" /\ offerer[s] = y
  <2>1. PICK m \in In(up[y]) : m.type = "Offer" /\ m.sid = s
    BY OffersAre
  <2> QED BY <2>1 DEF MessageInv, UpOk
<1>2. ASSUME NEW s \in DownOffers(y) PROVE offering[s] # "offer"
  <2>1. PICK m \in Down(y) : m.type = "Offer" /\ m.sid = s
    BY OnWayOffers
  <2> QED BY <2>1 DEF MessageInv, DownOk
<1> QED BY <1>1, <1>2

\* Every step keeps it so: an offer is written once, and relayed by leaving the queue.
LEMMA OnceStep == TypeInv /\ MessageInv /\ OnceInv /\ [Next]_vars => OnceInv'
<1> SUFFICES ASSUME TypeInv, MessageInv, OnceInv, [Next]_vars PROVE OnceInv'
  OBVIOUS
<1>0. \A y \in Peers : OfferedOnce(up[y]) /\ DownOnce(y)
  BY DEF OnceInv
<1>1. CASE Quiet
  <2>1. \A m : Neutral(m) => OffersOf(m) = {}
    BY DEF Neutral, OffersOf
  <2>2. ASSUME NEW y \in Peers
        PROVE  /\ OfferedOnce(up[y])' /\ DownOnce(y)'
               /\ Offers(up[y])' \subseteq Offers(up[y]) /\ DownOffers(y)' \subseteq DownOffers(y)
    <3>1. OfferedOnce(up[y])' /\ Offers(up[y])' \subseteq Offers(up[y])
      BY <1>0, <1>1, <2>1 DEF Quiet, UpMoves, UpGets
    <3>2. DownOnce(y)' /\ DownOffers(y)' \subseteq DownOffers(y)
      BY <1>0, <1>1, <2>1 DEF Quiet, DownMoves, DownGets
    <3> QED BY <3>1, <3>2
  <2> QED BY <2>2, OnceKept
<1>2. ASSUME NEW c \in Peers, NEW m, Writes(c, m),
             \A y \in Peers : OffersOf(m) \cap Offers(up[y]) = {} /\ OffersOf(m) \cap DownOffers(y) = {}
      PROVE  OnceInv'
  <2>1. \A y \in Peers : DownOnce(y)' /\ DownOffers(y)' = DownOffers(y)
    BY <1>0, <1>2, StaysMoves DEF Writes
  <2>2. /\ OfferedOnce(up[c])' /\ Offers(up[c])' \subseteq Offers(up[c]) \cup OffersOf(m)
    BY <1>0, <1>2 DEF Writes, UpGets
  <2>3. \A y \in Peers \ {c} : OfferedOnce(up[y])' /\ Offers(up[y])' = Offers(up[y])
    BY <1>0, <1>2 DEF Writes
  <2>4. \A y, x \in Peers : Offers(up[y]) \cap DownOffers(x) = {}
    BY DEF OnceInv
  <2>5. \A y, x \in Peers : Offers(up[y])' \cap DownOffers(x)' = {}
    BY <1>2, <2>1, <2>2, <2>3, <2>4
  <2> QED BY <2>1, <2>2, <2>3, <2>5 DEF OnceInv
<1>3. ASSUME NEW s \in Sessions, NEW c \in Peers, NEW x \in Peers, SendOffer(s),
             Writes(c, ClientMsg("Offer", x, s))
      PROVE  OnceInv'
  <2>1. OffersOf(ClientMsg("Offer", x, s)) = {s} /\ offering[s] = "offer"
    BY <1>3 DEF OffersOf, ClientMsg, SendOffer
  <2>2. \A y \in Peers : s \notin Offers(up[y]) /\ s \notin DownOffers(y)
    BY <2>1, OfferSessions
  <2> QED BY <1>2, <1>3, <2>1, <2>2
<1>4. ASSUME NEW s \in Sessions, NEW c \in Peers, NEW x \in Peers,
             Writes(c, ClientMsg("Answer", x, s))
      PROVE  OnceInv'
  <2>1. OffersOf(ClientMsg("Answer", x, s)) = {}
    BY DEF OffersOf, ClientMsg
  <2> QED BY <1>2, <1>4, <2>1
<1>5. ASSUME NEW c \in Peers, Relays(c) PROVE OnceInv'
  <2>0. PICK r \in ClientRequests :
            /\ up[c] # <<>> /\ r = Head(up[c])
            /\ up' = [up EXCEPT ![c] = Tail(@)]
            /\ DownGets(r.target, ServerMsg(r.type, c, r.sid))
            /\ \A z \in Peers \ {r.target} : Stays(z)
    BY <1>5 DEF Relays
  <2> DEFINE x == r.target
             m == ServerMsg(r.type, c, r.sid)
  <2>1. x \in Peers /\ OffersOf(m) = OffersOf(r)
    BY RequestTypes DEF OffersOf, ServerMsg
  <2>2. /\ r \in In(up[c]) /\ OffersOf(r) \cap Offers(up[c])' = {}
        /\ \A y \in Peers : OfferedOnce(up[y])' /\ Offers(up[y])' \subseteq Offers(up[y])
    BY <1>0, <2>0, RequestRead DEF UpMoves
  <2>3. OffersOf(r) \subseteq Offers(up[c])
    BY <2>2 DEF Offers
  <2>4. DownGets(x, m) /\ \A z \in Peers \ {x} : Stays(z)
    BY <2>0
  <2> HIDE DEF x, m
  <2>5. \A y, z \in Peers : Offers(up[y]) \cap DownOffers(z) = {}
    BY DEF OnceInv
  <2>6. DownOnce(x)' /\ DownOffers(x)' \subseteq DownOffers(x) \cup OffersOf(r)
    BY <1>0, <2>1, <2>3, <2>4, <2>5 DEF DownGets
  <2>7. \A z \in Peers \ {x} : DownOnce(z)' /\ DownOffers(z)' = DownOffers(z)
    BY <1>0, <2>4, StaysMoves
  <2>8. \A y \in Peers : OffersOf(r) \cap Offers(up[y])' = {}
    <3>1. \A y \in Peers \ {c} : Offers(up[y]) \cap Offers(up[c]) = {}
      BY OfferSessions
    <3> QED BY <2>2, <2>3, <3>1
  <2>9. \A y, z \in Peers : Offers(up[y])' \cap DownOffers(z)' = {}
    BY <2>2, <2>5, <2>6, <2>7, <2>8
  <2> QED BY <2>1, <2>2, <2>6, <2>7, <2>9 DEF OnceInv
<1> QED BY <1>1, <1>3, <1>4, <1>5, FlowStep DEF Speaks

----------------------------------------------------------------------------
(* The answer of a call *)

\* The call of s neither stops waiting nor gets its answer.
Unanswered(s) == offering'[s] = offering[s] \/ (offering[s] # "wait" /\ offering'[s] # "exchanged")

\* A step that gives no answer and changes no callback.
LEMMA AnswerKept ==
    ASSUME AnswerMatchesOffer, \A s \in Sessions : Kept(s), UNCHANGED <<callbacks, remoteDesc>>,
           CallTypes, \A s \in Sessions : Unanswered(s)
    PROVE  AnswerMatchesOffer'
<1>1. ASSUME NEW s \in Sessions, offering'[s] = "exchanged"
      PROVE  remoteDesc'[s] = <<s, target'[s]>> /\ accepting'[s] = "exchanged"
  BY <1>1 DEF AnswerMatchesOffer, Kept, Unanswered
<1>2. ASSUME NEW c \in Peers, NEW s \in callbacks'[c]
      PROVE  offerer'[s] = c /\ offering'[s] = "wait"
  <2>1. s \in Sessions /\ s \in callbacks[c]
    BY <1>2 DEF CallTypes
  <2> QED BY <2>1 DEF AnswerMatchesOffer, Kept, Unanswered
<1> QED BY <1>1, <1>2 DEF AnswerMatchesOffer

\* Every step: the listener gives the answer of s to the call of s.
LEMMA AnswerStep ==
    TypeInv /\ MessageInv /\ AnswerMatchesOffer /\ [Next]_vars => AnswerMatchesOffer'
<1> SUFFICES ASSUME TypeInv, MessageInv, AnswerMatchesOffer, [Next]_vars PROVE AnswerMatchesOffer'
  OBVIOUS
<1>0. CallTypes /\ ChanTypes /\ \A s \in Sessions : Kept(s)
  BY KeptStep DEF TypeInv
<1>1. CASE UNCHANGED <<callbacks, remoteDesc, offering>>
  BY <1>0, <1>1, AnswerKept DEF Unanswered
<1>2. ASSUME NEW c \in Peers, ListenerTake(c) PROVE AnswerMatchesOffer'
  <2>0. PICK m : m = Head(recvChan[c])
    OBVIOUS
  <2>1. /\ callbacks' = [callbacks EXCEPT ![c] = @ \ Called(c, m)]
        /\ offering' = [s \in Sessions |-> IF s \in Called(c, m) THEN "exchanged" ELSE offering[s]]
        /\ remoteDesc' = [s \in Sessions |->
                            IF s \in Called(c, m) THEN <<m.sid, m.peer>> ELSE remoteDesc[s]]
        /\ UNCHANGED <<accepting, offerer, target>>
        /\ recvChan[c] # <<>>
    BY <1>2, <2>0 DEF ListenerTake
  <2>2. m \in In(recvChan[c])
    BY <1>0, <2>0, <2>1, QueueTail DEF ChanTypes
  <2>3. DownOk(c, m)
    BY <2>2 DEF Down, MessageInv
  <2>4. PICK X : X = Called(c, m)
    OBVIOUS
  <2>5. \A s \in X : /\ s \in callbacks[c] /\ s = m.sid
                     /\ accepting[s] = "exchanged" /\ target[s] = m.peer
    BY <2>3, <2>4 DEF Called, DownOk
  <2>6. ASSUME NEW s \in Sessions, offering'[s] = "exchanged"
        PROVE  remoteDesc'[s] = <<s, target'[s]>> /\ accepting'[s] = "exchanged"
    <3>1. CASE s \in X
      BY <2>1, <2>4, <2>5, <3>1
    <3>2. CASE s \notin X
      BY <2>1, <2>4, <2>6, <3>2 DEF AnswerMatchesOffer
    <3> QED BY <3>1, <3>2
  <2>7. ASSUME NEW x \in Peers, NEW s \in callbacks'[x]
        PROVE  offerer'[s] = x /\ offering'[s] = "wait"
    <3>1. s \in callbacks[x] /\ s \in Sessions /\ (x = c => s \notin X)
      BY <1>0, <2>1, <2>4, <2>7 DEF CallTypes
    <3>2. offerer[s] = x /\ offering[s] = "wait"
      BY <3>1 DEF AnswerMatchesOffer
    <3>3. s \notin X
      BY <2>5, <3>1, <3>2 DEF AnswerMatchesOffer
    <3> QED BY <2>1, <2>4, <3>1, <3>2, <3>3
  <2> QED BY <2>6, <2>7 DEF AnswerMatchesOffer
<1>3. ASSUME NEW c, NEW x, NEW s \in Sessions, NewOffer(c, x, s), UNCHANGED <<callbacks, remoteDesc>>
      PROVE  AnswerMatchesOffer'
  <2>1. \A u \in Sessions : Unanswered(u)
    BY <1>0, <1>3 DEF NewOffer, CallTypes, Unanswered
  <2> QED BY <1>0, <1>3, <2>1, AnswerKept
<1>4. ASSUME NEW c \in Peers, FfiMessage(c) \/ DemoMessage(c) PROVE AnswerMatchesOffer'
  BY <1>1, <1>3, <1>4 DEF FfiMessage, DemoMessage, calls
<1>5. ASSUME NEW c \in Peers, NEW x \in Peers, NEW s \in Sessions, FfiOffer(c, x, s)
      PROVE  AnswerMatchesOffer'
  BY <1>3, <1>5 DEF FfiOffer
<1>6. ASSUME NEW s \in Sessions, SendOffer(s) PROVE AnswerMatchesOffer'
  <2>1. UNCHANGED <<callbacks, remoteDesc>>
    BY <1>6 DEF SendOffer
  <2>2. \A u \in Sessions : Unanswered(u)
    BY <1>0, <1>6 DEF SendOffer, CallTypes, Unanswered
  <2> QED BY <1>0, <2>1, <2>2, AnswerKept
<1>7. ASSUME NEW s \in Sessions, RegisterCallback(s) PROVE AnswerMatchesOffer'
  <2>1. /\ offering[s] = "register"
        /\ callbacks' = [callbacks EXCEPT ![offerer[s]] = callbacks[offerer[s]] \cup {s}]
        /\ offering' = [offering EXCEPT ![s] = "wait"]
        /\ UNCHANGED <<offerer, target, accepting, remoteDesc>>
    BY <1>7 DEF RegisterCallback, Registered
  <2>2. ASSUME NEW u \in Sessions, offering'[u] = "exchanged"
        PROVE  remoteDesc'[u] = <<u, target'[u]>> /\ accepting'[u] = "exchanged"
    BY <1>0, <2>1, <2>2 DEF AnswerMatchesOffer, CallTypes
  <2>3. ASSUME NEW x \in Peers, NEW u \in callbacks'[x]
        PROVE  offerer'[u] = x /\ offering'[u] = "wait"
    <3>1. u \in callbacks[x] \/ (x = offerer[s] /\ u = s)
      BY <1>0, <2>1, <2>3 DEF CallTypes
    <3>2. offerer[u] = x /\ (u = s \/ offering[u] = "wait")
      BY <3>1 DEF AnswerMatchesOffer
    <3>3. u \in Sessions
      BY <1>0, <3>1 DEF CallTypes
    <3> QED BY <1>0, <2>1, <3>2, <3>3 DEF CallTypes
  <2> QED BY <2>2, <2>3 DEF AnswerMatchesOffer
<1>8. ASSUME NEW s \in Sessions, SendAnswer(s) \/ AnswerImpossible(s) PROVE AnswerMatchesOffer'
  BY <1>1, <1>8 DEF SendAnswer, AnswerImpossible
<1>9. ASSUME NEW c \in Peers,
             \/ WriteFails(c) \/ ReadHello(c) \/ ReadMessage(c) \/ ConnectReturns(c)
             \/ ConnectPanics(c) \/ ListenerForward(c) \/ ListenerPanics(c) \/ DemoReturns(c)
             \/ Connect(c) \/ SendUpdate(c) \/ SocketLost(c)
      PROVE  AnswerMatchesOffer'
  BY <1>1, <1>9 DEF WriteFails, ReadHello, ReadMessage, ConnectReturns, ConnectPanics,
     ListenerForward, ListenerPanics, DemoReturns, Connect, SendUpdate, SocketLost, calls
<1>10. CASE Server \/ UNCHANGED vars
  BY <1>1, <1>10 DEF Server, vars, calls
<1> QED BY <1>2, <1>4, <1>5, <1>6, <1>7, <1>8, <1>9, <1>10 DEF Next, Tasks, Exchange

----------------------------------------------------------------------------
(* Results *)

AllInv == TypeInv /\ MessageInv /\ OnceInv /\ AnswerMatchesOffer

\* Before anybody connects, nothing is on its way and nothing is offered.
LEMMA InitInv == Init => AllInv
<1> SUFFICES ASSUME Init PROVE AllInv
  OBVIOUS
<1>1. ConnTypes /\ CallTypes
  BY DEF Init, ConnTypes, CallTypes
<1>2. RoomTypes
  BY DEF Init, RoomInit, RoomTypes
<1>3. ChanTypes
  BY CapacityAssumption DEF Init, RoomInit, ChanTypes
<1>4. ASSUME NEW y \in Peers
      PROVE up[y] = <<>> /\ mail[y] = <<>> /\ recvChan[y] = <<>> /\ Hand(y) = <<>> /\ appChan[y] = <<>>
  BY DEF Init, RoomInit, Hand
<1>5. MessageInv
  BY <1>4, QueueEmpty DEF MessageInv, Down
<1>6. OnceInv
  BY <1>4, QueueEmpty DEF OnceInv, DownOnce, DownOffers
<1>7. AnswerMatchesOffer
  BY DEF Init, AnswerMatchesOffer
<1> QED BY <1>1, <1>2, <1>3, <1>5, <1>6, <1>7 DEF AllInv, TypeInv

\* Every step keeps the invariant.
LEMMA StepInv == AllInv /\ [Next]_vars => AllInv'
<1> SUFFICES ASSUME AllInv, [Next]_vars PROVE AllInv'
  OBVIOUS
<1>1. TypeInv /\ MessageInv /\ OnceInv /\ AnswerMatchesOffer
  BY DEF AllInv
<1>2. TypeInv'
  BY <1>1, ConnStep, CallStep, RoomStep, FlowStep DEF TypeInv
<1> QED BY <1>1, <1>2, MessageStep, OnceStep, AnswerStep DEF AllInv

\* The invariant holds always.
LEMMA Invariance == Spec => []AllInv
<1>1. Init => AllInv
  BY InitInv
<1>2. AllInv /\ [Next]_vars => AllInv'
  BY StepInv
<1> QED BY <1>1, <1>2, PTL DEF Spec

\* The channels of the client library never hold more than their capacity, and
\* what the server has posted is a message of the protocol.
THEOREM TypeCorrect == Spec => []TypeOK
<1>1. AllInv => TypeOK
  BY DEF AllInv, TypeInv, ConnTypes, CallTypes, ChanTypes, TypeOK
<1> QED BY <1>1, Invariance, PTL

\* A call of send_offer goes on with the answer to its own offer, made by the
\* peer it was for, for any number of overlapping offers, lost sockets,
\* listeners that wait or have panicked, and consumers that return.
THEOREM AnswerCorrect == Spec => []AnswerMatchesOffer
<1>1. AllInv => AnswerMatchesOffer
  BY DEF AllInv
<1> QED BY <1>1, Invariance, PTL
=============================================================================
