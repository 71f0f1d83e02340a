---------------------------- MODULE RtcSignaling ----------------------------
(***************************************************************************)
(* The client library of the signaling server and the exchange of session  *)
(* descriptions over it: core/src/webrtc/signaling.rs, the parts of        *)
(* send_offer and accept_offer in core/src/webrtc/webrtc.rs that precede   *)
(* the data channel, and the two programs that drive them: the FFI layer   *)
(* (app/rust/src/api/webrtc.rs, with the message loop of the app in        *)
(* signaling_provider.dart) and the demo of core/src/main.rs.              *)
(*                                                                         *)
(* A client has a task that writes to the socket, a task that reads from   *)
(* it, the listener that calls the callbacks of answers, and the loop that *)
(* consumes what the listener passes on.  They are connected by channels   *)
(* of capacity 1, 1 and 16.  The server is a SignalingRoom: what it has    *)
(* posted for a client and the client has not read is in its mailbox.      *)
(***************************************************************************)
EXTENDS SignalingRoom, FiniteSets

CONSTANTS
    Sessions,       \* session ids: a fresh Uuid per call of send_offer
    Demo,           \* peers that run the demo; the others use the FFI
    Offerers,       \* FFI peers whose app calls send_offer
    BadKeys,        \* FFI peers whose key may be refused by parse_private_key
    Lossy,          \* peers whose socket may be lost
    ListenerCap,    \* capacity of the listener's channel (16 in the code)
    MaxCalls,       \* bound on the calls of send_offer and update_info
    MaxLossyCalls,  \* the same where a socket is lost
    None

ASSUME CapacityAssumption == Capacity \in Nat \ {0} /\ ListenerCap \in Nat \ {0}
ASSUME DriversAssumption ==
    /\ Demo \subseteq Peers /\ Lossy \subseteq Peers
    /\ Offerers \cup BadKeys \subseteq Peers \ Demo
ASSUME MaxCallsAssumption == MaxCalls \in Nat /\ MaxLossyCalls \in 0..MaxCalls

VARIABLES
    sock,       \* "none", "open" or "gone"
    conn,       \* control of connect: "idle", "hello", "open", "panicked"
    client,     \* client[c]: the own ClientInfo has arrived (client_rx)
    sendTask,   \* "none", "running" or "over"
    up,         \* up[c]: written by c, not yet read by the server
    recvChan,   \* mpsc channel from the reading task
    inHand,     \* message the listener is passing on, or None
    appChan,    \* mpsc channel from the listener
    callbacks,  \* on_answer: sessions with a callback
    loop,       \* the consumer: "running", "over", or the session the demo waits for
    updates,    \* calls of update_info so far
    offerer, target,    \* of every session
    offering,   \* send_offer: "none", "offer", "register", "wait", "exchanged", "failed"
    accepting,  \* accept_offer: "none", "answer", "exchanged", "failed"
    remoteDesc  \* the session and the peer of the answer send_offer received

conns == <<sock, conn, client, sendTask, updates>>
channels == <<up, recvChan, inHand, appChan>>
calls == <<offerer, target, offering, accepting>>
vars == <<roomVars, conns, channels, callbacks, loop, calls, remoteDesc>>

----------------------------------------------------------------------------
(* Messages *)

\* A message of the server and one of a client; sid is None except for SDPs.
ServerMsg(type, p, sid) == [type |-> type, peer |-> p, sid |-> sid]
ClientMsg(type, x, sid) == [type |-> type, target |-> x, sid |-> sid]
SdpMessages == [type : {"Offer", "Answer"}, peer : Peers, sid : Sessions]
RoomMessages ==
    [type : {"Hello", "Join", "Left", "Update"}, peer : Peers, sid : {None}]
        \cup SdpMessages

ASSUME NoneAssumption == None \notin RoomMessages

----------------------------------------------------------------------------
(* SignalingConnection::connect *)

\* connect_async succeeded: both tasks are spawned, Hello is waited for.
Connect(c) ==
    /\ conn[c] = "idle"
    /\ conn' = [conn EXCEPT ![c] = "hello"]
    /\ sock' = [sock EXCEPT ![c] = "open"]
    /\ sendTask' = [sendTask EXCEPT ![c] = "running"]
    /\ UNCHANGED <<roomVars, client, updates, channels, callbacks, loop, calls, remoteDesc>>

\* 120 seconds without a message, or one that cannot be written: the writing
\* task ends, which drops its receiver.
WriteFails(c) ==
    /\ sendTask[c] = "running"
    /\ sock[c] = "gone"
    /\ sendTask' = [sendTask EXCEPT ![c] = "over"]
    /\ UNCHANGED <<roomVars, sock, conn, client, updates, channels, callbacks, loop, calls,
                   remoteDesc>>

Reading(c) == sock[c] = "open" /\ mail[c] # <<>>

\* The reading task meets Hello: the own ClientInfo goes to connect first.
ReadHello(c) ==
    /\ Reading(c)
    /\ Head(mail[c]).type = "Hello" /\ ~client[c]
    /\ client' = [client EXCEPT ![c] = TRUE]
    /\ UNCHANGED <<roomVars, sock, conn, sendTask, updates, channels, callbacks, loop, calls,
                   remoteDesc>>

\* Every message goes to receive_tx, which has room for one.
ReadMessage(c) ==
    /\ Reading(c)
    /\ Head(mail[c]).type = "Hello" => client[c]
    /\ recvChan[c] = <<>>
    /\ recvChan' = [recvChan EXCEPT ![c] = <<Head(mail[c])>>]
    /\ Take(c)
    /\ UNCHANGED <<conns, up, inHand, appChan, callbacks, loop, calls, remoteDesc>>

\* client_rx.recv() has its ClientInfo: start_listener, and the loop that
\* consumes its messages (in the FFI after on_connection).
ConnectReturns(c) ==
    /\ conn[c] = "hello"
    /\ client[c]
    /\ conn' = [conn EXCEPT ![c] = "open"]
    /\ UNCHANGED <<roomVars, sock, client, sendTask, updates, channels, callbacks, loop, calls,
                   remoteDesc>>

\* The socket was closed before Hello: unwrap of None.  (When the reading task
\* hangs in receive_tx.send it does not notice, and connect waits on instead.)
ConnectPanics(c) ==
    /\ conn[c] = "hello"
    /\ ~client[c] /\ sock[c] = "gone"
    /\ conn' = [conn EXCEPT ![c] = "panicked"]
    /\ UNCHANGED <<roomVars, sock, client, sendTask, updates, channels, callbacks, loop, calls,
                   remoteDesc>>

----------------------------------------------------------------------------
(* start_listener *)

\* Mutant: the answer goes to whichever callback there is.
CalledByAny(c, m) == IF m.type = "Answer" THEN callbacks[c] ELSE {}

\* The callbacks that m is passed to.
Called(c, m) == IF m.type = "Answer" THEN callbacks[c] \cap {m.sid} ELSE {}

\* Mutant: one message too many.
CanForwardOneMore(c) == Len(appChan[c]) <= ListenerCap
CanForward(c) == Len(appChan[c]) < ListenerCap

\* tx.send(m): m waits in hand while the channel is full.
Forward(c, m) ==
    IF CanForward(c)
    THEN /\ appChan' = [appChan EXCEPT ![c] = Append(@, m)]
         /\ UNCHANGED inHand
    ELSE inHand' = [inHand EXCEPT ![c] = m] /\ UNCHANGED appChan

\* Mutant: connect of the FFI returns, and drops its receiving end, before its loop.
DroppedByFfi(c) == c \notin Demo \/ loop[c] = "over"
\* webrtc_test has returned, which drops the receiving end of the channel.
Dropped(c) == c \in Demo /\ loop[c] = "over"

\* A message is received; an Answer is given to the callback of its session,
\* which wakes send_offer; then it is passed on.
ListenerTake(c) ==
    /\ conn[c] = "open" /\ ~Dropped(c)
    /\ inHand[c] = None
    /\ recvChan[c] # <<>>
    /\ LET m == Head(recvChan[c])
       IN  /\ callbacks' = [callbacks EXCEPT ![c] = @ \ Called(c, m)]
           /\ offering' = [s \in Sessions |->
                             IF s \in Called(c, m) THEN "exchanged" ELSE offering[s]]
           /\ remoteDesc' = [s \in Sessions |->
                               IF s \in Called(c, m) THEN <<m.sid, m.peer>> ELSE remoteDesc[s]]
           /\ Forward(c, m)
    /\ recvChan' = [recvChan EXCEPT ![c] = <<>>]
    /\ UNCHANGED <<roomVars, conns, up, loop, offerer, target, accepting>>

\* There is room again.
ListenerForward(c) ==
    /\ inHand[c] # None /\ ~Dropped(c)
    /\ CanForward(c)
    /\ appChan' = [appChan EXCEPT ![c] = Append(@, inHand[c])]
    /\ inHand' = [inHand EXCEPT ![c] = None]
    /\ UNCHANGED <<roomVars, conns, up, recvChan, callbacks, loop, calls, remoteDesc>>

\* The unwrap of tx.send panics.  This message, and each one the reading task
\* gets from now on, is lost; the socket stays open.
ListenerPanics(c) ==
    /\ Dropped(c)
    /\ recvChan[c] # <<>> \/ inHand[c] # None
    /\ recvChan' = [recvChan EXCEPT ![c] = <<>>]
    /\ inHand' = [inHand EXCEPT ![c] = None]
    /\ UNCHANGED <<roomVars, conns, up, appChan, callbacks, loop, calls, remoteDesc>>

----------------------------------------------------------------------------
(* The consumers *)

Consumes(c) == conn[c] = "open" /\ appChan[c] # <<>>
Consumed(c) == appChan' = [appChan EXCEPT ![c] = Tail(@)]

\* LsSignalingConnection::accept_offer, unless the key of the app is not an
\* Ed25519 key: then it answers Err, which ends the loop of the app.
AcceptOffer(c, s) ==
    \/ /\ accepting' = [accepting EXCEPT ![s] = "answer"]
       /\ UNCHANGED loop
    \/ /\ c \in BadKeys
       /\ loop' = [loop EXCEPT ![c] = "over"]
       /\ UNCHANGED accepting

\* The FFI passes a message to the app, which never blocks; the app accepts
\* every Offer.
FfiMessage(c) ==
    LET m == Head(appChan[c])
        offered == m.type = "Offer" /\ loop[c] = "running"
    IN  /\ c \notin Demo
        /\ Consumes(c)
        /\ Consumed(c)
        /\ \/ ~offered /\ UNCHANGED <<loop, accepting>>
           \/ offered /\ AcceptOffer(c, m.sid)
        /\ UNCHANGED <<roomVars, conns, up, recvChan, inHand, callbacks, offerer, target,
                       offering, remoteDesc>>

CallsMade == Cardinality({s \in Sessions : offering[s] # "none"}) + updates
CallsLeft ==
    CallsMade < IF \E c \in Peers : sock[c] = "gone" THEN MaxLossyCalls ELSE MaxCalls

\* A call of send_offer, with a fresh session id.
NewOffer(c, x, s) ==
    /\ CallsLeft
    /\ offering[s] = "none"
    /\ s = CHOOSE t \in Sessions : offering[t] = "none"
    /\ offerer' = [offerer EXCEPT ![s] = c]
    /\ target' = [target EXCEPT ![s] = x]
    /\ offering' = [offering EXCEPT ![s] = "offer"]

\* The demo offers a file to whoever joins and accepts every offer; it reads
\* no message until that call has returned.
DemoMessage(c) ==
    LET m == Head(appChan[c])
    IN  /\ c \in Demo
        /\ Consumes(c)
        /\ loop[c] = "running"
        /\ Consumed(c)
        /\ \/ m.type \notin {"Join", "Offer"} /\ UNCHANGED <<loop, calls>>
           \/ /\ m.type = "Join"
              /\ \E s \in Sessions : NewOffer(c, m.peer, s) /\ loop' = [loop EXCEPT ![c] = s]
              /\ UNCHANGED accepting
           \/ /\ m.type = "Offer"
              /\ loop' = [loop EXCEPT ![c] = m.sid]
              /\ accepting' = [accepting EXCEPT ![m.sid] = "answer"]
              /\ UNCHANGED <<offerer, target, offering>>
        /\ UNCHANGED <<roomVars, conns, up, recvChan, inHand, callbacks, remoteDesc>>

\* send_handler returns and so does the demo, with which all senders of the
\* writing task are dropped; receive_handler returns to the loop.
DemoReturns(c) ==
    /\ c \in Demo
    /\ loop[c] \in Sessions
    /\ LET s == loop[c]
       IN  \/ /\ offerer[s] = c /\ offering[s] \in {"exchanged", "failed"}
              /\ loop' = [loop EXCEPT ![c] = "over"]
              /\ sendTask' = [sendTask EXCEPT ![c] = "over"]
              /\ appChan' = [appChan EXCEPT ![c] = <<>>]
           \/ /\ target[s] = c /\ accepting[s] \in {"exchanged", "failed"}
              /\ loop' = [loop EXCEPT ![c] = "running"]
              /\ UNCHANGED <<sendTask, appChan>>
    /\ UNCHANGED <<roomVars, sock, conn, client, updates, up, recvChan, inHand, callbacks, calls,
                   remoteDesc>>

----------------------------------------------------------------------------
(* send_offer and accept_offer *)

\* The app calls LsSignalingConnection::send_offer.
FfiOffer(c, x, s) ==
    /\ c \in Offerers
    /\ conn[c] = "open" /\ loop[c] = "running"
    /\ x # c
    /\ NewOffer(c, x, s)
    /\ UNCHANGED <<roomVars, conns, channels, callbacks, loop, accepting, remoteDesc>>

\* tx.send(m): the writing task takes m from its channel of one and writes it,
\* unless that fails; Err when the task is over.
Sends(c, m) ==
    /\ sendTask[c] = "running"
    /\ up' = IF sock[c] = "open" THEN [up EXCEPT ![c] = Append(@, m)] ELSE up
SendFails(c) == sendTask[c] = "over" /\ UNCHANGED up

SendOffer(s) ==
    /\ offering[s] = "offer"
    /\ \/ /\ Sends(offerer[s], ClientMsg("Offer", target[s], s))
          /\ offering' = [offering EXCEPT ![s] = "register"]
       \/ /\ SendFails(offerer[s])
          /\ offering' = [offering EXCEPT ![s] = "failed"]
    /\ UNCHANGED <<roomVars, conns, recvChan, inHand, appChan, callbacks, loop, offerer, target,
                   accepting, remoteDesc>>

Registered(c, s) == callbacks[c] \cup {s}

\* on_answer: only now can the answer be noticed.
RegisterCallback(s) ==
    /\ offering[s] = "register"
    /\ callbacks' = [callbacks EXCEPT ![offerer[s]] = Registered(offerer[s], s)]
    /\ offering' = [offering EXCEPT ![s] = "wait"]
    /\ UNCHANGED <<roomVars, conns, channels, loop, offerer, target, accepting, remoteDesc>>

\* The answer is made, unless the offer cannot be used, and sent to the peer
\* of the offer.
SendAnswer(s) ==
    /\ accepting[s] = "answer"
    /\ \/ /\ Sends(target[s], ClientMsg("Answer", offerer[s], s))
          /\ accepting' = [accepting EXCEPT ![s] = "exchanged"]
       \/ /\ SendFails(target[s])
          /\ accepting' = [accepting EXCEPT ![s] = "failed"]
    /\ UNCHANGED <<roomVars, conns, recvChan, inHand, appChan, callbacks, loop, offerer, target,
                   offering, remoteDesc>>

\* decode_sdp, create_answer or the gathering of candidates fails.
AnswerImpossible(s) ==
    /\ accepting[s] = "answer"
    /\ accepting' = [accepting EXCEPT ![s] = "failed"]
    /\ UNCHANGED <<roomVars, conns, channels, callbacks, loop, offerer, target, offering, remoteDesc>>

\* The app calls LsSignalingConnection::update_info.
SendUpdate(c) ==
    /\ conn[c] = "open" /\ c \notin Demo
    /\ CallsLeft
    /\ Sends(c, ClientMsg("Update", c, None))
    /\ updates' = updates + 1
    /\ UNCHANGED <<roomVars, sock, conn, client, sendTask, recvChan, inHand, appChan, callbacks,
                   loop, calls, remoteDesc>>

----------------------------------------------------------------------------
(* The server and the network *)

ServerEnter(c) == sock[c] # "none" /\ Enter(c)

ServerPosts == \E o \in owed : PostOwed(o[2], o[3], ServerMsg(o[1], o[2], None))

\* A request is relayed to its target, if that is in the room; an Update to
\* every other peer (one step, which the client cannot tell from several).
ServerRelay(c) ==
    /\ up[c] # <<>> /\ c \in present
    /\ up' = [up EXCEPT ![c] = Tail(@)]
    /\ LET m == Head(up[c])
       IN  \/ /\ m.type # "Update" /\ m.target \in RoomMates(c)
              /\ Post(c, m.target, ServerMsg(m.type, c, m.sid))
           \/ /\ m.type # "Update" /\ m.target \notin RoomMates(c)
              /\ <<"Hello", c, c>> \notin owed /\ UNCHANGED roomVars
           \/ /\ m.type = "Update" /\ <<"Hello", c, c>> \notin owed
              /\ \A x \in RoomMates(c) : HasSpace(x)
              /\ mail' = [x \in Peers |-> IF x \in RoomMates(c) \ closed
                                          THEN Append(mail[x], ServerMsg("Update", c, None))
                                          ELSE mail[x]]
              /\ UNCHANGED <<entered, present, owed, closed>>

ServerLeave(c) == sock[c] = "gone" /\ Leave(c)

Server ==
    /\ \/ \E c \in Peers : (ServerEnter(c) \/ ServerLeave(c)) /\ UNCHANGED up
       \/ ServerPosts /\ UNCHANGED up
       \/ \E c \in Peers : ServerRelay(c)
    /\ UNCHANGED <<conns, recvChan, inHand, appChan, callbacks, loop, calls, remoteDesc>>

\* The connection breaks, or the server closes it: what is on its way is lost
\* and the reading task ends.
SocketLost(c) ==
    /\ c \in Lossy
    /\ CallsMade <= MaxLossyCalls
    /\ sock[c] = "open"
    /\ sock' = [sock EXCEPT ![c] = "gone"]
    /\ up' = [up EXCEPT ![c] = <<>>]
    /\ Close(c)
    /\ UNCHANGED <<conn, client, sendTask, updates, recvChan, inHand, appChan, callbacks,
                   loop, calls, remoteDesc>>

----------------------------------------------------------------------------
Init ==
    /\ RoomInit
    /\ sock = [c \in Peers |-> "none"]
    /\ conn = [c \in Peers |-> "idle"]
    /\ client = [c \in Peers |-> FALSE]
    /\ sendTask = [c \in Peers |-> "none"]
    /\ up = [c \in Peers |-> <<>>]
    /\ recvChan = [c \in Peers |-> <<>>]
    /\ inHand = [c \in Peers |-> None]
    /\ appChan = [c \in Peers |-> <<>>]
    /\ callbacks = [c \in Peers |-> {}]
    /\ loop = [c \in Peers |-> "running"]
    /\ updates = 0
    /\ offerer = [s \in Sessions |-> None] /\ target = [s \in Sessions |-> None]
    /\ offering = [s \in Sessions |-> "none"] /\ accepting = [s \in Sessions |-> "none"]
    /\ remoteDesc = [s \in Sessions |-> None]

Tasks(c) ==
    \/ WriteFails(c) \/ ReadHello(c) \/ ReadMessage(c)
    \/ ConnectReturns(c) \/ ConnectPanics(c)
    \/ ListenerTake(c) \/ ListenerForward(c) \/ ListenerPanics(c)
    \/ FfiMessage(c) \/ DemoMessage(c) \/ DemoReturns(c)

Exchange(s) == SendOffer(s) \/ RegisterCallback(s) \/ SendAnswer(s) \/ AnswerImpossible(s)

Next ==
    \/ \E c \in Peers : Tasks(c) \/ Connect(c) \/ SendUpdate(c) \/ SocketLost(c)
    \/ \E c, x \in Peers, s \in Sessions : FfiOffer(c, x, s)
    \/ \E s \in Sessions : Exchange(s)
    \/ Server

Spec == Init /\ [][Next]_vars

\* The runtimes of the clients and the server run the tasks that can go on.
\* Nobody has to connect, offer, update or lose a socket.  (Weak fairness of
\* each group is enough: only finitely many messages are ever sent.)
FairSpec ==
    /\ Spec
    /\ \A c \in Peers : WF_vars(Tasks(c))
    /\ WF_vars(\E s \in Sessions : Exchange(s))
    /\ WF_vars(Server)

----------------------------------------------------------------------------
(* Properties *)

TypeOK ==
    /\ sock \in [Peers -> {"none", "open", "gone"}]
    /\ conn \in [Peers -> {"idle", "hello", "open", "panicked"}]
    /\ client \in [Peers -> BOOLEAN]
    /\ sendTask \in [Peers -> {"none", "running", "over"}]
    /\ \A c \in Peers :
         /\ Len(recvChan[c]) <= 1
         /\ Len(appChan[c]) <= ListenerCap /\ Len(mail[c]) <= Capacity
         /\ \A i \in DOMAIN mail[c] : mail[c][i] \in RoomMessages
    /\ callbacks \in [Peers -> SUBSET Sessions]
    /\ offering \in [Sessions -> {"none", "offer", "register", "wait", "exchanged", "failed"}]
    /\ accepting \in [Sessions -> {"none", "answer", "exchanged", "failed"}]

\* A call of send_offer goes on with the answer to its own offer, made by the
\* peer the offer was for, however the offers of several peers overlap; and
\* every callback belongs to a call that still waits.
AnswerMatchesOffer ==
    /\ \A s \in Sessions :
         offering[s] = "exchanged" =>
            remoteDesc[s] = <<s, target[s]>> /\ accepting[s] = "exchanged"
    /\ \A c \in Peers : \A s \in callbacks[c] : offerer[s] = c /\ offering[s] = "wait"

\* Both ends of s, and the server, are still connected.
Linked(s) == \A c \in Peers \cap {offerer[s], target[s]} : sock[c] = "open"

\* The demo waits for the answer to its own offer while its listener waits for
\* the demo to read: neither goes on, nor does what queues up behind them.
DemoStuck(c) ==
    /\ c \in Demo /\ inHand[c] # None
    /\ \E s \in Sessions : loop[c] = s /\ offerer[s] = c /\ offering[s] = "wait"

\* Once an offer that is waited for is being answered, its answer gets through
\* all channels and both tasks of both clients, however many messages are ahead
\* of it and wait for each other, unless a socket is lost, the answer cannot be
\* made or a demo of the room is stuck.
AnswerArrives ==
    \A s \in Sessions :
        (offering[s] = "wait" /\ accepting[s] = "answer")
            ~> (\/ offering[s] = "exchanged" \/ accepting[s] = "failed" \/ ~Linked(s)
                \/ \E c \in Peers : DemoStuck(c))

\* connect gets the ClientInfo it waits for ("Waiting for hello...",
\* signaling.rs:201), or an error: it does not wait for ever.
ConnectEnds == \A c \in Peers : conn[c] = "hello" ~> conn[c] # "hello"
=============================================================================
