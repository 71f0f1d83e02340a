-------------------------- MODULE SignalingServer --------------------------
(***************************************************************************)
(* The signaling server: server/src/controller/ws_controller.rs with the   *)
(* shared state of server/src/config/state.rs.                             *)
(*                                                                         *)
(* Every websocket connection is a process (handle_socket) that owns a     *)
(* bounded mpsc channel.  Under the tx_map lock it takes a snapshot of the *)
(* peers of its IP group and inserts itself; after the unlock it sends one *)
(* Join per peer, then its own Hello, and only then spawns the task that   *)
(* drains its channel (send_task) and the task that reads requests         *)
(* (recv_task).  When one of the two ends, the other is aborted, the peer  *)
(* is removed under the lock and Left is sent to those that remain.        *)
(* A send to a full channel blocks; a send to a dropped receiver is        *)
(* ignored.                                                                *)
(*                                                                         *)
(* The client's end of the socket is the roster the app builds from the    *)
(* messages (signaling_provider.dart, nearby_devices_provider.dart): a     *)
(* message written to an open socket is applied to it at once, which loses *)
(* nothing because the socket is FIFO.                                     *)
(***************************************************************************)
EXTENDS Naturals, Sequences, FiniteSets, Functions

CONSTANTS
    Conns,          \* connections; each has a fresh Uuid, so ids are never reused
    Addr,           \* Addr[c]: the socket address of c
    Forwarded,      \* Forwarded[c]: last x-forwarded-for component, or NoIp
    NoIp,
    Infos,          \* client infos (alias, version, device, token)
    Token,          \* Token[i]: the fingerprint in info i
    Requests,       \* kinds of request clients make, \subseteq {"Update", "Offer", "Answer"}
    MaxConnections, \* MAX_CONNECTIONS_PER_IP
    MaxRequests,    \* MAX_REQUESTS_PER_IP_PER_HOUR
    ChanCap         \* capacity of every mpsc channel (4 in the code)

ASSUME ConnsAssumption == IsFiniteSet(Conns)
ASSUME InfosAssumption == Infos # {}
ASSUME LimitsAssumption ==
    /\ MaxConnections \in Nat
    /\ MaxRequests \in Nat
    /\ ChanCap \in Nat \ {0}
ASSUME RequestsAssumption == Requests \subseteq {"Update", "Offer", "Answer"}

VARIABLES
    rooms,      \* keys of tx_map: the IP groups that have an entry
    members,    \* peers inserted in tx_map, in the entry of their IP group
    client,     \* ClientState.client of every peer
    self,       \* the ClientInfo `peer` captured by handle_socket
    requests,   \* request_count_map
    pc,         \* control point of handle_socket
    todo,       \* peers_tx / remaining_tx still to be sent to
    snapshot,   \* `peers`: what Hello will list
    sendTask, recvTask, aborted,
    out, outTo, \* message recv_task is sending, and to whom (Error, <<>>: none)
    chan,       \* the mpsc channel of every peer
    socket,     \* "open" or "gone"
    gotHello,   \* Hello has reached the client
    roster      \* devices the client lists (NearbyDevicesState.signalingDevices)

server == <<rooms, members, client, self, requests>>
handler == <<pc, todo, snapshot>>
tasks == <<sendTask, recvTask, aborted, out, outTo>>
ends == <<socket, gotHello, roster>>
vars == <<server, handler, tasks, chan, ends>>

----------------------------------------------------------------------------
(* IP groups *)

\* An address is [v, net, host]: an IPv4 address is a group of its own, an
\* IPv6 address belongs to the group of its /64.
get_ip_group(ip) == IF ip.v = 4 THEN <<4, ip.net, ip.host>> ELSE <<6, ip.net>>

\* The forwarded address wins over the address of the TCP connection.
Group(c) ==
    get_ip_group(IF Forwarded[c] = NoIp THEN Addr[c] ELSE Forwarded[c])

Groups == {Group(c) : c \in Conns}
Room(g) == {c \in members : Group(c) = g}

----------------------------------------------------------------------------
(* Messages *)

Device == [peer : Conns, info : Infos]
PeerTypes == {"Join", "Update", "Offer", "Answer"}
Hello(ds) == [type |-> "Hello", peers |-> ds]
PeerMsg(t, q, i) == [type |-> t, peer |-> q, info |-> i]
Left(q) == [type |-> "Left", peer |-> q]
Error == [type |-> "Error"]

Message ==
    [type : {"Hello"}, peers : SUBSET Device]
        \cup [type : PeerTypes, peer : Conns, info : Infos]
        \cup [type : {"Left"}, peer : Conns]
        \cup {Error}

\* The orders in which a HashMap may iterate over the set S.
Orders(S) == {s \in [1 .. Cardinality(S) -> S] : Range(s) = S}

----------------------------------------------------------------------------
(* Channels *)

\* Mutant: handle_socket keeps rx when send_task has ended.
RxNeverDropped(p) == TRUE
\* rx lives in handle_socket until send_task is spawned, then in send_task.
RxAlive(p) == sendTask[p] # "over"
CanPush(p) == RxAlive(p) => Len(chan[p]) < ChanCap
\* tx.send(m).await: ignored when the receiver has been dropped.
Pushed(p, m) ==
    IF RxAlive(p) THEN [chan EXCEPT ![p] = Append(@, m)] ELSE chan

----------------------------------------------------------------------------
(* The client's roster *)

\* RegisterSignalingDeviceAction: devices are grouped by fingerprint; within
\* one fingerprint the entry of the same signalingId is replaced.
Register(ds, d) ==
    {e \in ds : ~(Token[e.info] = Token[d.info] /\ e.peer = d.peer)} \cup {d}

\* UnregisterSignalingDeviceAction
Unregister(ds, q) == {e \in ds : e.peer # q}

\* Hello registers each of its peers in turn.
RegisterAll(ds, new) ==
    {e \in ds : \A d \in new : ~(Token[e.info] = Token[d.info] /\ e.peer = d.peer)}
        \cup new

Applied(ds, m) ==
    CASE m.type = "Hello" -> RegisterAll(ds, m.peers)
      [] m.type \in {"Join", "Update"} ->
            Register(ds, [peer |-> m.peer, info |-> m.info])
      [] m.type = "Left" -> Unregister(ds, m.peer)
      [] OTHER -> ds

----------------------------------------------------------------------------
Init ==
    /\ rooms = {}
    /\ members = {}
    /\ \E i \in Infos : client = [c \in Conns |-> i] /\ self = [c \in Conns |-> i]
    /\ requests = [g \in Groups |-> 0]
    /\ pc = [c \in Conns |-> "idle"]
    /\ todo = [c \in Conns |-> <<>>]
    /\ snapshot = [c \in Conns |-> {}]
    /\ sendTask = [c \in Conns |-> "none"]
    /\ recvTask = [c \in Conns |-> "none"]
    /\ aborted = [c \in Conns |-> FALSE]
    /\ out = [c \in Conns |-> Error]
    /\ outTo = [c \in Conns |-> <<>>]
    /\ chan = [c \in Conns |-> <<>>]
    /\ socket = [c \in Conns |-> "open"]
    /\ gotHello = [c \in Conns |-> FALSE]
    /\ roster = [c \in Conns |-> {}]

----------------------------------------------------------------------------
(* handle_socket: connecting *)

\* Mutant: the comparison of the limit is off by one.
RoomFullOffByOne(c) == Cardinality(Room(Group(c))) > MaxConnections
RoomFull(c) == Cardinality(Room(Group(c))) >= MaxConnections

\* Mutant: the comparison of the request limit is off by one.
OverLimitOffByOne(c) == requests[Group(c)] > MaxRequests
\* protect_ddos_request_count answers Err.
OverLimit(c) == requests[Group(c)] >= MaxRequests
Counted(c) == [requests EXCEPT ![Group(c)] = @ + 1]

\* "Limit reached": the entry of the group has been created all the same.
Reject(c) ==
    /\ pc[c] = "idle"
    /\ RoomFull(c) \/ OverLimit(c)
    /\ rooms' = rooms \cup {Group(c)}
    /\ pc' = [pc EXCEPT ![c] = "rejected"]
    /\ socket' = [socket EXCEPT ![c] = "gone"]
    /\ UNCHANGED <<members, client, self, requests, todo, snapshot, tasks, chan,
                   gotHello, roster>>

\* Mutant: only the peers whose handler is past its own Hello are told.
OnlyServingPeers(c) == {p \in Room(Group(c)) : pc[p] = "serving"}
\* peers_tx: who is told of the join.
PeersToNotify(c) == Room(Group(c))

\* The critical section of a successful connection.
Accept(c) ==
    /\ pc[c] = "idle"
    /\ ~RoomFull(c)
    /\ ~OverLimit(c)
    /\ rooms' = rooms \cup {Group(c)}
    /\ members' = members \cup {c}
    /\ requests' = Counted(c)
    /\ \E i \in Infos :
         /\ client' = [client EXCEPT ![c] = i]
         /\ self' = [self EXCEPT ![c] = i]
    /\ snapshot' = [snapshot EXCEPT ![c] =
                       {[peer |-> q, info |-> client[q]] : q \in Room(Group(c))}]
    /\ \E s \in Orders(PeersToNotify(c)) : todo' = [todo EXCEPT ![c] = s]
    /\ pc' = [pc EXCEPT ![c] = "joining"]
    /\ UNCHANGED <<tasks, chan, ends>>

\* One iteration of the loop that tells the peers of the join.
SendJoin(c) ==
    /\ pc[c] = "joining"
    /\ todo[c] # <<>>
    /\ CanPush(Head(todo[c]))
    /\ chan' = Pushed(Head(todo[c]), PeerMsg("Join", c, self[c]))
    /\ todo' = [todo EXCEPT ![c] = Tail(@)]
    /\ UNCHANGED <<server, pc, snapshot, tasks, ends>>

\* Hello goes to the peer's own channel; then both tasks are spawned.
SendHello(c) ==
    /\ pc[c] = "joining"
    /\ todo[c] = <<>>
    /\ CanPush(c)
    /\ chan' = Pushed(c, Hello(snapshot[c]))
    /\ pc' = [pc EXCEPT ![c] = "serving"]
    /\ sendTask' = [sendTask EXCEPT ![c] = "running"]
    /\ recvTask' = [recvTask EXCEPT ![c] = "reading"]
    /\ UNCHANGED <<server, todo, snapshot, aborted, out, outTo, ends>>

----------------------------------------------------------------------------
(* send_task *)

\* rx.recv() and a write that succeeds: the client applies the message.
SendTaskWrite(c) ==
    /\ sendTask[c] = "running"
    /\ socket[c] = "open"
    /\ chan[c] # <<>>
    /\ chan' = [chan EXCEPT ![c] = Tail(@)]
    /\ roster' = [roster EXCEPT ![c] = Applied(@, Head(chan[c]))]
    /\ gotHello' = [gotHello EXCEPT ![c] = @ \/ Head(chan[c]).type = "Hello"]
    /\ UNCHANGED <<server, handler, tasks, socket>>

\* The write fails: the task ends and drops rx with what is queued.
SendTaskBreak(c) ==
    /\ sendTask[c] = "running"
    /\ socket[c] = "gone"
    /\ chan[c] # <<>>
    /\ sendTask' = [sendTask EXCEPT ![c] = "over"]
    /\ chan' = [chan EXCEPT ![c] = <<>>]
    /\ UNCHANGED <<server, handler, recvTask, aborted, out, outTo, ends>>

----------------------------------------------------------------------------
(* recv_task *)

\* Mutant: recv_task is spawned before Hello has been sent.
ReadingEarly(c) ==
    /\ pc[c] \in {"joining", "serving"}
    /\ recvTask[c] \in {"none", "reading"} /\ socket[c] = "open" /\ Requests # {}
Reading(c) == recvTask[c] = "reading" /\ socket[c] = "open" /\ Requests # {}

\* recv_task starts to send m to the peers in the order s (none: it reads on).
Sends(c, m, s) ==
    IF s = <<>>
    THEN UNCHANGED <<out, outTo, recvTask>>
    ELSE /\ out' = [out EXCEPT ![c] = m]
         /\ outTo' = [outTo EXCEPT ![c] = s]
         /\ recvTask' = [recvTask EXCEPT ![c] = "sending"]

\* A request over the hourly limit: Error to the peer itself, then return.
RecvOverLimit(c) ==
    /\ Reading(c)
    /\ OverLimit(c)
    /\ Sends(c, Error, <<c>>)
    /\ UNCHANGED <<server, handler, sendTask, aborted, chan, ends>>

\* Mutant: peers whose handler is not past its own Hello are left out.
OthersServing(c) == {p \in Room(Group(c)) \ {c} : pc[p] = "serving"}
Others(c) == Room(Group(c)) \ {c}

\* send_update_to_other_peers_with_lock up to the unlock.  The request is
\* counted just before, in the same step.
RecvUpdate(c, i) ==
    /\ Reading(c)
    /\ ~OverLimit(c)
    /\ "Update" \in Requests
    /\ requests' = Counted(c)
    /\ client' = IF c \in members THEN [client EXCEPT ![c] = i] ELSE client
    /\ \E s \in Orders(IF c \in members THEN Others(c) ELSE {}) :
         Sends(c, PeerMsg("Update", c, i), s)
    /\ UNCHANGED <<rooms, members, self, handler, sendTask, aborted, chan, ends>>

\* Mutant: the target is looked up in every IP group.
TargetAnywhere(c, t) == IF t \in members THEN <<t>> ELSE <<>>
Target(c, t) == IF t \in Room(Group(c)) THEN <<t>> ELSE <<>>

\* send_to_peer_with_lock up to the unlock; the sender's info is the one
\* captured when it connected.
RecvSdp(c, kind, t) ==
    /\ Reading(c)
    /\ ~OverLimit(c)
    /\ kind \in Requests \ {"Update"}
    /\ requests' = Counted(c)
    /\ Sends(c, PeerMsg(kind, c, self[c]), Target(c, t))
    /\ UNCHANGED <<rooms, members, client, self, handler, sendTask, aborted, chan, ends>>

\* One send of the loop (Update), of the target (SDP) or of the Error.
SendOut(c) ==
    /\ recvTask[c] = "sending"
    /\ CanPush(Head(outTo[c]))
    /\ chan' = Pushed(Head(outTo[c]), out[c])
    /\ outTo' = [outTo EXCEPT ![c] = Tail(@)]
    /\ IF Tail(outTo[c]) # <<>>
       THEN UNCHANGED <<out, recvTask>>
       ELSE /\ out' = [out EXCEPT ![c] = Error]
            /\ recvTask' = [recvTask EXCEPT ![c] =
                               IF out[c] = Error THEN "over" ELSE "reading"]
    /\ UNCHANGED <<server, handler, sendTask, aborted, ends>>

\* receiver.next() answers None or Err.
RecvTaskEnd(c) ==
    /\ recvTask[c] = "reading"
    /\ socket[c] = "gone"
    /\ recvTask' = [recvTask EXCEPT ![c] = "over"]
    /\ UNCHANGED <<server, handler, sendTask, aborted, out, outTo, chan, ends>>

----------------------------------------------------------------------------
(* handle_socket: disconnecting *)

\* Mutant: only the end of send_task is awaited.
OnlySendTaskOver(c) == sendTask[c] = "over"
TaskOver(c) == sendTask[c] = "over" \/ recvTask[c] = "over"

\* tokio::select!: one task has ended, the other is told to abort.
SelectExit(c) ==
    /\ pc[c] = "serving"
    /\ TaskOver(c)
    /\ pc' = [pc EXCEPT ![c] = "closing"]
    /\ aborted' = [aborted EXCEPT ![c] = TRUE]
    /\ UNCHANGED <<server, todo, snapshot, sendTask, recvTask, out, outTo, chan, ends>>

\* abort() takes effect when the aborted task next yields: until then it runs.
SendTaskCancelled(c) ==
    /\ aborted[c]
    /\ sendTask[c] = "running"
    /\ sendTask' = [sendTask EXCEPT ![c] = "over"]
    /\ chan' = [chan EXCEPT ![c] = <<>>]
    /\ UNCHANGED <<server, handler, recvTask, aborted, out, outTo, ends>>

RecvTaskCancelled(c) ==
    /\ aborted[c]
    /\ recvTask[c] # "over"
    /\ recvTask' = [recvTask EXCEPT ![c] = "over"]
    /\ out' = [out EXCEPT ![c] = Error]
    /\ outTo' = [outTo EXCEPT ![c] = <<>>]
    /\ UNCHANGED <<server, handler, sendTask, aborted, chan, ends>>

\* Mutant: peers whose handler is not past its own Hello are not told.
OnlyServingRemaining(c) == {p \in Room(Group(c)) \ {c} : pc[p] = "serving"}
Remaining(c) == Room(Group(c)) \ {c}

\* The critical section of the disconnection.
Disconnect(c) ==
    /\ pc[c] = "closing"
    /\ members' = members \ {c}
    /\ rooms' = IF Room(Group(c)) \ {c} = {} THEN rooms \ {Group(c)} ELSE rooms
    /\ \E s \in Orders(Remaining(c)) : todo' = [todo EXCEPT ![c] = s]
    /\ pc' = [pc EXCEPT ![c] = "leaving"]
    /\ UNCHANGED <<client, self, requests, snapshot, tasks, chan, ends>>

\* One iteration of the loop that sends Left; the handler returns when todo
\* is empty.
SendLeft(c) ==
    /\ pc[c] = "leaving"
    /\ todo[c] # <<>>
    /\ CanPush(Head(todo[c]))
    /\ chan' = Pushed(Head(todo[c]), Left(c))
    /\ todo' = [todo EXCEPT ![c] = Tail(@)]
    /\ UNCHANGED <<server, pc, snapshot, tasks, ends>>

----------------------------------------------------------------------------
(* Environment *)

\* The client closes its socket, or the connection breaks.
ClientClose(c) ==
    /\ pc[c] # "idle"
    /\ socket[c] = "open"
    /\ socket' = [socket EXCEPT ![c] = "gone"]
    /\ UNCHANGED <<server, handler, tasks, chan, gotHello, roster>>

\* The hourly job of server/src/config/scheduler.rs.
ClearRequests ==
    /\ \E g \in Groups : requests[g] > 0
    /\ requests' = [g \in Groups |-> 0]
    /\ UNCHANGED <<rooms, members, client, self, handler, tasks, chan, ends>>

----------------------------------------------------------------------------
HandlerNext(c) ==
    \/ Reject(c)
    \/ Accept(c)
    \/ SendJoin(c)
    \/ SendHello(c)
    \/ SelectExit(c)
    \/ Disconnect(c)
    \/ SendLeft(c)

RecvTaskNext(c) ==
    \/ RecvOverLimit(c)
    \/ \E i \in Infos : RecvUpdate(c, i)
    \/ \E kind \in {"Offer", "Answer"}, t \in Conns : RecvSdp(c, kind, t)
    \/ SendOut(c)
    \/ RecvTaskEnd(c)
    \/ RecvTaskCancelled(c)

SendTaskNext(c) ==
    \/ SendTaskWrite(c)
    \/ SendTaskBreak(c)
    \/ SendTaskCancelled(c)

Next ==
    \/ \E c \in Conns : HandlerNext(c)
    \/ \E c \in Conns : RecvTaskNext(c)
    \/ \E c \in Conns : SendTaskNext(c)
    \/ \E c \in Conns : ClientClose(c)
    \/ ClearRequests

Spec == Init /\ [][Next]_vars

\* tokio runs every ready task; its channels hand out free slots to waiting
\* senders in FIFO order, so a sender is not overtaken for ever (SF).  Clients
\* read their socket.  Connecting, requesting, closing and the hourly job are
\* not forced.
Fairness ==
    \A c \in Conns :
        /\ SF_vars(SendJoin(c) \/ SendHello(c) \/ SendLeft(c))
        /\ SF_vars(SendOut(c))
        /\ WF_vars(SelectExit(c) \/ Disconnect(c))
        /\ WF_vars(SendTaskWrite(c) \/ SendTaskBreak(c))
        /\ WF_vars(SendTaskCancelled(c))
        /\ WF_vars(RecvTaskEnd(c))
        /\ WF_vars(RecvTaskCancelled(c))

FairSpec == Spec /\ Fairness
----------------------------------------------------------------------------
(* Properties *)

\* The type invariant; the hourly count of a group never exceeds its limit.
TypeOK ==
    /\ rooms \subseteq Groups
    /\ members \subseteq Conns
    /\ client \in [Conns -> Infos]
    /\ self \in [Conns -> Infos]
    /\ requests \in [Groups -> 0 .. MaxRequests]
    /\ pc \in [Conns -> {"idle", "rejected", "joining", "serving", "closing", "leaving"}]
    /\ todo \in [Conns -> Seq(Conns)]
    /\ snapshot \in [Conns -> SUBSET Device]
    /\ sendTask \in [Conns -> {"none", "running", "over"}]
    /\ recvTask \in [Conns -> {"none", "reading", "sending", "over"}]
    /\ aborted \in [Conns -> BOOLEAN]
    /\ out \in [Conns -> Message]
    /\ outTo \in [Conns -> Seq(Conns)]
    /\ chan \in [Conns -> Seq(Message)]
    /\ socket \in [Conns -> {"open", "gone"}]
    /\ gotHello \in [Conns -> BOOLEAN]
    /\ roster \in [Conns -> SUBSET Device]

\* No IP group ever has more peers in tx_map than MAX_CONNECTIONS, however the
\* connections, rejections and disconnections of its peers interleave.
ConnectionLimit == \A g \in Groups : Cardinality(Room(g)) <= MaxConnections

\* m mentions only peers of the group g.
Within(m, g) ==
    /\ m.type = "Hello" => \A d \in m.peers : Group(d.peer) = g
    /\ m.type \in PeerTypes \cup {"Left"} => Group(m.peer) = g

\* The rooms are isolated: whatever is queued for a peer, and whatever its
\* client lists, concerns peers of its own IP group only, although requests
\* may name any peer id as their target.
RoomIsolation ==
    \A p \in Conns :
        /\ \A m \in Range(chan[p]) : Within(m, Group(p))
        /\ \A d \in roster[p] : Group(d.peer) = Group(p)

Lists(m, q) ==
    \/ m.type \in {"Join", "Update"} /\ m.peer = q
    \/ m.type = "Hello" /\ \E d \in m.peers : d.peer = q

\* p's client lists q, or is bound to: the news is queued, or a handler still
\* has it to send.
Learns(p, q) ==
    \/ \E d \in roster[p] : d.peer = q
    \/ \E m \in Range(chan[p]) : Lists(m, q)
    \/ pc[q] = "joining" /\ p \in Range(todo[q])
    \/ pc[p] = "joining" /\ \E d \in snapshot[p] : d.peer = q

\* No two peers of a room miss each other: between the snapshot that Hello
\* carries and the Join that later peers send, nobody is forgotten, although
\* both are sent after the lock has been released.
NoMissingPeer ==
    \A p, q \in members :
        (p # q /\ Group(p) = Group(q) /\ RxAlive(p)) => Learns(p, q)

\* A Join queued for a member is followed by the Left of the same peer as soon
\* as that peer is out of the room (queued behind it, or still to be sent), so
\* a Join never leaves a departed peer in the roster.
JoinThenLeft ==
    \A p \in members : RxAlive(p) =>
        \A i \in DOMAIN chan[p] :
            LET m == chan[p][i] IN
            (m.type = "Join" /\ m.peer \notin members) =>
                \/ \E j \in DOMAIN chan[p] : j > i /\ chan[p][j] = Left(m.peer)
                \/ pc[m.peer] = "leaving" /\ p \in Range(todo[m.peer])

Announces(m, q) == m.type \in {"Join", "Update"} /\ m.peer = q

\* The newest thing p will have heard of q is q's current info.
HearsNewest(p, q) ==
    \/ pc[q] = "joining" /\ p \in Range(todo[q]) /\ self[q] = client[q]
    \/ /\ recvTask[q] = "sending"
       /\ out[q] = PeerMsg("Update", q, client[q])
       /\ p \in Range(outTo[q])
    \/ \E i \in DOMAIN chan[p] :
          /\ Announces(chan[p][i], q)
          /\ chan[p][i].info = client[q]
          /\ \A j \in DOMAIN chan[p] : Announces(chan[p][j], q) => j <= i
    \/ /\ \A j \in DOMAIN chan[p] : ~Announces(chan[p][j], q)
       /\ [peer |-> q, info |-> client[q]] \in roster[p]

\* Updates are neither lost nor reordered: a peer that was in the room before q
\* ends up with q's current info, as long as q is connected.  (A peer that
\* joined after q may be left with the older info of its own Hello, because
\* Hello can be queued behind q's Update.)
UpdateNotLost ==
    \A p, q \in members :
        (/\ p # q
         /\ Group(p) = Group(q)
         /\ RxAlive(p)
         /\ ~aborted[q]
         /\ \A d \in snapshot[p] : d.peer # q) => HearsNewest(p, q)

\* Only its own Hello is left to be sent, but others have filled its channel,
\* which nobody will ever drain: whoever sends to p waits for ever, and so does p.
BlockedBeforeHello(p) == pc[p] = "joining" /\ todo[p] = <<>> /\ ~CanPush(p)

\* A member whose socket is gone is eventually taken out of tx_map, so a room
\* does not fill up with dead connections, although its own tasks and handler
\* may be blocked in sends to others whose sockets break as well.  The one
\* exception is a room with a peer that hangs before its Hello.
GoneLeavesRoom ==
    \A c \in Conns :
        (c \in members /\ socket[c] = "gone")
            ~> (c \notin members \/ \E p \in Room(Group(c)) : BlockedBeforeHello(p))

\* A connection that was accepted and stays open gets its Hello, which is what
\* SignalingConnection::connect waits for.
HelloDelivered ==
    \A c \in Conns : pc[c] = "joining" ~> (gotHello[c] \/ socket[c] = "gone")

\* It gets it in every room in which nobody hangs before its Hello, however
\* long its handler waits for room in the channels of others, unless its tasks
\* end before: a request over the limit aborts the one that has Hello to send.
HelloUnlessBlocked ==
    \A c \in Conns :
        pc[c] = "joining"
            ~> (\/ gotHello[c] \/ socket[c] = "gone" \/ aborted[c]
                \/ \E p \in Room(Group(c)) : BlockedBeforeHello(p))

----------------------------------------------------------------------------
(* The facts that make the properties inductive *)

\* While recv_task sends there is somebody left to send to.
SendingHasTarget ==
    \A c \in Conns : recvTask[c] = "sending" => outTo[c] # <<>>

\* tx_map holds exactly the connections whose handler is between its two
\* critical sections.
MembersByControl ==
    \A c \in Conns : c \in members <=> pc[c] \in {"joining", "serving", "closing"}

\* The channel of a handler that has not queued its Hello is still with it.
NoneBeforeServing ==
    \A c \in Conns : pc[c] \in {"idle", "joining"} => sendTask[c] = "none"

\* recv_task sends requests of its own peer, or an Error.
OutIsOwn ==
    \A c \in Conns :
        out[c] = Error \/ \E t \in {"Update", "Offer", "Answer"}, i \in Infos :
                             out[c] = PeerMsg(t, c, i)

\* Whatever handlers and tasks still have to send stays in the room.
PendingIsolated ==
    \A c \in Conns :
        /\ \A x \in Range(todo[c]) : Group(x) = Group(c)
        /\ \A x \in Range(outTo[c]) : Group(x) = Group(c)
        /\ \A d \in snapshot[c] : Group(d.peer) = Group(c)

\* Left is sent by a handler that has removed its peer for good.
LeftMeansGone ==
    \A p \in Conns : \A m \in Range(chan[p]) :
        m.type = "Left" => pc[m.peer] = "leaving"

=============================================================================
