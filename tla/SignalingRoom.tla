--------------------------- MODULE SignalingRoom ---------------------------
(***************************************************************************)
(* What the signaling server promises its clients, without locks, tasks    *)
(* and snapshots.  A connection enters its room once and leaves it once.   *)
(* Entering owes one Join to everybody who is present and a Hello to the   *)
(* newcomer; leaving owes one Left to everybody who remains; each of them  *)
(* is posted exactly once, in any order between the peers.  What a peer    *)
(* posts itself (Update, Offer, Answer) reaches peers of its own room, and *)
(* every mailbox is a bounded FIFO queue that is emptied when its owner    *)
(* is gone.                                                                *)
(*                                                                         *)
(* SignalingServer implements this specification; RtcSignaling is the      *)
(* client library, composed with it.                                       *)
(***************************************************************************)
EXTENDS Naturals, Sequences

CONSTANTS
    Peers,      \* connections
    RoomOf,     \* RoomOf[p]: the room of p
    Messages,   \* what can be posted: records with a type and, mostly, a peer
    Capacity    \* bound of a mailbox

VARIABLES
    entered,    \* connections that have entered their room
    present,    \* those that have not left it again
    owed,       \* messages to be posted: <<type, about, to>>
    closed,     \* mailboxes nobody reads any more
    mail        \* mail[p]: what is queued for p

roomVars == <<entered, present, owed, closed, mail>>

RoomInit ==
    /\ entered = {} /\ present = {} /\ owed = {} /\ closed = {}
    /\ mail = [p \in Peers |-> <<>>]

RoomMates(p) == {x \in present : RoomOf[x] = RoomOf[p]} \ {p}

HasSpace(p) == p \in closed \/ Len(mail[p]) < Capacity
Posted(p, m) == IF p \in closed THEN mail ELSE [mail EXCEPT ![p] = Append(@, m)]

Enter(p) ==
    /\ p \notin entered
    /\ entered' = entered \cup {p}
    /\ present' = present \cup {p}
    /\ owed' = owed \cup {<<"Join", p, x>> : x \in RoomMates(p)} \cup {<<"Hello", p, p>>}
    /\ UNCHANGED <<closed, mail>>

\* What is owed is posted; Hello comes after the Joins of the same peer.
PostOwed(p, x, m) ==
    /\ <<m.type, p, x>> \in owed
    /\ \/ m.type \in {"Join", "Left"} /\ m.peer = p
       \/ m.type = "Hello" /\ \A y \in Peers : <<"Join", p, y>> \notin owed
    /\ HasSpace(x)
    /\ mail' = Posted(x, m)
    /\ owed' = owed \ {<<m.type, p, x>>}
    /\ UNCHANGED <<entered, present, closed>>

\* p posts something to a peer of its room, or gets an Error itself.
Post(p, x, m) ==
    /\ p \in entered
    /\ <<"Hello", p, p>> \notin owed
    /\ RoomOf[x] = RoomOf[p]
    /\ \/ m.type \in {"Update", "Offer", "Answer"} /\ m.peer = p
       \/ m.type = "Error" /\ x = p
    /\ HasSpace(x)
    /\ mail' = Posted(x, m)
    /\ UNCHANGED <<entered, present, owed, closed>>

Take(p) ==
    /\ p \notin closed
    /\ mail[p] # <<>>
    /\ mail' = [mail EXCEPT ![p] = Tail(@)]
    /\ UNCHANGED <<entered, present, owed, closed>>

Close(p) ==
    /\ closed' = closed \cup {p}
    /\ mail' = [mail EXCEPT ![p] = <<>>]
    /\ UNCHANGED <<entered, present, owed>>

\* A peer leaves after its own Hello; those who remain are owed a Left.
Leave(p) ==
    /\ p \in present
    /\ <<"Hello", p, p>> \notin owed
    /\ present' = present \ {p}
    /\ owed' = owed \cup {<<"Left", p, x>> : x \in RoomMates(p)}
    /\ UNCHANGED <<entered, closed, mail>>

RoomNext ==
    \/ \E p \in Peers : Enter(p) \/ Take(p) \/ Close(p) \/ Leave(p)
    \/ \E p, x \in Peers, m \in Messages : PostOwed(p, x, m) \/ Post(p, x, m)

RoomSpec == RoomInit /\ [][RoomNext]_roomVars
=============================================================================
