------------------------ MODULE SignalingRefinement ------------------------
(***************************************************************************)
(* The signaling server implements the room it is meant to be.  tx_map is  *)
(* who is present; what is owed is what the handlers still have to send    *)
(* after they released the lock; a mailbox is the channel of a peer and is *)
(* closed when its receiver has been dropped.                              *)
(***************************************************************************)
EXTENDS SignalingServer

\* What the handler of c still has to send, and what all of them have.
OwedBy(c) ==
    IF pc[c] = "joining"
    THEN {<<"Hello", c, c>>} \cup {<<"Join", c, p>> : p \in Range(todo[c])}
    ELSE IF pc[c] = "leaving" THEN {<<"Left", c, p>> : p \in Range(todo[c])} ELSE {}
Owed == UNION {OwedBy(c) : c \in Conns}

Rooms == INSTANCE SignalingRoom WITH
            Peers <- Conns,
            RoomOf <- [c \in Conns |-> Group(c)],
            Messages <- Message,
            Capacity <- ChanCap,
            entered <- {c \in Conns : pc[c] \notin {"idle", "rejected"}},
            present <- members,
            owed <- Owed,
            closed <- {c \in Conns : sendTask[c] = "over"},
            mail <- chan

\* Although a handler works with a snapshot that is stale as soon as it has
\* released the lock (ws_controller.rs:125-163, 249-273), every peer present is
\* told exactly once of a newcomer and of a departure, and nobody else is.
ImplementsRoom == Rooms!RoomSpec
=============================================================================
