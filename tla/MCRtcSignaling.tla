--------------------------- MODULE MCRtcSignaling ---------------------------
(* Instances of RtcSignaling for TLC. *)
EXTENDS RtcSignaling, TLC

\* Everybody is in the same room.
OneRoom == [p \in Peers |-> 1]
AllMessages == RoomMessages
=============================================================================
