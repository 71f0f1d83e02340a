------------------------- MODULE MCSignalingServer -------------------------
(***************************************************************************)
(* Instances of SignalingServer for TLC.                                   *)
(***************************************************************************)
EXTENDS SignalingRefinement, TLC

CONSTANT Stranger   \* the connection that comes from another network

Ip(v, net, host) == [v |-> v, net |-> net, host |-> host]

\* Everybody is behind the same IPv4 address (a home router).
SameAddr == [c \in Conns |-> Ip(4, 1, 1)]

\* All connections come through a proxy; the stranger's forwarded address has
\* the others' network part and another host part.
NoForward == [c \in Conns |-> NoIp]
ProxyV4 == [c \in Conns |-> IF c = Stranger THEN Ip(4, 1, 2) ELSE Ip(4, 1, 3)]

\* IPv6 addresses of one /64.
OneLan6 == [c \in Conns |-> Ip(6, 1, c)]

\* Every info has a token of its own / all have the same token.
OwnToken == [i \in Infos |-> i]
OneToken == [i \in Infos |-> "token"]

Symmetry == Permutations(Conns \ {Stranger}) \cup Permutations(Infos)
=============================================================================
