----------------------------- MODULE MCHttpCore -----------------------------
(* Instances of HttpCore for TLC. *)
EXTENDS HttpCore

CONSTANTS a, b, x

OneNat == [c \in Clients |-> "nat"]
OwnIps == [c \in Clients |-> c]

Setup(tls, overlap, lossy, unstable, expired, ip) ==
    [tls |-> tls, legacy |-> unstable, overlap |-> overlap, lossy |-> lossy,
     unstable |-> unstable, expired |-> expired, ip |-> ip]

\* Certificates behind one address; plain HTTP with listeners that fail; broken
\* connections and overlapping calls of clients that share an address; expired
\* certificates of a client and of the server.
SomeSetups ==
    {Setup(TRUE, FALSE, FALSE, FALSE, {}, OneNat), Setup(FALSE, FALSE, FALSE, TRUE, {}, OwnIps),
     Setup(FALSE, TRUE, TRUE, FALSE, {}, OneNat), Setup(TRUE, TRUE, FALSE, FALSE, {b, None}, OwnIps)}

\* Nonces of the smallest valid size and of a byte too many, and a prepare-upload
\* of the legacy API.
SomeRequests ==
    {[op |-> "nonce", version |-> 3, body |-> [dto |-> "nonce", nonce |-> Bytes(n, "x")]]
        : n \in {16, 129}}
    \cup {[op |-> "prepareUpload", version |-> 2, body |-> OwnBody("prepareUpload")]}
=============================================================================
