--------------------------- MODULE MCRtcTransfer ---------------------------
(* Instances of RtcTransfer, and of its refinement, for TLC. *)
EXTENDS RtcRefinement, TLC

CONSTANTS f1, f2, right, wrong

\* With chunks of two units: a file of a chunk and a rest, one of a full chunk.
TwoFiles == {f1, f2}
Sizes == [f \in Files |-> IF f = f1 THEN 3 ELSE 2]

\* A file of one unfinished chunk and an empty one.
SmallSizes == [f \in Files |-> IF f = f1 THEN 1 ELSE 0]

AnySelection == SUBSET Files
SomeSelection == SUBSET Files \ {{}}

Anyone == [p \in Peers |-> None]
RightKeys == [p \in Peers |-> SigningKey(Other(p))]
Pinned == [Peers -> {NoPin, EmptyPin, right}]
Setup(pins_, expects, faults_) == [pin : pins_, expect : expects, faults : faults_]

\* The keys the app may ask for: the other peer's, somebody else's, and the
\* one of an RSA certificate, which signs no tokens.
Keys(p) == {None, SigningKey(Other(p)), SigningKey("X"), Key(Other(p), "rsa-pss")}
SomeKeys == {k \in [Peers -> UNION {Keys(p) : p \in Peers}] : \A p \in Peers : k[p] \in Keys(p)}

\* Every combination of PINs: with all faults, and without any; every
\* combination of keys.
AllSetups ==
    Setup(Pinned, {RightKeys}, {{}, {"giveUp", "netFail", "selectNone"}})
    \cup Setup({[p \in Peers |-> right]}, SomeKeys, {{}})
    \cup Setup({[p \in Peers |-> NoPin]}, {Anyone}, {{"netFail"}})

PlainSetup == Setup({[p \in Peers |-> NoPin]}, {Anyone}, {{}})
=============================================================================
