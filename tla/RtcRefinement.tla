--------------------------- MODULE RtcRefinement ---------------------------
(***************************************************************************)
(* The transfer over a data channel does what a transfer promises.  A PIN  *)
(* is a lock until it has been typed at the other peer; the list has been  *)
(* shown when the receiver's app was told Connected; a file is handed over *)
(* when the sender's app gave one that it holds a token for; what has      *)
(* arrived is what the receiver passed on to its app.                      *)
(***************************************************************************)
EXTENDS RtcTransfer

\* The peers whose PIN is still to be typed, and whether the keys are right.
Locked == {p \in Peers : ~Unlocked(p)}
KeysRight == \A p \in Peers : expect[p] \in {None, SigningKey(Other(p))}

\* The receiver's app has been given the list.
Listed == "Connected" \in told["R"]

\* The files that the sender was given and accepts: others are skipped.
Accepted == given \cap fileMap

Transfer == INSTANCE FileTransfer WITH
                Users <- Peers,
                Eligible <- Selections,
                locks <- Locked,
                trusted <- KeysRight,
                listed <- Listed,
                chosen <- selected,
                handed <- Accepted,
                atHand <- cur,
                produced <- read,
                arrived <- got,
                report <- answer

\* Although neither the content nor its end names a file and everything is cut into
\* chunks, and whatever is lost or given up, each step of the two peers is one that
\* FileTransfer allows or that its users do not see (webrtc.rs:173-625, 627-1048).
ImplementsTransfer == Transfer!TransferSpec
=============================================================================
