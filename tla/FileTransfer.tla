---------------------------- MODULE FileTransfer ----------------------------
(***************************************************************************)
(* What a file transfer promises its two users, without messages, chunks,  *)
(* nonces and tasks.  Each user may have set a lock, their PIN, which the  *)
(* other one opens, and may insist on a certain key.  Then the receiver is *)
(* shown the list of files and chooses from it once.  The sender hands     *)
(* over chosen files one after the other, each of them once, and produces  *)
(* the content of the one at hand.  What has arrived of a file is the      *)
(* beginning of its content and never more than was produced; the receiver *)
(* reports on a file once, when the sender is through with it and all that *)
(* was produced has arrived, and nothing arrives of that file afterwards.  *)
(* A transfer may stop anywhere.                                           *)
(*                                                                         *)
(* RtcTransfer implements this specification.                              *)
(***************************************************************************)
EXTENDS Naturals, Sequences

CONSTANTS
    Users,      \* the sender's and the receiver's
    Files,      \* files the sender offers
    Size,       \* Size[f]: units of content of f
    Eligible,   \* sets of files that may be chosen
    None        \* no file

VARIABLES
    locks,      \* users whose PIN has not been typed yet
    trusted,    \* each has the key that the other one insists on
    listed,     \* the receiver has been shown the list
    chosen,     \* files the receiver has chosen
    handed,     \* those the sender has handed over
    atHand,     \* the one of them that is being produced, or None
    produced,   \* produced[f]: units of f the sender has produced
    arrived,    \* arrived[f]: content of f that has arrived
    report      \* report[f]: "none", or what the receiver reported

transferVars == <<locks, trusted, listed, chosen, handed, atHand, produced, arrived, report>>

\* The first n units of f.
Beginning(f, n) == [i \in 1..n |-> <<f, i>>]

TransferInit ==
    /\ locks \subseteq Users /\ trusted \in BOOLEAN /\ listed = FALSE
    /\ chosen = {} /\ handed = {} /\ atHand = None
    /\ produced = [f \in Files |-> 0]
    /\ arrived = [f \in Files |-> <<>>]
    /\ report = [f \in Files |-> "none"]

\* The PIN of u is typed.
Unlock(u) ==
    /\ locks' = locks \ {u}
    /\ UNCHANGED <<trusted, listed, chosen, handed, atHand, produced, arrived, report>>

ShowList ==
    /\ locks = {} /\ trusted
    /\ listed' = TRUE
    /\ UNCHANGED <<locks, trusted, chosen, handed, atHand, produced, arrived, report>>

Choose ==
    /\ listed /\ chosen = {} /\ handed = {}
    /\ chosen' \in Eligible
    /\ UNCHANGED <<locks, trusted, listed, handed, atHand, produced, arrived, report>>

\* A file is given to the sender, who may fail to begin with it.
HandOver(f) ==
    /\ atHand = None
    /\ f \in chosen \ handed
    /\ handed' = handed \cup {f}
    /\ atHand' \in {f, None}
    /\ UNCHANGED <<locks, trusted, listed, chosen, produced, arrived, report>>

\* The file at hand is read up to n units, perhaps for the last time.
Produce(f, n) ==
    /\ atHand = f /\ f \in handed
    /\ n > produced[f]
    /\ produced' = [produced EXCEPT ![f] = n]
    /\ atHand' \in {f, None}
    /\ UNCHANGED <<locks, trusted, listed, chosen, handed, arrived, report>>

PutAway ==
    /\ atHand' = None
    /\ UNCHANGED <<locks, trusted, listed, chosen, handed, produced, arrived, report>>

\* More of a file arrives, n units in all.
Deliver(f, n) ==
    /\ f \in handed /\ report[f] = "none"
    /\ Len(arrived[f]) < n /\ n <= produced[f]
    /\ arrived' = [arrived EXCEPT ![f] = Beginning(f, n)]
    /\ UNCHANGED <<locks, trusted, listed, chosen, handed, atHand, produced, report>>

Report(f, r) ==
    /\ f \in handed /\ f # atHand /\ report[f] = "none"
    /\ Len(arrived[f]) = produced[f]
    /\ report' = [report EXCEPT ![f] = r]
    /\ UNCHANGED <<locks, trusted, listed, chosen, handed, atHand, produced, arrived>>

TransferNext ==
    \/ \E u \in Users : Unlock(u)
    \/ ShowList \/ Choose \/ PutAway
    \/ \E f \in Files :
          \/ HandOver(f)
          \/ \E n \in 0..Size[f] : Produce(f, n) \/ Deliver(f, n)
          \/ \E r \in {"success", "failure"} : Report(f, r)

TransferSpec == TransferInit /\ [][TransferNext]_transferVars
=============================================================================
