------------------------- MODULE RtcTransferProofs -------------------------
(***************************************************************************)
(* What a transfer over a data channel guarantees for any files, PINs,     *)
(* keys, numbers of tries and sizes of chunks, whatever the apps do and    *)
(* whenever the connection is lost: who sees the file list has typed the   *)
(* PIN and holds the key that was asked for.  With what the verification   *)
(* of tokens accepts.                                                      *)
(***************************************************************************)
EXTENDS RtcTransfer, SequenceTheorems, TLAPS

----------------------------------------------------------------------------
(* Messages *)

GS == generate_nonce("S")
GR == generate_nonce("R")
Full == Concat(GS, GR)

\* A part of a string or of a file.
Unit == (Strings \cup Files) \X Nat

Responses ==
    [result : {"ok", "pinRequired", "invalidSignature"}, token : {None, Token("R", Full)}]

\* The messages of the protocol.
Msg ==
    [k : {"nonce"}, v : {GS, GR}, data : {<<>>}]
        \cup [k : {"token"}, v : {Token("S", Full)}, data : {<<>>}]
        \cup [k : {"tokenRes"}, v : Responses, data : {<<>>}]
        \cup [k : {"pin"}, v : Guesses, data : {<<>>}]
        \cup [k : {"pinRes"}, v : {"ok", "pinRequired", "tooMany"}, data : {<<>>}]
        \cup [k : {"header", "success", "failure"}, v : Files, data : {<<>>}]
        \cup [k : {"delimiter"}, v : {None}, data : {<<>>}]
        \cup [k : {"bin"}, v : {None}, data : Seq(Unit)]

Outcomes == {"none", "send", "completed", "parse", "rejected", "untrusted", "tooMany",
             "noPin", "app", "unexpected"}

\* The variables of the two tasks have their types.
TaskTypes ==
    /\ [pin |-> pin, expect |-> expect, faults |-> faults] \in Scenarios
    /\ nonce \in [Peers -> {None, GS, Full}]
    /\ pc \in [Peers -> SPcs \cup RPcs]
    /\ pc["S"] \in SPcs /\ pc["R"] \in RPcs
    /\ q \in [Peers -> Seq(Msg)]
    /\ buf \in [Peers -> Seq(Unit)]
    /\ tries \in [Peers -> Nat]
    /\ typed \in [Peers -> SUBSET Guesses]
    /\ end \in [Peers -> {"running", "finished", "failed"}]
    /\ told \in [Peers -> SUBSET Statuses]
    /\ outcome \in [Peers -> Outcomes]

\* The variables of the file loops have their types.
FileTypes ==
    /\ fileMap \subseteq Files /\ given \subseteq Files /\ selected \subseteq Files
    /\ cur \in Files \cup {None} /\ open \in Files \cup {None}
    /\ read \in [Files -> Nat]
    /\ sbuf \in Seq(Unit)
    /\ fileErrors \subseteq Files \cup {None}
    /\ answer \in [Files -> {"none", "success", "failure"}]

----------------------------------------------------------------------------
(* Keys and PINs *)

\* The app of p asked for no key or for the one the other peer has.
KeyOk(p) == expect[p] \in {None, SigningKey(Other(p))}

\* Everything that PinGate asks for.
AllOpen == Unlocked("S") /\ Unlocked("R") /\ KeyOk("S") /\ KeyOk("R")

\* Parts of the file list are around only when the gate is open.
UnitsOk(s) == \A i \in DOMAIN s : (s[i][1] \in Strings /\ s[i][1].k = "list") => AllOpen

\* The receiver rejects only another key than the one it asked for.
ResponseOk(r) ==
    IF r.result = "invalidSignature"
    THEN expect["R"] # SigningKey("S")
    ELSE r.token = Token("R", Full) /\ KeyOk("R") /\ (r.result = "ok" => pin["R"] = NoPin)

\* What a message on its way to p tells.
ToOk(p, m) ==
    /\ m.k = "nonce" => m.v = generate_nonce(Other(p))
    /\ m.k = "tokenRes" => ResponseOk(m.v)
    /\ m.k = "pin" => m.v \in typed[Other(p)]
    /\ m.k = "pinRes" /\ m.v = "ok" => Unlocked("R")
    /\ UnitsOk(m.data)

\* What the control point s and the nonce n of p tell.
ControlOk(p, s, n) ==
    IF p = "S"
    THEN /\ s = "nonce" => n = GS
         /\ s \notin {"start", "nonce", "dead"} => n = Full
         /\ s \notin {"start", "nonce", "token", "dead"} => KeyOk("S") /\ KeyOk("R")
         /\ s \in {"verify", "selection", "sending", "status"} => Unlocked("R")
         /\ s \in {"selection", "sending", "status"} => Unlocked("S")
    ELSE s \notin {"nonce", "dead"} => n = Full

\* How the task of p may have returned.
OutcomeOk(p, w) ==
    /\ w = "untrusted" => expect[p] # SigningKey(Other(p))
    /\ w = "rejected" => expect[Other(p)] # SigningKey(p)

\* What the app of a peer may have been told.
ToldOk(sts) == "Connected" \in sts => AllOpen

GateInv ==
    \A p \in Peers :
        /\ ControlOk(p, pc[p], nonce[p])
        /\ \A i \in DOMAIN q[p] : ToOk(p, q[p][i])
        /\ UnitsOk(buf[p])
        /\ OutcomeOk(p, outcome[p])
        /\ ToldOk(told[p])

\* A peer that waits for a PIN has tries left.
TriesInv ==
    \A p \in Peers : tries[p] <= MaxTries /\ (pc[p] = "verify" => tries[p] < MaxTries)

AllInv == TaskTypes /\ FileTypes /\ GateInv /\ TriesInv

----------------------------------------------------------------------------
(* Sequences *)

\* Every element of t is an element of s.
From(t, s) == \A i \in DOMAIN t : \E j \in DOMAIN s : t[i] = s[j]

\* A part of a sequence.
LEMMA PartOf ==
    ASSUME NEW S, NEW s \in Seq(S), NEW m \in Nat \ {0}, NEW n \in Nat, n <= Len(s)
    PROVE  SubSeq(s, m, n) \in Seq(S) /\ From(SubSeq(s, m, n), s)
<1> DEFINE t == SubSeq(s, m, n)
<1>1. CASE m <= n
  <2>1. t \in Seq(S) /\ Len(t) = n - m + 1 /\ \A i \in 1 .. (n - m + 1) : t[i] = s[m + i - 1]
    BY <1>1
  <2>2. DOMAIN t = 1 .. (n - m + 1) /\ DOMAIN s = 1 .. Len(s)
    BY <2>1
  <2>3. \A i \in 1 .. (n - m + 1) : m + i - 1 \in 1 .. Len(s)
    BY <1>1
  <2> QED BY <2>1, <2>2, <2>3 DEF From
<1>2. CASE m > n
  <2>1. t = <<>>
    BY <1>2
  <2> QED BY <2>1 DEF From
<1> QED BY <1>1, <1>2

\* The empty sequence.
LEMMA FromEmpty == ASSUME NEW S, NEW s PROVE <<>> \in Seq(S) /\ From(<<>>, s)
  BY DEF From

\* A sequence is part of itself.
LEMMA FromSame == ASSUME NEW s PROVE From(s, s)
  BY DEF From

\* Parts of parts.
LEMMA FromTrans == ASSUME NEW r, NEW s, NEW t, From(r, s), From(s, t) PROVE From(r, t)
  BY DEF From

\* What is appended goes behind.
LEMMA FromLonger ==
    ASSUME NEW S, NEW s \in Seq(S), NEW t \in Seq(S)
    PROVE  /\ s \o t \in Seq(S) /\ From(s, s \o t)
           /\ \A i \in DOMAIN (s \o t) : (\E j \in DOMAIN s : (s \o t)[i] = s[j])
                                         \/ (\E j \in DOMAIN t : (s \o t)[i] = t[j])
<1> DEFINE r == s \o t
<1>1. /\ r \in Seq(S) /\ Len(r) = Len(s) + Len(t) /\ Len(s) \in Nat /\ Len(t) \in Nat
      /\ \A i \in 1 .. Len(s) : r[i] = s[i]
      /\ \A i \in (Len(s) + 1) .. (Len(s) + Len(t)) : r[i] = t[i - Len(s)]
  OBVIOUS
<1>2. DOMAIN r = 1 .. (Len(s) + Len(t)) /\ DOMAIN s = 1 .. Len(s) /\ DOMAIN t = 1 .. Len(t)
  BY <1>1
<1> HIDE DEF r
<1>3. From(s, r)
  BY <1>1, <1>2 DEF From
<1>4. ASSUME NEW i \in DOMAIN r
      PROVE  (\E j \in DOMAIN s : r[i] = s[j]) \/ (\E j \in DOMAIN t : r[i] = t[j])
  <2>1. CASE i <= Len(s)
    BY <1>1, <1>2, <2>1
  <2>2. CASE i > Len(s)
    <3>1. i - Len(s) \in DOMAIN t /\ r[i] = t[i - Len(s)]
      BY <1>1, <1>2, <2>2
    <3> QED BY <3>1
  <2> QED BY <1>1, <1>2, <2>1, <2>2
<1> QED BY <1>1, <1>3, <1>4 DEF r

----------------------------------------------------------------------------
(* Steps of a task *)

\* The task of p takes messages or not, sends some of msgs, reports some of sts
\* and goes to one of nexts, or returns as one of whys.
Moved(p, msgs, sts, nexts, whys) ==
    /\ q' \in [Peers -> Seq(Msg)]
    /\ From(q'[p], q[p])
    /\ From(q'[Other(p)], q[Other(p)] \o msgs)
    /\ pc' = [pc EXCEPT ![p] = pc'[p]] /\ pc'[p] \in nexts
    /\ told' = [told EXCEPT ![p] = told'[p]]
    /\ told'[p] \subseteq told[p] \cup sts \cup {"Error", "Finished"}
    /\ outcome' = [outcome EXCEPT ![p] = outcome'[p]] /\ outcome'[p] \in {outcome[p]} \cup whys
    /\ end' \in [Peers -> {"running", "finished", "failed"}]

\* The two peers.
LEMMA PeersAre ==
    ASSUME NEW p \in Peers
    PROVE  Other(p) \in Peers /\ Other(p) # p /\ Peers = {p, Other(p)} /\ Other(Other(p)) = p
  BY DEF Peers, Other

\* What is queued for the other peer is what was queued and what is sent.
LEMMA SentType ==
    ASSUME TaskTypes, NEW p \in Peers, NEW msgs \in Seq(Msg)
    PROVE  Sent(p, msgs) \in Seq(Msg) /\ From(Sent(p, msgs), q[Other(p)] \o msgs)
<1>1. q[Other(p)] \in Seq(Msg)
  BY PeersAre DEF TaskTypes
<1>2. /\ q[Other(p)] \o msgs \in Seq(Msg)
      /\ From(q[Other(p)], q[Other(p)] \o msgs)
      /\ From(q[Other(p)] \o msgs, q[Other(p)] \o msgs)
  BY <1>1, FromLonger, FromSame
<1> QED BY <1>1, <1>2 DEF Sent

\* Two queues that are replaced.
LEMMA QueuesType ==
    ASSUME TaskTypes, NEW p \in Peers, NEW s \in Seq(Msg), NEW t \in Seq(Msg),
           q' = [q EXCEPT ![p] = s, ![Other(p)] = t]
    PROVE  q' \in [Peers -> Seq(Msg)] /\ q'[p] = s /\ q'[Other(p)] = t
  BY PeersAre DEF TaskTypes

\* A task that returns an error.
LEMMA FailMoves ==
    ASSUME TaskTypes, NEW p \in Peers, NEW msgs \in Seq(Msg), NEW sts, NEW why,
           Fail(p, msgs, sts, why)
    PROVE  Moved(p, msgs, sts, {"dead"}, {why})
<1>1. Sent(p, msgs) \in Seq(Msg) /\ From(Sent(p, msgs), q[Other(p)] \o msgs)
  BY SentType
<1>2. q' \in [Peers -> Seq(Msg)] /\ q'[p] = <<>> /\ q'[Other(p)] = Sent(p, msgs)
  <2>1. <<>> \in Seq(Msg) /\ q' = [q EXCEPT ![p] = <<>>, ![Other(p)] = Sent(p, msgs)]
    BY FromEmpty DEF Fail
  <2> QED BY <1>1, <2>1, QueuesType
<1>3. pc' = [pc EXCEPT ![p] = pc'[p]] /\ pc'[p] = "dead"
  BY DEF Fail, TaskTypes
<1>4. /\ told' = [told EXCEPT ![p] = told'[p]]
      /\ told'[p] \subseteq told[p] \cup sts \cup {"Error", "Finished"}
  BY DEF Fail, TaskTypes
<1>5. outcome' = [outcome EXCEPT ![p] = outcome'[p]] /\ outcome'[p] = why
  BY DEF Fail, TaskTypes
<1>6. end' \in [Peers -> {"running", "finished", "failed"}]
  BY DEF Fail, TaskTypes
<1> QED BY <1>1, <1>2, <1>3, <1>4, <1>5, <1>6, FromEmpty DEF Moved

\* A send that fails.
LEMMA SendFails ==
    ASSUME TaskTypes, NEW p \in Peers, NEW msgs \in Seq(Msg), NEW sts, Fail(p, <<>>, sts, "send"),
           NEW nexts, "dead" \in nexts, NEW whys, "send" \in whys
    PROVE  Moved(p, msgs, sts, nexts, whys)
<1>1. Moved(p, <<>>, sts, {"dead"}, {"send"})
  BY FailMoves, FromEmpty
<1>2. From(q[Other(p)] \o <<>>, q[Other(p)] \o msgs)
  <2>1. q[Other(p)] \in Seq(Msg)
    BY PeersAre DEF TaskTypes
  <2>2. q[Other(p)] \o <<>> = q[Other(p)]
    BY <2>1
  <2>3. From(q[Other(p)], q[Other(p)] \o msgs)
    BY <2>1, FromLonger
  <2>4. \A r : r = q[Other(p)] => From(r, q[Other(p)] \o msgs)
    BY <2>3
  <2> QED BY <2>2, <2>4
<1>3. From(q'[Other(p)], q[Other(p)] \o msgs)
  BY <1>1, <1>2, FromTrans DEF Moved
<1> QED BY <1>1, <1>3 DEF Moved

\* A task that goes on.
LEMMA ProceedMoves ==
    ASSUME TaskTypes, NEW p \in Peers, NEW n \in Nat, NEW msgs \in Seq(Msg), NEW sts, NEW next,
           Proceed(p, n, msgs, sts, next)
    PROVE  Moved(p, msgs, sts, {next, "dead"}, {"send"})
<1>1. CASE Fail(p, <<>>, sts, "send")
  BY <1>1, SendFails
<1>2. CASE /\ pc' = [pc EXCEPT ![p] = next]
           /\ q' = [q EXCEPT ![p] = SubSeq(q[p], n + 1, Len(q[p])), ![Other(p)] = Sent(p, msgs)]
           /\ told' = [told EXCEPT ![p] = told[p] \cup sts]
           /\ UNCHANGED <<end, outcome>>
  <2>1. Sent(p, msgs) \in Seq(Msg) /\ From(Sent(p, msgs), q[Other(p)] \o msgs)
    BY SentType
  <2>2. q[p] \in Seq(Msg) /\ Len(q[p]) \in Nat /\ n + 1 \in Nat \ {0}
    BY DEF TaskTypes
  <2>3. SubSeq(q[p], n + 1, Len(q[p])) \in Seq(Msg) /\ From(SubSeq(q[p], n + 1, Len(q[p])), q[p])
    BY <2>2, PartOf
  <2>4. /\ q' \in [Peers -> Seq(Msg)] /\ q'[p] = SubSeq(q[p], n + 1, Len(q[p]))
        /\ q'[Other(p)] = Sent(p, msgs)
    BY <1>2, <2>1, <2>3, QueuesType
  <2>5. /\ pc' = [pc EXCEPT ![p] = pc'[p]] /\ pc'[p] = next
        /\ told' = [told EXCEPT ![p] = told'[p]] /\ told'[p] = told[p] \cup sts
        /\ outcome' = [outcome EXCEPT ![p] = outcome'[p]] /\ outcome'[p] = outcome[p]
        /\ end' \in [Peers -> {"running", "finished", "failed"}]
    BY <1>2 DEF TaskTypes
  <2> QED BY <2>1, <2>3, <2>4, <2>5 DEF Moved
<1> QED BY <1>1, <1>2 DEF Proceed

\* A task that is done.
LEMMA CompleteMoves ==
    ASSUME TaskTypes, NEW p \in Peers, NEW msgs \in Seq(Msg), NEW sts, Complete(p, msgs, sts)
    PROVE  Moved(p, msgs, sts, {"dead"}, {"send", "completed"})
<1>1. CASE Fail(p, <<>>, sts, "send")
  BY <1>1, SendFails
<1>2. CASE /\ pc' = [pc EXCEPT ![p] = "dead"]
           /\ told' = [told EXCEPT ![p] =
                          told[p] \cup sts \cup (IF Running(p) THEN {"Finished"} ELSE {})]
           /\ end' = [end EXCEPT ![p] = "finished"]
           /\ \E n \in 0..Len(Sent(p, msgs)) :
                 q' = [q EXCEPT ![p] = <<>>, ![Other(p)] = SubSeq(Sent(p, msgs), 1, n)]
           /\ outcome' = [outcome EXCEPT ![p] = "completed"]
  <2>1. Sent(p, msgs) \in Seq(Msg) /\ From(Sent(p, msgs), q[Other(p)] \o msgs)
    BY SentType
  <2>2. PICK n \in 0..Len(Sent(p, msgs)) :
               q' = [q EXCEPT ![p] = <<>>, ![Other(p)] = SubSeq(Sent(p, msgs), 1, n)]
    BY <1>2
  <2>3. n \in Nat /\ n <= Len(Sent(p, msgs))
    BY <2>1, <2>2
  <2>4. /\ SubSeq(Sent(p, msgs), 1, n) \in Seq(Msg)
        /\ From(SubSeq(Sent(p, msgs), 1, n), Sent(p, msgs))
    BY <2>1, <2>3, PartOf
  <2>5. From(SubSeq(Sent(p, msgs), 1, n), q[Other(p)] \o msgs)
    BY <2>1, <2>4, FromTrans
  <2>6. q' \in [Peers -> Seq(Msg)] /\ q'[p] = <<>> /\ q'[Other(p)] = SubSeq(Sent(p, msgs), 1, n)
    BY <2>2, <2>4, FromEmpty, QueuesType
  <2>7. /\ pc' = [pc EXCEPT ![p] = pc'[p]] /\ pc'[p] = "dead"
        /\ told' = [told EXCEPT ![p] = told'[p]]
        /\ told'[p] \subseteq told[p] \cup sts \cup {"Error", "Finished"}
        /\ outcome' = [outcome EXCEPT ![p] = outcome'[p]] /\ outcome'[p] = "completed"
        /\ end' \in [Peers -> {"running", "finished", "failed"}]
    BY <1>2 DEF TaskTypes
  <2> QED BY <2>5, <2>6, <2>7, FromEmpty DEF Moved
<1> QED BY <1>1, <1>2 DEF Complete

\* A write of the file loop.
LEMMA WriteMoves ==
    ASSUME TaskTypes, NEW msgs \in Seq(Msg), Write(msgs)
    PROVE  Moved("S", msgs, {}, {pc["S"]}, {})
<1>1. "S" \in Peers /\ Other("S") = "R" /\ "R" \in Peers
  BY DEF Peers, Other
<1>2. Sent("S", msgs) \in Seq(Msg) /\ From(Sent("S", msgs), q["R"] \o msgs)
  BY <1>1, SentType
<1>3. q' \in [Peers -> Seq(Msg)] /\ q'["S"] = q["S"] /\ q'["R"] = Sent("S", msgs)
  BY <1>1, <1>2 DEF Write, TaskTypes
<1>4. /\ pc' = [pc EXCEPT !["S"] = pc'["S"]] /\ pc'["S"] = pc["S"]
      /\ told' = [told EXCEPT !["S"] = told'["S"]] /\ told'["S"] = told["S"]
      /\ outcome' = [outcome EXCEPT !["S"] = outcome'["S"]] /\ outcome'["S"] = outcome["S"]
      /\ end' \in [Peers -> {"running", "finished", "failed"}]
  BY <1>1 DEF Write, TaskTypes
<1> QED BY <1>1, <1>2, <1>3, <1>4, FromSame DEF Moved

----------------------------------------------------------------------------
(* What stays true *)

\* PINs are typed and never forgotten, and nobody is configured anew.
Grows == UNCHANGED config /\ \A p \in Peers : typed[p] \subseteq typed'[p]

\* What a message, a control point or an outcome tells stays true.
LEMMA Stable ==
    ASSUME Grows
    PROVE  /\ AllOpen => AllOpen'
           /\ \A p \in Peers : Unlocked(p) => Unlocked(p)'
           /\ \A p \in Peers : KeyOk(p) <=> KeyOk(p)'
           /\ \A s : UnitsOk(s) => UnitsOk(s)'
           /\ \A r : ResponseOk(r) => ResponseOk(r)'
           /\ \A p \in Peers : \A m : ToOk(p, m) => ToOk(p, m)'
           /\ \A p \in Peers : \A s, n : ControlOk(p, s, n) => ControlOk(p, s, n)'
           /\ \A p \in Peers : \A w : OutcomeOk(p, w) => OutcomeOk(p, w)'
           /\ \A sts : ToldOk(sts) => ToldOk(sts)'
<1>0. UNCHANGED <<pin, expect>> /\ \A p \in Peers : typed[p] \subseteq typed'[p]
  BY DEF Grows, config
<1>1. "S" \in Peers /\ "R" \in Peers /\ \A p \in Peers : Other(p) \in Peers
  BY PeersAre DEF Peers
<1>2. \A p \in Peers : Unlocked(p) => Unlocked(p)'
  BY <1>0, <1>1 DEF Unlocked
<1>3. \A p \in Peers : KeyOk(p) <=> KeyOk(p)'
  BY <1>0 DEF KeyOk
<1>4. AllOpen => AllOpen'
  BY <1>1, <1>2, <1>3 DEF AllOpen
<1>5. \A s : UnitsOk(s) => UnitsOk(s)'
  BY <1>4 DEF UnitsOk
<1>6. \A r : ResponseOk(r) => ResponseOk(r)'
  BY <1>0, <1>1, <1>3 DEF ResponseOk
<1>7. \A p \in Peers : \A m : ToOk(p, m) => ToOk(p, m)'
  BY <1>0, <1>1, <1>2, <1>5, <1>6 DEF ToOk
<1>8. \A p \in Peers : \A s, n : ControlOk(p, s, n) => ControlOk(p, s, n)'
  BY <1>1, <1>2, <1>3 DEF ControlOk
<1>9. \A p \in Peers : \A w : OutcomeOk(p, w) => OutcomeOk(p, w)'
  BY <1>0 DEF OutcomeOk
<1>10. \A sts : ToldOk(sts) => ToldOk(sts)'
  BY <1>4 DEF ToldOk
<1> QED BY <1>2, <1>3, <1>4, <1>5, <1>6, <1>7, <1>8, <1>9, <1>10

\* A step of a task that sends, reports and returns what it may keeps the gate.
LEMMA GateKept ==
    ASSUME TaskTypes, GateInv, Grows, NEW p \in Peers, NEW msgs \in Seq(Msg), NEW sts, NEW nexts,
           NEW whys, Moved(p, msgs, sts, nexts, whys),
           NEW n, nonce' = [nonce EXCEPT ![p] = n],
           NEW b, buf' = [buf EXCEPT ![p] = b], UnitsOk(b),
           \A i \in DOMAIN msgs : ToOk(Other(p), msgs[i])',
           \A s \in nexts : ControlOk(p, s, n),
           \A w \in whys : OutcomeOk(p, w),
           ToldOk(sts)
    PROVE  GateInv'
<1> USE DEF Moved
<1>0. Other(p) \in Peers /\ Other(p) # p /\ Peers = {p, Other(p)}
  BY PeersAre
<1>1. /\ pc'[Other(p)] = pc[Other(p)] /\ nonce'[Other(p)] = nonce[Other(p)] /\ nonce'[p] = n
      /\ buf'[Other(p)] = buf[Other(p)] /\ buf'[p] = b
      /\ told'[Other(p)] = told[Other(p)] /\ outcome'[Other(p)] = outcome[Other(p)]
      /\ q[p] \in Seq(Msg) /\ q[Other(p)] \in Seq(Msg)
  BY <1>0 DEF TaskTypes
<1>2. \A i \in DOMAIN q'[p] : \A m : m = q'[p][i] => ToOk(p, m)'
  <2> SUFFICES ASSUME NEW i \in DOMAIN q'[p], NEW m, m = q'[p][i] PROVE ToOk(p, m)'
    OBVIOUS
  <2>1. PICK j \in DOMAIN q[p] : m = q[p][j]
    BY DEF From
  <2>2. ToOk(p, m)
    BY <2>1 DEF GateInv
  <2> QED BY <2>2, Stable
<1>3. \A i \in DOMAIN q'[Other(p)] : \A m : m = q'[Other(p)][i] => ToOk(Other(p), m)'
  <2> SUFFICES ASSUME NEW i \in DOMAIN q'[Other(p)], NEW m, m = q'[Other(p)][i]
               PROVE  ToOk(Other(p), m)'
    OBVIOUS
  <2>1. PICK j \in DOMAIN (q[Other(p)] \o msgs) : m = (q[Other(p)] \o msgs)[j]
    BY DEF From
  <2>3. (\E k \in DOMAIN q[Other(p)] : m = q[Other(p)][k]) \/ (\E k \in DOMAIN msgs : m = msgs[k])
    BY <1>1, <2>1, FromLonger
  <2>4. ASSUME NEW k \in DOMAIN q[Other(p)], m = q[Other(p)][k] PROVE ToOk(Other(p), m)'
    <3>1. ToOk(Other(p), m)
      BY <1>0, <2>4 DEF GateInv
    <3> QED BY <1>0, <3>1, Stable
  <2>5. ASSUME NEW k \in DOMAIN msgs, m = msgs[k] PROVE ToOk(Other(p), m)'
    BY <2>5
  <2> QED BY <2>3, <2>4, <2>5
<1>4. \A s : s = pc'[p] => ControlOk(p, s, n)'
  BY Stable
<1>5. \A s, m : s = pc[Other(p)] /\ m = nonce[Other(p)] => ControlOk(Other(p), s, m)'
  <2>1. ControlOk(Other(p), pc[Other(p)], nonce[Other(p)])
    BY <1>0 DEF GateInv
  <2> QED BY <1>0, <2>1, Stable
<1>6. UnitsOk(b)' /\ \A u : u = buf[Other(p)] => UnitsOk(u)'
  <2>1. UnitsOk(buf[Other(p)])
    BY <1>0 DEF GateInv
  <2> QED BY <2>1, Stable
<1>7. \A t : t = told'[p] => ToldOk(t)'
  <2>1. ToldOk(told[p])
    BY DEF GateInv
  <2>2. "Connected" \in told'[p] => AllOpen
    BY <2>1 DEF ToldOk
  <2>3. "Connected" \in told'[p] => AllOpen'
    BY <2>2, Stable
  <2> QED BY <2>3 DEF ToldOk
<1>8. \A t : t = told[Other(p)] => ToldOk(t)'
  <2>1. ToldOk(told[Other(p)])
    BY <1>0 DEF GateInv
  <2> QED BY <2>1, Stable
<1>9. \A w : w = outcome'[p] => OutcomeOk(p, w)'
  <2>1. OutcomeOk(p, outcome[p])
    BY DEF GateInv
  <2>2. \A w : w = outcome'[p] => OutcomeOk(p, w)
    BY <2>1
  <2> QED BY <2>2, Stable
<1>10. \A w : w = outcome[Other(p)] => OutcomeOk(Other(p), w)'
  <2>1. OutcomeOk(Other(p), outcome[Other(p)])
    BY <1>0 DEF GateInv
  <2> QED BY <1>0, <2>1, Stable
<1>11. /\ ControlOk(p, pc[p], nonce[p])' /\ UnitsOk(buf[p])' /\ OutcomeOk(p, outcome[p])'
       /\ ToldOk(told[p])' /\ \A i \in DOMAIN q'[p] : ToOk(p, q[p][i])'
  BY <1>1, <1>2, <1>4, <1>6, <1>7, <1>9
<1>12. /\ ControlOk(Other(p), pc[Other(p)], nonce[Other(p)])' /\ UnitsOk(buf[Other(p)])'
       /\ OutcomeOk(Other(p), outcome[Other(p)])' /\ ToldOk(told[Other(p)])'
       /\ \A i \in DOMAIN q'[Other(p)] : ToOk(Other(p), q[Other(p)][i])'
  BY <1>1, <1>3, <1>5, <1>6, <1>8, <1>10
<1> QED BY <1>0, <1>11, <1>12 DEF GateInv

----------------------------------------------------------------------------
(* What is sent *)

\* Messages that may go to p.
Fine(p, msgs) == msgs \in Seq(Msg) /\ \A i \in DOMAIN msgs : ToOk(p, msgs[i])

\* No message at all.
LEMMA FineNone == ASSUME NEW p \in Peers PROVE Fine(p, <<>>)
  BY DEF Fine

\* A single message.
LEMMA FineOne == ASSUME NEW p \in Peers, NEW m \in Msg, ToOk(p, m) PROVE Fine(p, <<m>>)
  BY DEF Fine

\* Messages after messages.
LEMMA FineBoth ==
    ASSUME NEW p \in Peers, NEW s, Fine(p, s), NEW t, Fine(p, t)
    PROVE  Fine(p, s \o t)
<1>1. s \in Seq(Msg) /\ t \in Seq(Msg)
  BY DEF Fine
<1>2. /\ s \o t \in Seq(Msg)
      /\ \A i \in DOMAIN (s \o t) : (\E j \in DOMAIN s : (s \o t)[i] = s[j])
                                    \/ (\E j \in DOMAIN t : (s \o t)[i] = t[j])
  BY <1>1, FromLonger
<1> QED BY <1>2 DEF Fine

\* A message and its type, kind by kind.
LEMMA MsgIs ==
    ASSUME NEW m \in Msg
    PROVE  /\ m.k \in Kinds /\ m.data \in Seq(Unit)
           /\ m.k = "nonce" => m.v \in {GS, GR}
           /\ m.k = "token" => m.v = Token("S", Full)
           /\ m.k = "tokenRes" => m.v \in Responses
           /\ m.k = "pin" => m.v \in Guesses
           /\ m.k = "pinRes" => m.v \in {"ok", "pinRequired", "tooMany"}
           /\ m.k = "header" => m.v \in Files
<1>1. <<>> \in Seq(Unit)
  OBVIOUS
<1>2. m.k \in Kinds
  BY DEF Msg, Kinds
<1>3. m.data \in {<<>>} \cup Seq(Unit)
  BY DEF Msg
<1> QED BY <1>1, <1>2, <1>3 DEF Msg

\* A text carries no units, and a binary message nothing else.
LEMMA TextTo ==
    ASSUME NEW p \in Peers, NEW k, NEW v, k \notin {"nonce", "tokenRes", "pin", "pinRes"}
    PROVE  ToOk(p, Text(k, v))
  BY DEF ToOk, Text, UnitsOk

\* A binary message tells what its units tell.
LEMMA BinTo ==
    ASSUME NEW p \in Peers, NEW d \in Seq(Unit), UnitsOk(d)
    PROVE  Bin(d) \in Msg /\ ToOk(p, Bin(d))
  BY DEF ToOk, Bin, Msg

\* The delimiter.
LEMMA DelimiterTo == ASSUME NEW p \in Peers PROVE Delimiter \in Msg /\ ToOk(p, Delimiter)
<1>1. Delimiter \in Msg
  BY DEF Delimiter, Text, Msg
<1> QED BY <1>1, TextTo DEF Delimiter

\* A sequence of binary messages.
LEMMA FineBins ==
    ASSUME NEW p \in Peers, NEW n \in Nat, NEW d,
           \A i \in 1..n : d[i] \in Seq(Unit) /\ UnitsOk(d[i])
    PROVE  Fine(p, [i \in 1..n |-> Bin(d[i])])
<1> DEFINE s == [i \in 1..n |-> Bin(d[i])]
<1>1. \A i \in 1..n : Bin(d[i]) \in Msg /\ ToOk(p, Bin(d[i]))
  BY BinTo
<1>2. s \in Seq(Msg) /\ DOMAIN s = 1..n
  BY <1>1, IsASeq
<1> QED BY <1>1, <1>2 DEF Fine

\* The chunks of a string, when the file list may be seen or it is another string.
LEMMA FineChunks ==
    ASSUME NEW p \in Peers, NEW s \in Strings, s.k = "list" => AllOpen
    PROVE  Fine(p, InChunks(s))
<1> DEFINE d == [i \in 1..StrChunks |-> <<<<s, i>>>>]
           t == [i \in 1..StrChunks |-> Bin(d[i])]
<1>1. StrChunks \in Nat
  BY StrChunksAssumption
<1>2. ASSUME NEW i \in 1..StrChunks PROVE d[i] \in Seq(Unit) /\ UnitsOk(d[i])
  <2>1. <<s, i>> \in Unit
    BY <1>1 DEF Unit
  <2>2. d[i] = <<<<s, i>>>>
    OBVIOUS
  <2>3. \A u : u = <<s, i>> => <<u>> \in Seq(Unit) /\ UnitsOk(<<u>>)
    BY <2>1 DEF UnitsOk
  <2> QED BY <2>2, <2>3
<1>3. t = [i \in 1..StrChunks |-> Bin(<<<<s, i>>>>)]
  OBVIOUS
<1>4. Fine(p, t)
  <2> HIDE DEF d
  <2> QED BY <1>1, <1>2, FineBins
<1>5. Fine(p, <<Delimiter>>)
  BY DelimiterTo, FineOne
<1>6. t \in Seq(Msg) /\ Delimiter \in Msg
  BY <1>4, DelimiterTo DEF Fine
<1>7. Append(t, Delimiter) = t \o <<Delimiter>>
  <2> HIDE DEF t
  <2> QED BY <1>6
<1>8. Fine(p, Append(t, Delimiter))
  <2> HIDE DEF t
  <2>1. Fine(p, t \o <<Delimiter>>)
    BY <1>4, <1>5, FineBoth
  <2> QED BY <1>7, <2>1
<1>9. InChunks(s) = Append(t, Delimiter)
  BY <1>3 DEF InChunks
<1> QED BY <1>8, <1>9

\* The strings.
LEMMA StringsAre ==
    /\ \A k \in {"pinRequired", "tooMany", "declined"} : Str(k, {}) \in Strings /\ Str(k, {}).k = k
    /\ \A k \in {"list", "ok"}, fs \in SUBSET Files : Str(k, fs) \in Strings /\ Str(k, fs).k = k
    /\ \A s \in Strings : s.files \subseteq Files
<1>1. \A k \in {"pinRequired", "tooMany", "declined"} : Str(k, {}) \in Strings
  BY DEF Strings
<1>2. \A k \in {"list", "ok"}, fs \in SUBSET Files : Str(k, fs) \in Strings
  BY DEF Strings
<1>3. \A k, fs : Str(k, fs).k = k /\ Str(k, fs).files = fs
  BY DEF Str
<1>4. \A s \in Strings : s.files \subseteq Files
  <2>1. ASSUME NEW s \in Strings PROVE \E k, fs : fs \subseteq Files /\ s = Str(k, fs)
    <3>1. CASE s \in {Str(k, {}) : k \in {"pinRequired", "tooMany", "declined"}}
      BY <3>1
    <3>2. CASE s \in {Str(k, fs) : k \in {"list", "ok"}, fs \in SUBSET Files}
      BY <3>2
    <3> QED BY <3>1, <3>2 DEF Strings
  <2> QED BY <1>3, <2>1
<1> QED BY <1>1, <1>2, <1>3, <1>4

\* The notices of verify_pin.
LEMMA FineNotice ==
    ASSUME NEW p \in Peers, NEW k \in {"pinRequired", "tooMany"}
    PROVE  Fine(Other(p), Notice(p, k))
<1>1. Other(p) \in Peers
  BY PeersAre
<1>2. CASE p = "S"
  <2>1. Str(k, {}) \in Strings /\ Str(k, {}).k # "list"
    BY StringsAre
  <2>2. Fine(Other(p), InChunks(Str(k, {})))
    BY <1>1, <2>1, FineChunks
  <2> QED BY <1>2, <2>2 DEF Notice
<1>3. CASE p # "S"
  <2>1. Text("pinRes", k) \in Msg /\ ToOk(Other(p), Text("pinRes", k))
    BY DEF Text, Msg, ToOk, UnitsOk
  <2>2. Fine(Other(p), <<Text("pinRes", k)>>)
    BY <1>1, <2>1, FineOne
  <2> QED BY <1>3, <2>2 DEF Notice
<1> QED BY <1>2, <1>3

----------------------------------------------------------------------------
(* Steps that keep the types, the gate and the bound on the tries *)

PcsOf(p) == IF p = "S" THEN SPcs ELSE RPcs

Kept == TaskTypes' /\ GateInv' /\ TriesInv'

\* What a step of p may report, where it may go and how it may return.
May(p, sts, nexts, whys, n) ==
    /\ sts \subseteq Statuses /\ ToldOk(sts)
    /\ nexts \subseteq PcsOf(p) /\ \A s \in nexts : ControlOk(p, s, n)
    /\ whys \subseteq Outcomes /\ \A w \in whys : OutcomeOk(p, w)

\* The types after a step.
LEMMA TypesKept ==
    ASSUME TaskTypes, NEW p \in Peers, NEW msgs, NEW sts, NEW nexts, NEW whys, NEW n,
           Moved(p, msgs, sts, nexts, whys), May(p, sts, nexts, whys, n),
           n \in {None, GS, Full}, nonce' = [nonce EXCEPT ![p] = n],
           NEW b \in Seq(Unit), buf' = [buf EXCEPT ![p] = b],
           UNCHANGED config, typed' \in [Peers -> SUBSET Guesses], tries' \in [Peers -> Nat]
    PROVE  TaskTypes'
<1>0. Other(p) \in Peers /\ Other(p) # p /\ Peers = {p, Other(p)}
  BY PeersAre
<1>1. ([pin |-> pin, expect |-> expect, faults |-> faults] \in Scenarios)'
  BY DEF TaskTypes, config
<1>2. nonce' \in [Peers -> {None, GS, Full}] /\ buf' \in [Peers -> Seq(Unit)]
  BY DEF TaskTypes
<1>3. pc' \in [Peers -> SPcs \cup RPcs] /\ pc'["S"] \in SPcs /\ pc'["R"] \in RPcs
  <2>1. pc'[p] \in PcsOf(p) /\ pc' = [pc EXCEPT ![p] = pc'[p]]
    BY DEF Moved, May
  <2> QED BY <2>1 DEF TaskTypes, PcsOf, Peers
<1>4. q' \in [Peers -> Seq(Msg)] /\ end' \in [Peers -> {"running", "finished", "failed"}]
  BY DEF Moved
<1>5. told' \in [Peers -> SUBSET Statuses]
  <2>1. told'[p] \subseteq told[p] \cup sts \cup {"Error", "Finished"} /\ sts \subseteq Statuses
    BY DEF Moved, May
  <2>2. told[p] \subseteq Statuses /\ {"Error", "Finished"} \subseteq Statuses
    BY DEF TaskTypes, Statuses
  <2>3. told'[p] \in SUBSET Statuses /\ told' = [told EXCEPT ![p] = told'[p]]
    BY <2>1, <2>2 DEF Moved
  <2> QED BY <2>3 DEF TaskTypes
<1>6. outcome' \in [Peers -> Outcomes]
  <2>1. outcome'[p] \in Outcomes /\ outcome' = [outcome EXCEPT ![p] = outcome'[p]]
    BY DEF Moved, May, TaskTypes
  <2> QED BY <2>1 DEF TaskTypes
<1> QED BY <1>1, <1>2, <1>3, <1>4, <1>5, <1>6 DEF TaskTypes

\* The tries after a step.
LEMMA TriesKept ==
    ASSUME TaskTypes, TriesInv, NEW p \in Peers, NEW msgs, NEW sts, NEW nexts, NEW whys,
           Moved(p, msgs, sts, nexts, whys), NEW n \in Nat, tries' = [tries EXCEPT ![p] = n],
           n <= MaxTries, "verify" \in nexts => n < MaxTries
    PROVE  tries' \in [Peers -> Nat] /\ TriesInv'
<1>0. Other(p) \in Peers /\ Other(p) # p /\ Peers = {p, Other(p)}
  BY PeersAre
<1>1. tries' \in [Peers -> Nat] /\ tries'[p] = n /\ tries'[Other(p)] = tries[Other(p)]
  BY <1>0 DEF TaskTypes
<1>2. pc'[p] \in nexts /\ pc'[Other(p)] = pc[Other(p)]
  BY <1>0 DEF Moved, TaskTypes
<1> QED BY <1>0, <1>1, <1>2 DEF TriesInv

\* A step of p that leaves it with the nonce n, the buffer b and t tries.
StepOf(p, msgs, sts, nexts, whys, n, b, t) ==
    /\ Moved(p, msgs, sts, nexts, whys) /\ May(p, sts, nexts, whys, n)
    /\ msgs \in Seq(Msg) /\ \A i \in DOMAIN msgs : ToOk(Other(p), msgs[i])'
    /\ n \in {None, GS, Full} /\ nonce' = [nonce EXCEPT ![p] = n]
    /\ b \in Seq(Unit) /\ UnitsOk(b) /\ buf' = [buf EXCEPT ![p] = b]
    /\ t \in Nat /\ t <= MaxTries /\ ("verify" \in nexts => t < MaxTries)
    /\ tries' = [tries EXCEPT ![p] = t]
    /\ Grows /\ typed' \in [Peers -> SUBSET Guesses]

\* Such a step keeps everything.
LEMMA StepKept ==
    ASSUME TaskTypes, GateInv, TriesInv, NEW p \in Peers, NEW msgs, NEW sts, NEW nexts, NEW whys,
           NEW n, NEW b, NEW t, StepOf(p, msgs, sts, nexts, whys, n, b, t)
    PROVE  Kept
<1> USE DEF StepOf
<1>1. tries' \in [Peers -> Nat] /\ TriesInv'
  BY TriesKept
<1>2. TaskTypes'
  BY <1>1, TypesKept DEF Grows
<1>3. GateInv'
  <2>1. (\A s \in nexts : ControlOk(p, s, n)) /\ (\A w \in whys : OutcomeOk(p, w)) /\ ToldOk(sts)
    BY DEF May
  <2> QED BY <2>1, GateKept
<1> QED BY <1>1, <1>2, <1>3 DEF Kept

\* A step that leaves the nonce, the PINs typed and the tries alone.
Plain(p, b) ==
    /\ UNCHANGED <<config, nonce, pins>>
    /\ b \in Seq(Unit) /\ UnitsOk(b) /\ buf' = [buf EXCEPT ![p] = b]

\* So does such a step.
LEMMA PlainKept ==
    ASSUME TaskTypes, GateInv, TriesInv, NEW p \in Peers, NEW msgs, NEW sts, NEW nexts, NEW whys,
           Moved(p, msgs, sts, nexts, whys), May(p, sts, nexts, whys, nonce[p]),
           Fine(Other(p), msgs), "verify" \notin nexts, NEW b, Plain(p, b)
    PROVE  Kept
<1>1. UNCHANGED <<typed, tries, nonce>> /\ Grows
  BY DEF pins, Grows, Plain
<1>2. nonce[p] \in {None, GS, Full} /\ nonce' = [nonce EXCEPT ![p] = nonce[p]]
  BY <1>1 DEF TaskTypes
<1>3. /\ tries[p] \in Nat /\ tries' = [tries EXCEPT ![p] = tries[p]] /\ tries[p] <= MaxTries
      /\ typed' \in [Peers -> SUBSET Guesses]
  BY <1>1 DEF TaskTypes, TriesInv
<1>4. msgs \in Seq(Msg) /\ \A i \in DOMAIN msgs : ToOk(Other(p), msgs[i])'
  BY <1>1, PeersAre, Stable DEF Fine
<1>5. StepOf(p, msgs, sts, nexts, whys, nonce[p], b, tries[p])
  BY <1>1, <1>2, <1>3, <1>4 DEF StepOf, Plain
<1> QED BY <1>5, StepKept

\* An unchanged buffer.
LEMMA PlainSame ==
    ASSUME TaskTypes, GateInv, NEW p \in Peers, UNCHANGED <<config, nonce, buf, pins>>
    PROVE  Plain(p, buf[p])
  BY DEF Plain, TaskTypes, GateInv

\* An emptied buffer.
LEMMA PlainEmpty ==
    ASSUME NEW p \in Peers, UNCHANGED <<config, nonce, pins>>, buf' = [buf EXCEPT ![p] = <<>>]
    PROVE  Plain(p, <<>>)
<1>1. UnitsOk(<<>>) /\ <<>> \in Seq(Unit)
  BY DEF UnitsOk
<1> QED BY <1>1 DEF Plain

\* A task that failed or is done is nowhere, and a failed send tells nothing.
LEMMA DeadMay ==
    ASSUME NEW p \in Peers, NEW sts, sts \subseteq Statuses, ToldOk(sts), NEW why \in Outcomes,
           OutcomeOk(p, why), NEW n
    PROVE  /\ May(p, sts, {"dead"}, {why}, n)
           /\ May(p, sts, {"dead"}, {"send", why}, n)
  BY DEF May, PcsOf, SPcs, RPcs, ControlOk, OutcomeOk, Outcomes

\* Outcomes that tell nothing.
LEMMA PlainOutcomes ==
    ASSUME NEW p \in Peers, NEW why \in Outcomes \ {"untrusted", "rejected"}
    PROVE  why \in Outcomes /\ OutcomeOk(p, why)
  BY DEF OutcomeOk

\* A task that returns an error.
LEMMA FailKept ==
    ASSUME TaskTypes, GateInv, TriesInv, NEW p \in Peers, NEW msgs, NEW sts, NEW why \in Outcomes,
           Fail(p, msgs, sts, why), Fine(Other(p), msgs), sts \subseteq Statuses, ToldOk(sts),
           OutcomeOk(p, why), NEW b, Plain(p, b)
    PROVE  Kept
<1>1. Moved(p, msgs, sts, {"dead"}, {why})
  BY FailMoves DEF Fine
<1>2. May(p, sts, {"dead"}, {why}, nonce[p])
  BY DeadMay
<1> QED BY <1>1, <1>2, PlainKept

\* A task that goes on.
LEMMA ProceedKept ==
    ASSUME TaskTypes, GateInv, TriesInv, NEW p \in Peers, NEW k \in Nat, NEW msgs, NEW sts,
           NEW next \in PcsOf(p) \ {"verify"}, Proceed(p, k, msgs, sts, next),
           ControlOk(p, next, nonce[p]), Fine(Other(p), msgs), sts \subseteq Statuses, ToldOk(sts),
           NEW b, Plain(p, b)
    PROVE  Kept
<1>1. Moved(p, msgs, sts, {next, "dead"}, {"send"})
  BY ProceedMoves DEF Fine
<1>2. May(p, sts, {next, "dead"}, {"send"}, nonce[p])
  BY DEF May, PcsOf, SPcs, RPcs, ControlOk, OutcomeOk, Outcomes
<1>3. "verify" \notin {next, "dead"}
  OBVIOUS
<1> QED BY <1>1, <1>2, <1>3, PlainKept

\* A task that is done.
LEMMA CompleteKept ==
    ASSUME TaskTypes, GateInv, TriesInv, NEW p \in Peers, NEW msgs, NEW sts, Complete(p, msgs, sts),
           Fine(Other(p), msgs), sts \subseteq Statuses, ToldOk(sts), NEW b, Plain(p, b)
    PROVE  Kept
<1>1. Moved(p, msgs, sts, {"dead"}, {"send", "completed"})
  BY CompleteMoves DEF Fine
<1>2. May(p, sts, {"dead"}, {"send", "completed"}, nonce[p])
  BY DEF May, PcsOf, SPcs, RPcs, ControlOk, OutcomeOk, Outcomes
<1> QED BY <1>1, <1>2, PlainKept

\* A write of the file loop.
LEMMA WriteKept ==
    ASSUME TaskTypes, GateInv, TriesInv, NEW msgs, Write(msgs), Fine("R", msgs), pc["S"] = "sending",
           UNCHANGED <<config, nonce, buf, pins>>
    PROVE  Kept
<1>0. "S" \in Peers /\ Other("S") = "R"
  BY DEF Peers, Other
<1>1. Moved("S", msgs, {}, {pc["S"]}, {})
  BY WriteMoves DEF Fine
<1>2. May("S", {}, {pc["S"]}, {}, nonce["S"])
  BY <1>0 DEF May, PcsOf, SPcs, GateInv, ToldOk
<1>3. Plain("S", buf["S"])
  BY <1>0, PlainSame
<1>4. "verify" \notin {pc["S"]}
  OBVIOUS
<1> QED BY <1>0, <1>1, <1>2, <1>3, <1>4, PlainKept

----------------------------------------------------------------------------
(* The actions of both tasks *)

\* What arrives is a message that tells the truth.
LEMMA ArrivedIs ==
    ASSUME TaskTypes, GateInv, NEW p \in Peers, q[p] # <<>>
    PROVE  Arrived(p) \in Msg /\ ToOk(p, Arrived(p))
<1>1. q[p] \in Seq(Msg)
  BY DEF TaskTypes
<1>2. Head(q[p]) \in Msg /\ Head(q[p]) = q[p][1] /\ 1 \in DOMAIN q[p]
  BY <1>1
<1> QED BY <1>2 DEF Arrived, GateInv

\* No status tells nothing, and these neither.
LEMMA SayNothing ==
    /\ {} \subseteq Statuses /\ ToldOk({})
    /\ \A st \in Statuses \ {"Connected"} : {st} \subseteq Statuses /\ ToldOk({st})
  BY DEF ToldOk, Statuses

\* The verdicts of verify_pin.
LEMMA Verdicts ==
    ASSUME NEW p \in Peers, NEW guess, NEW n
    PROVE  /\ Verdict(p, guess, n) = "pass" => guess = pin[p]
           /\ Verdict(p, guess, n) = "again" => ~(n >= MaxTries)
<1>1. CASE guess = pin[p]
  <2>1. Verdict(p, guess, n) = "pass"
    BY <1>1 DEF Verdict
  <2> QED BY <1>1, <2>1
<1>2. CASE guess # pin[p] /\ n >= MaxTries
  <2>1. Verdict(p, guess, n) = "tooMany"
    BY <1>2 DEF Verdict
  <2> QED BY <2>1
<1>3. CASE guess # pin[p] /\ ~(n >= MaxTries)
  <2>1. Verdict(p, guess, n) = "again"
    BY <1>3 DEF Verdict
  <2> QED BY <1>3, <2>1
<1> QED BY <1>1, <1>2, <1>3

\* What must hold for a round of verify_pin.
MayChallenge(p, guess) ==
    /\ nonce[p] = Full
    /\ guess = pin[p] => Unlocked(p)
    /\ p = "S" => KeyOk("S") /\ KeyOk("R") /\ Unlocked("R")

\* A passed challenge.
LEMMA PassMoves ==
    ASSUME TaskTypes, NEW p \in Peers, NEW msgs, NEW sts, AfterPass(p, msgs, sts),
           Fine(Other(p), msgs), sts \subseteq Statuses \ {"Connected"}, Unlocked(p), nonce[p] = Full,
           p = "S" => KeyOk("S") /\ KeyOk("R") /\ Unlocked("R")
    PROVE  \E all, say, nexts :
              /\ Moved(p, all, say, nexts, {"send"}) /\ May(p, say, nexts, {"send"}, nonce[p])
              /\ Fine(Other(p), all) /\ "verify" \notin nexts
<1>0. Other(p) \in Peers /\ Other("S") = "R" /\ 1 \in Nat /\ Peers = {"S", "R"}
  BY PeersAre DEF Peers, Other
<1>1. CASE p = "S"
  <2>1. AllOpen
    BY <1>1 DEF AllOpen
  <2>2. Str("list", Files) \in Strings
    BY StringsAre
  <2>3. Fine(Other(p), InChunks(Str("list", Files)))
    BY <1>0, <2>1, <2>2, FineChunks
  <2> DEFINE all == msgs \o InChunks(Str("list", Files))
             say == sts \cup {"Connected"}
             nexts == {"selection", "dead"}
  <2>4. Fine(Other(p), all)
    BY <1>0, <2>3, FineBoth
  <2>5. Proceed(p, 1, all, say, "selection")
    BY <1>1 DEF AfterPass
  <2>6. Moved(p, all, say, nexts, {"send"})
    <3> HIDE DEF all, say
    <3> QED BY <1>0, <2>4, <2>5, ProceedMoves DEF Fine
  <2>7. May(p, say, nexts, {"send"}, nonce[p])
    <3>1. say \subseteq Statuses /\ ToldOk(say)
      BY <2>1 DEF Statuses, ToldOk
    <3>2. \A s \in nexts : s \in PcsOf(p) /\ ControlOk(p, s, nonce[p])
      BY <1>1 DEF PcsOf, SPcs, ControlOk
    <3> QED BY <3>1, <3>2 DEF May, Outcomes, OutcomeOk
  <2>8. "verify" \notin nexts
    OBVIOUS
  <2> HIDE DEF all, say, nexts
  <2> QED BY <2>4, <2>6, <2>7, <2>8
<1>2. CASE p = "R"
  <2>1. Text("pinRes", "ok") \in Msg /\ ToOk(Other(p), Text("pinRes", "ok"))
    BY <1>2 DEF Text, Msg, ToOk, UnitsOk
  <2>2. Fine(Other(p), <<Text("pinRes", "ok")>>)
    BY <1>0, <2>1, FineOne
  <2> DEFINE all == Append(msgs, Text("pinRes", "ok"))
             nexts == {"list", "dead"}
  <2>3. all = msgs \o <<Text("pinRes", "ok")>>
    BY <2>1 DEF Fine
  <2>4. Fine(Other(p), all)
    <3>1. Fine(Other(p), msgs \o <<Text("pinRes", "ok")>>)
      BY <1>0, <2>2, FineBoth
    <3> QED BY <2>3, <3>1
  <2>5. Proceed(p, 1, all, sts, "list")
    BY <1>2 DEF AfterPass
  <2>6. Moved(p, all, sts, nexts, {"send"})
    <3> HIDE DEF all
    <3> QED BY <1>0, <2>4, <2>5, ProceedMoves DEF Fine
  <2>7. May(p, sts, nexts, {"send"}, nonce[p])
    <3>1. sts \subseteq Statuses /\ ToldOk(sts)
      BY DEF ToldOk
    <3>2. \A s \in nexts : s \in PcsOf(p) /\ ControlOk(p, s, nonce[p])
      BY <1>2 DEF PcsOf, RPcs, ControlOk
    <3> QED BY <3>1, <3>2 DEF May, Outcomes, OutcomeOk
  <2>8. "verify" \notin nexts
    OBVIOUS
  <2> HIDE DEF all, nexts
  <2> QED BY <2>4, <2>6, <2>7, <2>8
<1> QED BY <1>0, <1>1, <1>2

\* A round of verify_pin.
LEMMA ChallengeKept ==
    ASSUME TaskTypes, GateInv, TriesInv, NEW p \in Peers, NEW guess, NEW n \in Nat, n <= MaxTries,
           NEW notice, NEW msgs, NEW sts, verify_pin(p, guess, n, notice, msgs, sts),
           MayChallenge(p, guess), Fine(Other(p), msgs), sts \subseteq Statuses \ {"Connected"},
           UNCHANGED <<config, nonce, buf, typed>>
    PROVE  Kept
<1>0. Other(p) \in Peers /\ Grows
  BY PeersAre DEF Grows
<1>1. \A all : Fine(Other(p), all) =>
         all \in Seq(Msg) /\ \A i \in DOMAIN all : ToOk(Other(p), all[i])'
  BY <1>0, Stable DEF Fine
<1>2. \A all, say, nexts, whys :
         (/\ Moved(p, all, say, nexts, whys) /\ May(p, say, nexts, whys, nonce[p])
          /\ Fine(Other(p), all) /\ ("verify" \in nexts => n < MaxTries))
         => Kept
  <2> SUFFICES ASSUME NEW all, NEW say, NEW nexts, NEW whys,
                      Moved(p, all, say, nexts, whys), May(p, say, nexts, whys, nonce[p]),
                      Fine(Other(p), all), "verify" \in nexts => n < MaxTries
               PROVE  Kept
    OBVIOUS
  <2>1. /\ nonce[p] \in {None, GS, Full} /\ nonce' = [nonce EXCEPT ![p] = nonce[p]]
        /\ buf[p] \in Seq(Unit) /\ buf' = [buf EXCEPT ![p] = buf[p]]
        /\ typed' \in [Peers -> SUBSET Guesses]
    BY DEF TaskTypes
  <2>2. UnitsOk(buf[p])
    BY DEF GateInv
  <2>3. tries' = [tries EXCEPT ![p] = n]
    BY DEF verify_pin
  <2>4. StepOf(p, all, say, nexts, whys, nonce[p], buf[p], n)
    BY <1>0, <1>1, <2>1, <2>2, <2>3 DEF StepOf
  <2> QED BY <2>4, StepKept
<1>3. CASE Verdict(p, guess, n) = "pass" /\ AfterPass(p, msgs, sts)
  <2>1. Unlocked(p) /\ nonce[p] = Full /\ (p = "S" => KeyOk("S") /\ KeyOk("R") /\ Unlocked("R"))
    BY <1>3, Verdicts DEF MayChallenge
  <2>2. PICK all, say, nexts :
              /\ Moved(p, all, say, nexts, {"send"}) /\ May(p, say, nexts, {"send"}, nonce[p])
              /\ Fine(Other(p), all) /\ "verify" \notin nexts
    BY <1>3, <2>1, PassMoves
  <2> QED BY <1>2, <2>2
<1>4. CASE /\ Verdict(p, guess, n) = "tooMany"
           /\ Fail(p, msgs \o Notice(p, "tooMany"), sts \cup {"TooManyAttempts"}, "tooMany")
  <2> DEFINE all == msgs \o Notice(p, "tooMany")
             say == sts \cup {"TooManyAttempts"}
  <2>1. Fine(Other(p), all)
    BY <1>0, FineNotice, FineBoth
  <2>2. say \subseteq Statuses /\ ToldOk(say)
    BY DEF Statuses, ToldOk
  <2>3. Fail(p, all, say, "tooMany")
    BY <1>4
  <2>4. "tooMany" \in Outcomes /\ OutcomeOk(p, "tooMany") /\ "verify" \notin {"dead"}
    BY DEF Outcomes, OutcomeOk
  <2> HIDE DEF all, say
  <2>5. Moved(p, all, say, {"dead"}, {"tooMany"})
    BY <2>1, <2>3, FailMoves DEF Fine
  <2>6. May(p, say, {"dead"}, {"tooMany"}, nonce[p])
    BY <2>2, <2>4, DeadMay
  <2> QED BY <1>2, <2>1, <2>4, <2>5, <2>6
<1>5. CASE /\ Verdict(p, guess, n) = "again"
           /\ Proceed(p, 1, msgs \o (IF notice THEN Notice(p, "pinRequired") ELSE <<>>), sts, "verify")
  <2> DEFINE tell == IF notice THEN Notice(p, "pinRequired") ELSE <<>>
             all == msgs \o tell
             nexts == {"verify", "dead"}
  <2>1. Fine(Other(p), tell)
    <3>1. Fine(Other(p), Notice(p, "pinRequired")) /\ Fine(Other(p), <<>>)
      BY <1>0, FineNotice, FineNone
    <3> QED BY <3>1
  <2>2. Fine(Other(p), all)
    <3> HIDE DEF tell
    <3> QED BY <1>0, <2>1, FineBoth
  <2>3. Proceed(p, 1, all, sts, "verify") /\ 1 \in Nat
    BY <1>5
  <2>4. n < MaxTries
    BY <1>5, Verdicts, MaxTriesAssumption
  <2>5. sts \subseteq Statuses /\ ToldOk(sts)
    BY DEF ToldOk
  <2>6. \A s \in nexts : s \in PcsOf(p) /\ ControlOk(p, s, nonce[p])
    BY DEF PcsOf, SPcs, RPcs, ControlOk, MayChallenge
  <2>7. May(p, sts, nexts, {"send"}, nonce[p])
    BY <2>5, <2>6 DEF May, Outcomes, OutcomeOk
  <2>8. Moved(p, all, sts, nexts, {"send"})
    <3> HIDE DEF all
    <3> QED BY <2>2, <2>3, ProceedMoves DEF Fine
  <2> HIDE DEF all, nexts
  <2> QED BY <1>2, <2>2, <2>4, <2>7, <2>8
<1> QED BY <1>3, <1>4, <1>5 DEF verify_pin

\* A chunk of a string arrives.
LEMMA ReceiveChunkKept ==
    ASSUME TaskTypes, GateInv, TriesInv, NEW p \in Peers, ReceiveChunk(p)
    PROVE  Kept
<1>0. /\ pc[p] \in ChunkStates[p] /\ q[p] # <<>> /\ Proceed(p, 1, <<>>, {}, pc[p]) /\ 1 \in Nat
      /\ buf' = [buf EXCEPT ![p] = buf[p] \o Arrived(p).data] /\ UNCHANGED <<config, nonce, pins>>
  BY DEF ReceiveChunk, TaskTypes
<1>1. pc[p] \in PcsOf(p) \ {"verify"} /\ ControlOk(p, pc[p], nonce[p])
  BY <1>0 DEF ChunkStates, PcsOf, SPcs, RPcs, GateInv, Peers
<1>2. Arrived(p) \in Msg /\ ToOk(p, Arrived(p))
  BY <1>0, ArrivedIs
<1> DEFINE d == Arrived(p).data
           b == buf[p] \o d
<1>3. d \in Seq(Unit) /\ UnitsOk(d) /\ buf[p] \in Seq(Unit) /\ UnitsOk(buf[p])
  BY <1>2, MsgIs DEF ToOk, TaskTypes, GateInv
<1>4. b \in Seq(Unit) /\ UnitsOk(b)
  <2> HIDE DEF d
  <2>1. /\ b \in Seq(Unit)
        /\ \A i \in DOMAIN b : (\E j \in DOMAIN buf[p] : b[i] = buf[p][j])
                               \/ (\E j \in DOMAIN d : b[i] = d[j])
    BY <1>3, FromLonger
  <2> QED BY <1>3, <2>1 DEF UnitsOk
<1>5. Plain(p, b)
  BY <1>0, <1>4 DEF Plain
<1> HIDE DEF b
<1> QED BY <1>0, <1>1, <1>5, PeersAre, FineNone, SayNothing, ProceedKept

\* A PIN arrives.
LEMMA VerifyPinKept ==
    ASSUME TaskTypes, GateInv, TriesInv, NEW p \in Peers, VerifyPin(p)
    PROVE  Kept
<1>0. pc[p] = "verify" /\ q[p] # <<>> /\ UNCHANGED <<config, nonce, buf, typed>> /\ Other(p) \in Peers
  BY PeersAre DEF VerifyPin, Receives
<1>1. Arrived(p) \in Msg /\ ToOk(p, Arrived(p))
  BY <1>0, ArrivedIs
<1>2. ControlOk(p, "verify", nonce[p]) /\ tries[p] \in Nat /\ tries[p] < MaxTries
  BY <1>0 DEF GateInv, TriesInv, TaskTypes
<1>3. CASE Arrived(p).k = "pin" /\ verify_pin(p, Arrived(p).v, tries[p] + 1, TRUE, <<>>, {})
  <2>1. Arrived(p).v \in typed[Other(p)]
    BY <1>1, <1>3 DEF ToOk
  <2>2. MayChallenge(p, Arrived(p).v)
    BY <1>2, <2>1 DEF MayChallenge, ControlOk, Unlocked
  <2>3. tries[p] + 1 \in Nat /\ tries[p] + 1 <= MaxTries
    BY <1>2, MaxTriesAssumption
  <2>4. Fine(Other(p), <<>>) /\ {} \subseteq Statuses \ {"Connected"}
    BY <1>0, FineNone
  <2>5. PICK guess, n, yes : guess = Arrived(p).v /\ n = tries[p] + 1 /\ yes = TRUE
    OBVIOUS
  <2>6. /\ verify_pin(p, guess, n, yes, <<>>, {}) /\ MayChallenge(p, guess)
        /\ n \in Nat /\ n <= MaxTries
    BY <1>3, <2>2, <2>3, <2>5
  <2> QED BY <1>0, <2>4, <2>6, ChallengeKept
<1>4. CASE Fail(p, <<>>, {}, "parse") /\ UNCHANGED tries
  <2>1. Plain(p, buf[p])
    BY <1>0, <1>4, PlainSame DEF pins
  <2>2. "parse" \in Outcomes /\ OutcomeOk(p, "parse")
    BY DEF Outcomes, OutcomeOk
  <2> QED BY <1>0, <1>4, <2>1, <2>2, FineNone, SayNothing, FailKept
<1> QED BY <1>3, <1>4 DEF VerifyPin

\* The user types a PIN: the only step that adds to typed.
LEMMA EnterPinKept ==
    ASSUME TaskTypes, GateInv, TriesInv, NEW p \in Peers, EnterPin(p)
    PROVE  Kept
<1>0. pc[p] = "askPin" /\ UNCHANGED <<config, nonce, buf, tries>> /\ Other(p) \in Peers /\ 0 \in Nat
      /\ Other(Other(p)) = p
  BY PeersAre DEF EnterPin
<1>1. PICK g \in Guesses : /\ typed' = [typed EXCEPT ![p] = typed[p] \cup {g}]
                           /\ Proceed(p, 0, <<Text("pin", g)>>, {}, "pinRes")
  BY DEF EnterPin, TaskTypes
<1> DEFINE m == Text("pin", g)
           nexts == {"pinRes", "dead"}
<1>2. m \in Msg /\ <<m>> \in Seq(Msg) /\ m.k = "pin" /\ m.v = g /\ m.data = <<>>
  BY DEF Text, Msg
<1>3. typed' \in [Peers -> SUBSET Guesses] /\ g \in typed'[p] /\ Grows
  BY <1>0, <1>1 DEF TaskTypes, Grows
<1>4. \A i \in DOMAIN <<m>> : ToOk(Other(p), <<m>>[i])'
  <2> HIDE DEF m
  <2>1. \A x : x = m => ToOk(Other(p), x)'
    BY <1>0, <1>2, <1>3 DEF ToOk, UnitsOk
  <2>2. \A i \in DOMAIN <<m>> : <<m>>[i] = m
    OBVIOUS
  <2> QED BY <2>1, <2>2
<1> HIDE DEF m
<1>5. Moved(p, <<m>>, {}, nexts, {"send"})
  BY <1>0, <1>1, <1>2, ProceedMoves DEF m
<1>6. May(p, {}, nexts, {"send"}, nonce[p])
  <2>1. ControlOk(p, "askPin", nonce[p])
    BY <1>0 DEF GateInv
  <2>2. \A s \in nexts : s \in PcsOf(p) /\ ControlOk(p, s, nonce[p])
    BY <2>1 DEF ControlOk, PcsOf, SPcs, RPcs
  <2> QED BY <2>2, SayNothing DEF May, Outcomes, OutcomeOk
<1>7. /\ nonce[p] \in {None, GS, Full} /\ nonce' = [nonce EXCEPT ![p] = nonce[p]]
      /\ buf[p] \in Seq(Unit) /\ buf' = [buf EXCEPT ![p] = buf[p]] /\ UnitsOk(buf[p])
      /\ tries[p] \in Nat /\ tries' = [tries EXCEPT ![p] = tries[p]] /\ tries[p] <= MaxTries
      /\ "verify" \notin nexts
  BY <1>0 DEF TaskTypes, GateInv, TriesInv
<1> HIDE DEF nexts
<1>8. StepOf(p, <<m>>, {}, nexts, {"send"}, nonce[p], buf[p], tries[p])
  BY <1>2, <1>3, <1>4, <1>5, <1>6, <1>7 DEF StepOf
<1> QED BY <1>8, StepKept

\* The app drops the request for a PIN.
LEMMA DropPinRequestKept ==
    ASSUME TaskTypes, GateInv, TriesInv, NEW p \in Peers, DropPinRequest(p)
    PROVE  Kept
<1>0. Fail(p, <<>>, {}, "noPin") /\ UNCHANGED <<config, nonce, buf, pins>> /\ Other(p) \in Peers
  BY PeersAre DEF DropPinRequest
<1>1. Plain(p, buf[p])
  BY <1>0, PlainSame
<1>2. "noPin" \in Outcomes /\ OutcomeOk(p, "noPin")
  BY DEF Outcomes, OutcomeOk
<1> QED BY <1>0, <1>1, <1>2, FineNone, SayNothing, FailKept

\* The connection is lost.
LEMMA DisconnectKept ==
    ASSUME TaskTypes, GateInv, TriesInv, NEW p \in Peers, Disconnect(p)
    PROVE  Kept
<1>0. UNCHANGED <<config, nonce, buf, pins, pc, outcome>> /\ Other(p) \in Peers /\ 0 \in Nat /\ Grows
  BY PeersAre DEF Disconnect, Grows, pins
<1>1. PICK n \in 0..Len(q[p]), m \in 0..Len(q[Other(p)]) :
          q' = [q EXCEPT ![p] = SubSeq(q[p], 1, n), ![Other(p)] = SubSeq(q[Other(p)], 1, m)]
  BY <1>0, PeersAre DEF Disconnect, TaskTypes
<1>2. q[p] \in Seq(Msg) /\ q[Other(p)] \in Seq(Msg)
  BY <1>0 DEF TaskTypes
<1>3. /\ SubSeq(q[p], 1, n) \in Seq(Msg) /\ From(SubSeq(q[p], 1, n), q[p])
      /\ SubSeq(q[Other(p)], 1, m) \in Seq(Msg) /\ From(SubSeq(q[Other(p)], 1, m), q[Other(p)])
  BY <1>1, <1>2, PartOf
<1>4. q' \in [Peers -> Seq(Msg)] /\ From(q'[p], q[p]) /\ From(q'[Other(p)], q[Other(p)])
  <2>1. PICK s, t : s = SubSeq(q[p], 1, n) /\ t = SubSeq(q[Other(p)], 1, m)
    OBVIOUS
  <2>2. /\ s \in Seq(Msg) /\ t \in Seq(Msg) /\ From(s, q[p]) /\ From(t, q[Other(p)])
        /\ q' = [q EXCEPT ![p] = s, ![Other(p)] = t]
    BY <1>1, <1>3, <2>1
  <2>3. q' \in [Peers -> Seq(Msg)] /\ q'[p] = s /\ q'[Other(p)] = t
    BY <2>2, QueuesType
  <2> QED BY <2>2, <2>3
<1>5. From(q'[Other(p)], q[Other(p)] \o <<>>)
  <2>1. q[Other(p)] \o <<>> = q[Other(p)]
    BY <1>2
  <2> QED BY <1>4, <2>1
<1>6. /\ told' = [told EXCEPT ![p] = told'[p]] /\ told'[p] = told[p] \cup {"Finished"}
      /\ pc' = [pc EXCEPT ![p] = pc'[p]] /\ pc'[p] = pc[p]
      /\ outcome' = [outcome EXCEPT ![p] = outcome'[p]] /\ outcome'[p] = outcome[p]
      /\ end' \in [Peers -> {"running", "finished", "failed"}]
  BY <1>0 DEF Disconnect, TaskTypes
<1>7. Moved(p, <<>>, {}, {pc[p]}, {})
  BY <1>4, <1>5, <1>6 DEF Moved
<1>8. May(p, {}, {pc[p]}, {}, nonce[p])
  <2>1. ControlOk(p, pc[p], nonce[p]) /\ pc[p] \in PcsOf(p)
    BY DEF GateInv, TaskTypes, PcsOf, Peers
  <2> QED BY <2>1, SayNothing DEF May
<1>9. /\ nonce[p] \in {None, GS, Full} /\ nonce' = [nonce EXCEPT ![p] = nonce[p]]
      /\ buf[p] \in Seq(Unit) /\ buf' = [buf EXCEPT ![p] = buf[p]] /\ UnitsOk(buf[p])
      /\ tries[p] \in Nat /\ tries' = [tries EXCEPT ![p] = tries[p]] /\ tries[p] <= MaxTries
      /\ ("verify" \in {pc[p]} => tries[p] < MaxTries)
      /\ typed' \in [Peers -> SUBSET Guesses]
  BY <1>0 DEF TaskTypes, GateInv, TriesInv, pins
<1>10. <<>> \in Seq(Msg) /\ \A i \in DOMAIN <<>> : ToOk(Other(p), <<>>[i])'
  OBVIOUS
<1>11. StepOf(p, <<>>, {}, {pc[p]}, {}, nonce[p], buf[p], tries[p])
  BY <1>0, <1>7, <1>8, <1>9, <1>10 DEF StepOf
<1> QED BY <1>11, StepKept

----------------------------------------------------------------------------
(* Tokens, for every width of the clock and every key, salt and nonce *)

\* The age wraps once: it is the difference, or the difference plus 2^64.
LEMMA AgeWraps ==
    ASSUME NEW now \in 0..(U64 - 1), NEW salt \in 0..(U64 - 1)
    PROVE  Age(now, salt) = IF salt <= now THEN now - salt ELSE now - salt + U64
  BY U64Assumption DEF Age

\* The hour of verify_token_timestamp (token.rs:143-164), see TimestampWindow.
THEOREM WindowHolds == TimestampWindow
<1>1. SUFFICES ASSUME NEW now \in MaxAge..(U64 - 1), NEW salt \in 0..(U64 - 1)
               PROVE  ~(Age(now, salt) > MaxAge) <=> (salt <= now /\ now <= salt + MaxAge)
  BY DEF TimestampWindow, verify_token_timestamp, verify_token_with_result,
         generate_token_timestamp, generate_token_nonce, SigningKey, Key, Bytes, Digest
<1>2. now \in 0..(U64 - 1)
  BY U64Assumption
<1>3. Age(now, salt) = IF salt <= now THEN now - salt ELSE now - salt + U64
  BY <1>2, AgeWraps
<1> QED BY <1>2, <1>3, U64Assumption

\* verify_token_nonce accepts a token made by generate_token_nonce exactly when
\* it was made with the expected Ed25519 key and over the expected nonce
\* (token.rs:118-136, 166-219).
THEOREM NonceTokenIsAuthentic ==
    ASSUME NEW signer, NEW salt, NEW expected, NEW method, NEW n
    PROVE  verify_token_nonce(Key(expected, method),
                              generate_token_nonce(SigningKey(signer), salt), n)
           <=> (expected = signer /\ method = "ed25519" /\ salt = n)
  BY DEF verify_token_nonce, verify_token_with_result, generate_token_nonce,
         SigningKey, Key, Digest

----------------------------------------------------------------------------
(* Keys *)

\* A peer that was asked for a key accepts the token over the common nonce
\* exactly when the other peer has that key.
LEMMA TrustIs ==
    ASSUME NEW p \in Peers, nonce[p] = Full
    PROVE  /\ Trusts(p, Token(Other(p), Full)) => KeyOk(p)
           /\ ~Trusts(p, Token(Other(p), Full)) => expect[p] # SigningKey(Other(p))
<1> DEFINE key == SigningKey(Other(p))
           token == Token(Other(p), Full)
<1>1. /\ token.hash = "sha256" /\ token.sign = "ed25519" /\ token.salt = Full
      /\ token.digest = <<key, Full>> /\ token.signature = [by |-> key, over |-> <<key, Full>>]
  BY DEF Token, generate_token_nonce, Digest
<1>2. key.method = "ed25519"
  BY DEF SigningKey, Key
<1> HIDE DEF key, token
<1>3. verify_token_nonce(key, token, Full)
  BY <1>1, <1>2 DEF verify_token_nonce, verify_token_with_result, Digest
<1>4. \A k : verify_token_nonce(k, token, Full) => k = key
  BY <1>1 DEF verify_token_nonce, verify_token_with_result, Digest
<1>5. Trusts(p, token) <=> (expect[p] = None \/ verify_token_nonce(expect[p], token, Full))
  BY DEF Trusts
<1>6. Trusts(p, token) => expect[p] \in {None, key}
  BY <1>4, <1>5
<1>7. ~Trusts(p, token) => expect[p] # key
  BY <1>3, <1>5
<1> QED BY <1>6, <1>7 DEF KeyOk, key, token

\* The common nonce is put together the same way by both.
LEMMA SameNonce == nonce["S"] = GS => SenderNonce(GR) = Full /\ ReceiverNonce(GS) = Full
  BY DEF SenderNonce, ReceiverNonce, Full, GR

\* Both nonces are accepted.
LEMMA NoncesValid == \A n \in {GS, GR, Full} : validate_nonce(n)
  BY DEF GS, GR, Full, generate_nonce, Concat, Bytes, validate_nonce

\* A task that sends a message and goes on with another nonce.
LEMMA NonceKept ==
    ASSUME TaskTypes, GateInv, TriesInv, NEW p \in Peers, NEW k \in Nat, NEW m \in Msg,
           NEW next \in PcsOf(p) \ {"verify"}, Proceed(p, k, <<m>>, {}, next), ToOk(Other(p), m),
           NEW n \in {None, GS, Full}, nonce' = [nonce EXCEPT ![p] = n], ControlOk(p, next, n),
           UNCHANGED <<config, buf, pins>>
    PROVE  Kept
<1> DEFINE nexts == {next, "dead"}
<1>0. Other(p) \in Peers /\ Grows /\ <<m>> \in Seq(Msg) /\ UNCHANGED <<typed, tries>>
  BY PeersAre DEF Grows, pins
<1>1. \A i \in DOMAIN <<m>> : ToOk(Other(p), <<m>>[i])'
  <2>1. \A x : x = m => ToOk(Other(p), x)'
    BY <1>0, Stable
  <2>2. \A i \in DOMAIN <<m>> : <<m>>[i] = m
    OBVIOUS
  <2> QED BY <2>1, <2>2
<1>2. Moved(p, <<m>>, {}, nexts, {"send"})
  BY <1>0, ProceedMoves
<1>3. May(p, {}, nexts, {"send"}, n)
  <2>1. \A s \in nexts : s \in PcsOf(p) /\ ControlOk(p, s, n)
    BY DEF ControlOk, PcsOf, SPcs, RPcs
  <2> QED BY <2>1, SayNothing DEF May, Outcomes, OutcomeOk
<1>4. /\ buf[p] \in Seq(Unit) /\ buf' = [buf EXCEPT ![p] = buf[p]] /\ UnitsOk(buf[p])
      /\ tries[p] \in Nat /\ tries' = [tries EXCEPT ![p] = tries[p]] /\ tries[p] <= MaxTries
      /\ "verify" \notin nexts /\ typed' \in [Peers -> SUBSET Guesses]
  BY <1>0 DEF TaskTypes, GateInv, TriesInv
<1> HIDE DEF nexts
<1>5. StepOf(p, <<m>>, {}, nexts, {"send"}, n, buf[p], tries[p])
  BY <1>0, <1>1, <1>2, <1>3, <1>4 DEF StepOf
<1> QED BY <1>5, StepKept

----------------------------------------------------------------------------
(* send_task *)

\* The two peers by name.
LEMMA TwoPeers ==
    /\ "S" \in Peers /\ "R" \in Peers /\ Other("S") = "R" /\ Other("R") = "S"
    /\ PcsOf("S") = SPcs /\ PcsOf("R") = RPcs /\ 0 \in Nat /\ 1 \in Nat
  BY DEF Peers, Other, PcsOf

\* A task that meets an unexpected message.
LEMMA ParseKept ==
    ASSUME TaskTypes, GateInv, TriesInv, NEW p \in Peers, NEW sts, NEW why \in Outcomes,
           Fail(p, <<>>, sts, why), sts \subseteq Statuses, ToldOk(sts), OutcomeOk(p, why),
           UNCHANGED <<config, nonce, buf, typed, tries>>
    PROVE  Kept
<1>1. Plain(p, buf[p])
  BY PlainSame DEF pins
<1>2. Fine(Other(p), <<>>)
  BY PeersAre, FineNone
<1> QED BY <1>1, <1>2, FailKept

\* The sender's nonce.
LEMMA SendNonceKept == ASSUME TaskTypes, GateInv, TriesInv, SendNonce PROVE Kept
<1> DEFINE m == Text("nonce", GS)
<1>1. nonce' = [nonce EXCEPT !["S"] = GS] /\ nonce'["S"] = GS
  BY TwoPeers DEF SendNonce, GS, TaskTypes
<1>2. Proceed("S", 0, <<m>>, {}, "nonce") /\ UNCHANGED <<config, buf, pins>>
  BY <1>1 DEF SendNonce
<1>3. m \in Msg /\ ToOk("R", m)
  BY TwoPeers DEF Text, Msg, ToOk, UnitsOk, GS
<1>4. "nonce" \in SPcs \ {"verify"} /\ ControlOk("S", "nonce", GS)
  BY DEF SPcs, ControlOk
<1> HIDE DEF m
<1> QED BY <1>1, <1>2, <1>3, <1>4, TwoPeers, NonceKept

\* The sender's token.
LEMMA SendTokenKept == ASSUME TaskTypes, GateInv, TriesInv, SendToken PROVE Kept
<1>0. pc["S"] = "nonce" /\ q["S"] # <<>> /\ UNCHANGED <<config, buf, pins>>
  BY DEF SendToken, Receives
<1>1. Arrived("S") \in Msg /\ ToOk("S", Arrived("S")) /\ nonce["S"] = GS
  <2>1. ControlOk("S", pc["S"], nonce["S"])
    BY TwoPeers DEF GateInv
  <2> QED BY <1>0, <2>1, TwoPeers, ArrivedIs DEF ControlOk
<1>2. CASE NonceArrives("S")
  <2> DEFINE m == Text("token", Token("S", Full))
  <2>1. Arrived("S").v = GR
    BY <1>1, <1>2, TwoPeers DEF NonceArrives, ToOk, GR
  <2>2. nonce' = [nonce EXCEPT !["S"] = Full] /\ nonce'["S"] = Full
    BY <1>1, <1>2, <2>1, SameNonce, TwoPeers DEF SendToken, TaskTypes
  <2>3. Proceed("S", 1, <<m>>, {}, "token")
    BY <1>2, <2>2 DEF SendToken
  <2>4. m \in Msg
    BY DEF Text, Msg
  <2>5. ToOk("R", m)
    BY TwoPeers, TextTo
  <2>6. "token" \in SPcs \ {"verify"} /\ ControlOk("S", "token", Full)
    BY DEF SPcs, ControlOk
  <2> HIDE DEF m
  <2> QED BY <1>0, <2>2, <2>3, <2>4, <2>5, <2>6, TwoPeers, NonceKept
<1>3. CASE ~NonceArrives("S")
  <2>1. Fail("S", <<>>, {}, "parse") /\ UNCHANGED <<config, nonce, buf, typed, tries>>
    BY <1>0, <1>3 DEF SendToken, pins
  <2>2. "parse" \in Outcomes /\ OutcomeOk("S", "parse")
    BY DEF Outcomes, OutcomeOk
  <2> QED BY <2>1, <2>2, TwoPeers, SayNothing, ParseKept
<1> QED BY <1>2, <1>3

\* The sender's challenge or its file list.
LEMMA OfferFilesKept ==
    ASSUME TaskTypes, GateInv, TriesInv, OfferFiles, nonce["S"] = Full, KeyOk("S"), KeyOk("R"),
           Unlocked("R"), UNCHANGED <<config, nonce, buf, typed>>
    PROVE  Kept
<1>1. CASE pin["S"] # NoPin
  <2>1. PICK n, yes, sts : n = 0 /\ yes = ("S" = "S") /\ sts = {"PinRequired"}
    OBVIOUS
  <2>2. verify_pin("S", EmptyPin, n, yes, <<>>, sts)
    BY <1>1, <2>1 DEF OfferFiles, Challenge
  <2>3. n \in Nat /\ n <= MaxTries /\ sts \subseteq Statuses \ {"Connected"}
    BY <2>1, MaxTriesAssumption DEF Statuses
  <2>4. MayChallenge("S", EmptyPin)
    BY DEF MayChallenge, Unlocked
  <2>5. Fine("R", <<>>)
    BY TwoPeers, FineNone
  <2> QED BY <2>2, <2>3, <2>4, <2>5, TwoPeers, ChallengeKept
<1>2. CASE pin["S"] = NoPin
  <2>1. AfterPass("S", <<>>, {}) /\ UNCHANGED tries /\ {} \subseteq Statuses \ {"Connected"}
    BY <1>2 DEF OfferFiles
  <2>2. Unlocked("S")
    BY <1>2 DEF Unlocked
  <2>3. Fine("R", <<>>)
    BY TwoPeers, FineNone
  <2>4. PICK all, say, nexts :
              /\ Moved("S", all, say, nexts, {"send"}) /\ May("S", say, nexts, {"send"}, nonce["S"])
              /\ Fine("R", all) /\ "verify" \notin nexts
    BY <2>1, <2>2, <2>3, TwoPeers, PassMoves
  <2>5. Plain("S", buf["S"])
    BY <2>1, TwoPeers, PlainSame DEF pins
  <2> QED BY <2>4, <2>5, TwoPeers, PlainKept
<1> QED BY <1>1, <1>2

\* The receiver's answer to the token.
LEMMA HandleTokenResponseKept == ASSUME TaskTypes, GateInv, TriesInv, HandleTokenResponse PROVE Kept
<1> DEFINE m == Arrived("S")
<1>0. pc["S"] = "token" /\ q["S"] # <<>> /\ UNCHANGED <<config, nonce, buf, typed>>
  BY DEF HandleTokenResponse, Receives
<1>1. m \in Msg /\ ToOk("S", m) /\ nonce["S"] = Full
  <2>1. ControlOk("S", pc["S"], nonce["S"])
    BY TwoPeers DEF GateInv
  <2> QED BY <1>0, <2>1, TwoPeers, ArrivedIs DEF ControlOk
<1>2. m.k = "tokenRes" => m.v \in Responses /\ ResponseOk(m.v)
  BY <1>1, MsgIs DEF ToOk
<1>3. CASE m.k # "tokenRes" /\ Fail("S", <<>>, {}, "parse") /\ UNCHANGED tries
  <2>1. "parse" \in Outcomes /\ OutcomeOk("S", "parse")
    BY DEF Outcomes, OutcomeOk
  <2> QED BY <1>0, <1>3, <2>1, TwoPeers, SayNothing, ParseKept
<1>4. CASE /\ m.k = "tokenRes" /\ m.v.result = "invalidSignature"
           /\ Fail("S", <<>>, {}, "rejected") /\ UNCHANGED tries
  <2>1. "rejected" \in Outcomes /\ OutcomeOk("S", "rejected")
    BY <1>2, <1>4, TwoPeers DEF Outcomes, OutcomeOk, ResponseOk
  <2> QED BY <1>0, <1>4, <2>1, TwoPeers, SayNothing, ParseKept
<1>5. ASSUME m.k = "tokenRes", m.v.result # "invalidSignature"
      PROVE  /\ KeyOk("R") /\ (m.v.result = "ok" => pin["R"] = NoPin)
             /\ Trusts("S", m.v.token) => KeyOk("S")
             /\ ~Trusts("S", m.v.token) => expect["S"] # SigningKey("R")
  <2>1. KeyOk("R") /\ (m.v.result = "ok" => pin["R"] = NoPin) /\ m.v.token = Token("R", Full)
    BY <1>2, <1>5 DEF ResponseOk
  <2>2. /\ Trusts("S", Token("R", Full)) => KeyOk("S")
        /\ ~Trusts("S", Token("R", Full)) => expect["S"] # SigningKey("R")
    BY <1>1, TwoPeers, TrustIs
  <2> QED BY <2>1, <2>2
<1>6. CASE /\ m.k = "tokenRes" /\ m.v.result # "invalidSignature" /\ ~Trusts("S", m.v.token)
           /\ Fail("S", <<>>, {}, "untrusted") /\ UNCHANGED tries
  <2>1. "untrusted" \in Outcomes /\ OutcomeOk("S", "untrusted")
    BY <1>5, <1>6, TwoPeers DEF Outcomes, OutcomeOk
  <2> QED BY <1>0, <1>6, <2>1, TwoPeers, SayNothing, ParseKept
<1>7. CASE /\ m.k = "tokenRes" /\ m.v.result = "pinRequired" /\ Trusts("S", m.v.token)
           /\ Proceed("S", 1, <<>>, {"PinRequired"}, "askPin") /\ UNCHANGED tries
  <2>1. ControlOk("S", "askPin", nonce["S"]) /\ "askPin" \in SPcs \ {"verify"}
    BY <1>1, <1>5, <1>7 DEF ControlOk, SPcs
  <2>2. Plain("S", buf["S"]) /\ Fine("R", <<>>)
    BY <1>0, <1>7, TwoPeers, PlainSame, FineNone DEF pins
  <2>3. {"PinRequired"} \subseteq Statuses /\ ToldOk({"PinRequired"})
    BY DEF Statuses, ToldOk
  <2> QED BY <1>7, <2>1, <2>2, <2>3, TwoPeers, ProceedKept
<1>8. CASE m.k = "tokenRes" /\ m.v.result = "ok" /\ Trusts("S", m.v.token) /\ OfferFiles
  <2>1. KeyOk("S") /\ KeyOk("R") /\ Unlocked("R")
    BY <1>5, <1>8 DEF Unlocked
  <2> QED BY <1>0, <1>1, <1>8, <2>1, OfferFilesKept
<1> QED BY <1>3, <1>4, <1>6, <1>7, <1>8 DEF HandleTokenResponse

\* The receiver's answer to a PIN.
LEMMA HandlePinReceivingResponseKept ==
    ASSUME TaskTypes, GateInv, TriesInv, HandlePinReceivingResponse PROVE Kept
<1> DEFINE m == Arrived("S")
<1>0. pc["S"] = "pinRes" /\ q["S"] # <<>> /\ UNCHANGED <<config, nonce, buf, typed>>
  BY DEF HandlePinReceivingResponse, Receives
<1>1. m \in Msg /\ ToOk("S", m) /\ nonce["S"] = Full /\ KeyOk("S") /\ KeyOk("R")
  <2>1. ControlOk("S", pc["S"], nonce["S"])
    BY TwoPeers DEF GateInv
  <2> QED BY <1>0, <2>1, TwoPeers, ArrivedIs DEF ControlOk
<1>2. {"PinRequired"} \subseteq Statuses /\ ToldOk({"PinRequired"})
      /\ {"TooManyAttempts"} \subseteq Statuses /\ ToldOk({"TooManyAttempts"})
  BY DEF Statuses, ToldOk
<1>3. CASE m.k # "pinRes" /\ Fail("S", <<>>, {}, "parse") /\ UNCHANGED tries
  <2>1. "parse" \in Outcomes /\ OutcomeOk("S", "parse")
    BY DEF Outcomes, OutcomeOk
  <2> QED BY <1>0, <1>3, <2>1, TwoPeers, SayNothing, ParseKept
<1>4. CASE m.k = "pinRes" /\ m.v = "ok" /\ OfferFiles
  <2>1. Unlocked("R")
    BY <1>1, <1>4 DEF ToOk
  <2> QED BY <1>0, <1>1, <1>4, <2>1, OfferFilesKept
<1>5. CASE /\ m.k = "pinRes" /\ m.v = "pinRequired"
           /\ Proceed("S", 1, <<>>, {"PinRequired"}, "askPin") /\ UNCHANGED tries
  <2>1. ControlOk("S", "askPin", nonce["S"]) /\ "askPin" \in SPcs \ {"verify"}
    BY <1>1 DEF ControlOk, SPcs
  <2>2. Plain("S", buf["S"]) /\ Fine("R", <<>>)
    BY <1>0, <1>5, TwoPeers, PlainSame, FineNone DEF pins
  <2> QED BY <1>2, <1>5, <2>1, <2>2, TwoPeers, ProceedKept
<1>6. CASE /\ m.k = "pinRes" /\ m.v = "tooMany"
           /\ Fail("S", <<>>, {"TooManyAttempts"}, "tooMany") /\ UNCHANGED tries
  <2>1. "tooMany" \in Outcomes /\ OutcomeOk("S", "tooMany")
    BY DEF Outcomes, OutcomeOk
  <2> QED BY <1>0, <1>2, <1>6, <2>1, TwoPeers, ParseKept
<1> QED BY <1>3, <1>4, <1>5, <1>6 DEF HandlePinReceivingResponse

\* The selection arrived.
LEMMA HandleFileListResponseKept ==
    ASSUME TaskTypes, GateInv, TriesInv, HandleFileListResponse PROVE Kept
<1>0. pc["S"] = "selection" /\ buf' = [buf EXCEPT !["S"] = <<>>] /\ UNCHANGED <<config, nonce, pins>>
  BY DEF HandleFileListResponse, Ended, Receives
<1>1. Plain("S", <<>>) /\ Fine("R", <<>>)
  BY <1>0, TwoPeers, PlainEmpty, FineNone
<1>2. ControlOk("S", "sending", nonce["S"]) /\ "sending" \in SPcs \ {"verify"}
  <2>1. ControlOk("S", pc["S"], nonce["S"])
    BY TwoPeers DEF GateInv
  <2> QED BY <1>0, <2>1 DEF ControlOk, SPcs
<1>3. \A why \in {"app", "parse"} : why \in Outcomes /\ OutcomeOk("S", why)
  BY DEF Outcomes, OutcomeOk
<1>4. {"Declined"} \subseteq Statuses /\ ToldOk({"Declined"})
  BY DEF Statuses, ToldOk
<1>5. CASE Proceed("S", 1, <<>>, {}, "sending")
  BY <1>1, <1>2, <1>5, TwoPeers, SayNothing, ProceedKept
<1>6. ASSUME NEW why \in {"app", "parse"}, Fail("S", <<>>, {}, why) PROVE Kept
  BY <1>1, <1>3, <1>6, TwoPeers, SayNothing, FailKept
<1>7. CASE Complete("S", <<>>, {"Declined"})
  BY <1>1, <1>4, <1>7, TwoPeers, CompleteKept
<1> QED BY <1>5, <1>6, <1>7 DEF HandleFileListResponse

\* Nothing happens to the tasks.
LEMMA StutterKept ==
    ASSUME TaskTypes, GateInv, TriesInv, UNCHANGED <<config, nonce, control, buf, pins>>
    PROVE  Kept
<1>1. TaskTypes'
  BY DEF TaskTypes, config, control, pins
<1>2. GateInv'
  BY DEF GateInv, ControlOk, ToOk, ResponseOk, UnitsOk, OutcomeOk, ToldOk, AllOpen, KeyOk,
         Unlocked, config, control, pins
<1>3. TriesInv'
  BY DEF TriesInv, config, control, pins
<1> QED BY <1>1, <1>2, <1>3 DEF Kept

\* The gate is open for a sender that waits for the selection or sends.
LEMMA SenderOpen ==
    ASSUME GateInv, pc["S"] \in {"selection", "sending", "status"} PROVE AllOpen
<1>1. ControlOk("S", pc["S"], nonce["S"])
  BY TwoPeers DEF GateInv
<1> QED BY <1>1 DEF ControlOk, AllOpen

\* Chunks end within what is buffered.
LEMMA ChunkBounds ==
    ASSUME NEW n \in Nat, NEW c \in Nat \ {0}
    PROVE  /\ n \div c \in Nat /\ (n \div c) * c <= n
           /\ \A i \in 1 .. (n \div c) : (i - 1) * c + 1 \in Nat \ {0} /\ i * c \in Nat /\ i * c <= n
<1>1. PICK d \in Nat : d = n \div c /\ d * c <= n
  <2>1. n \div c \in Nat
    OBVIOUS
  <2>2. (n \div c) * c <= n
    OBVIOUS
  <2> QED BY <2>1, <2>2
<1>2. ASSUME NEW i \in 1 .. d
      PROVE  (i - 1) * c + 1 \in Nat \ {0} /\ i * c \in Nat /\ i * c <= n
  <2>1. PICK e \in Nat : d = i + e
    BY <1>1
  <2>2. i - 1 \in Nat /\ i \in Nat
    OBVIOUS
  <2>3. (i - 1) * c \in Nat /\ i * c \in Nat /\ e * c \in Nat
    BY <2>2
  <2>4. (i + e) * c = i * c + e * c
    BY <2>2
  <2> QED BY <1>1, <2>1, <2>3, <2>4
<1> QED BY <1>1, <1>2

\* The full chunks and the rest of a buffer.
LEMMA ChunksFine ==
    ASSUME NEW b \in Seq(Unit), AllOpen, NEW p \in Peers
    PROVE  Fine(p, FullChunks(b)) /\ Leftover(b) \in Seq(Unit)
<1> DEFINE n == Len(b) \div ChunkSize
           d == [i \in 1..n |-> SubSeq(b, (i - 1) * ChunkSize + 1, i * ChunkSize)]
<1>0. Len(b) \in Nat /\ ChunkSize \in Nat \ {0}
  BY SizeAssumption
<1>1. /\ n \in Nat /\ n * ChunkSize <= Len(b)
      /\ \A i \in 1..n : /\ (i - 1) * ChunkSize + 1 \in Nat \ {0} /\ i * ChunkSize \in Nat
                         /\ i * ChunkSize <= Len(b)
  BY <1>0, ChunkBounds
<1> HIDE DEF n
<1>2. ASSUME NEW i \in 1..n PROVE d[i] \in Seq(Unit) /\ UnitsOk(d[i])
  <2>1. PICK x, y : x = (i - 1) * ChunkSize + 1 /\ y = i * ChunkSize
    OBVIOUS
  <2>2. x \in Nat \ {0} /\ y \in Nat /\ y <= Len(b) /\ d[i] = SubSeq(b, x, y)
    BY <1>1, <2>1
  <2>3. SubSeq(b, x, y) \in Seq(Unit)
    BY <2>2, PartOf
  <2> QED BY <2>2, <2>3 DEF UnitsOk
<1>3. [i \in 1..n |-> Bin(d[i])] = FullChunks(b)
  BY DEF FullChunks, n
<1>4. Fine(p, [i \in 1..n |-> Bin(d[i])])
  <2> HIDE DEF d
  <2> QED BY <1>1, <1>2, FineBins
<1>5. Leftover(b) \in Seq(Unit)
  <2>1. PICK x \in Nat \ {0} : x = n * ChunkSize + 1
    <3>1. n * ChunkSize \in Nat
      BY <1>0, <1>1
    <3> QED BY <3>1
  <2>2. SubSeq(b, x, Len(b)) \in Seq(Unit)
    BY <1>0, PartOf
  <2> QED BY <2>1, <2>2 DEF Leftover, n
<1> QED BY <1>3, <1>4, <1>5

\* The content of a file.
LEMMA ContentIs ==
    ASSUME NEW f \in Files
    PROVE  Content(f) \in Seq(Unit) /\ Len(Content(f)) = Size[f] /\ Size[f] \in Nat
<1>1. Size[f] \in Nat
  BY SizeAssumption
<1>2. \A i \in 1..Size[f] : <<f, i>> \in Unit
  BY <1>1 DEF Unit
<1>3. [i \in 1..Size[f] |-> <<f, i>>] \in Seq(Unit)
  BY <1>1, <1>2, IsASeq
<1> QED BY <1>1, <1>3 DEF Content

\* The buffer of process_in_chunks after n more units.
LEMMA BufferIs ==
    ASSUME FileTypes, cur \in Files, NEW n \in 1..(Size[cur] - read[cur])
    PROVE  sbuf \o SubSeq(Content(cur), read[cur] + 1, read[cur] + n) \in Seq(Unit)
<1>1. /\ Content(cur) \in Seq(Unit) /\ Len(Content(cur)) = Size[cur] /\ Size[cur] \in Nat
      /\ read[cur] \in Nat
  BY ContentIs DEF FileTypes
<1>2. PICK x, y : x = read[cur] + 1 /\ y = read[cur] + n
  OBVIOUS
<1>3. x \in Nat \ {0} /\ y \in Nat /\ y <= Len(Content(cur))
  BY <1>1, <1>2
<1>4. SubSeq(Content(cur), x, y) \in Seq(Unit)
  BY <1>1, <1>3, PartOf
<1> QED BY <1>2, <1>4 DEF FileTypes

\* A header.
LEMMA SendHeaderKept == ASSUME TaskTypes, FileTypes, GateInv, TriesInv, SendHeader PROVE Kept
<1>0. pc["S"] = "sending" /\ UNCHANGED <<config, nonce, buf, pins>>
  BY DEF SendHeader
<1>1. PICK f \in Files : Write(<<Text("header", f)>>) \/ UNCHANGED control
  BY DEF SendHeader
<1>2. CASE Write(<<Text("header", f)>>)
  <2>1. Text("header", f) \in Msg
    BY DEF Text, Msg
  <2>2. ToOk("R", Text("header", f))
    BY TwoPeers, TextTo
  <2>3. Fine("R", <<Text("header", f)>>)
    BY <2>1, <2>2, TwoPeers, FineOne
  <2> QED BY <1>0, <1>2, <2>3, WriteKept
<1>3. CASE UNCHANGED control
  BY <1>0, <1>3, StutterKept
<1> QED BY <1>1, <1>2, <1>3

\* Units of a file.
LEMMA SendChunksKept == ASSUME TaskTypes, FileTypes, GateInv, TriesInv, SendChunks PROVE Kept
<1>0. pc["S"] = "sending" /\ cur \in Files /\ UNCHANGED <<config, nonce, buf, pins>>
  BY DEF SendChunks, FileTypes
<1>1. PICK n \in 1..(Size[cur] - read[cur]) :
          Write(FullChunks(sbuf \o SubSeq(Content(cur), read[cur] + 1, read[cur] + n)))
  BY DEF SendChunks
<1>2. PICK b \in Seq(Unit) : b = sbuf \o SubSeq(Content(cur), read[cur] + 1, read[cur] + n)
  BY <1>0, BufferIs
<1>3. Write(FullChunks(b)) /\ Fine("R", FullChunks(b))
  BY <1>0, <1>1, <1>2, TwoPeers, SenderOpen, ChunksFine
<1> QED BY <1>0, <1>3, WriteKept

\* The rest of a file.
LEMMA SendRestKept == ASSUME TaskTypes, FileTypes, GateInv, TriesInv, SendRest PROVE Kept
<1>0. pc["S"] = "sending" /\ UNCHANGED <<config, nonce, buf, pins>> /\ sbuf \in Seq(Unit)
  BY DEF SendRest, FileTypes
<1>1. PICK msgs : msgs = (IF sbuf = <<>> THEN <<>> ELSE <<Bin(sbuf)>>) /\ Write(msgs)
  BY DEF SendRest
<1>2. UnitsOk(sbuf)
  BY <1>0, SenderOpen DEF UnitsOk
<1>3. Bin(sbuf) \in Msg /\ ToOk("R", Bin(sbuf))
  BY <1>0, <1>2, TwoPeers, BinTo
<1>4. Fine("R", <<Bin(sbuf)>>) /\ Fine("R", <<>>)
  BY <1>3, TwoPeers, FineOne, FineNone
<1>5. Fine("R", msgs)
  BY <1>1, <1>4
<1> QED BY <1>0, <1>1, <1>5, WriteKept

\* The end of the last file.
LEMMA SendEndKept == ASSUME TaskTypes, GateInv, TriesInv, SendEnd PROVE Kept
<1>0. /\ pc["S"] = "sending" /\ UNCHANGED <<config, nonce, buf, pins>>
      /\ Proceed("S", 0, <<Delimiter>>, {}, "status")
  BY DEF SendEnd
<1>1. Fine("R", <<Delimiter>>)
  BY TwoPeers, DelimiterTo, FineOne
<1>2. ControlOk("S", "status", nonce["S"]) /\ "status" \in SPcs \ {"verify"}
  <2>1. ControlOk("S", pc["S"], nonce["S"])
    BY TwoPeers DEF GateInv
  <2> QED BY <1>0, <2>1 DEF ControlOk, SPcs
<1>3. Plain("S", buf["S"])
  BY <1>0, TwoPeers, PlainSame
<1> QED BY <1>0, <1>1, <1>2, <1>3, TwoPeers, SayNothing, ProceedKept

\* The last status.
LEMMA AwaitStatusKept == ASSUME TaskTypes, GateInv, TriesInv, AwaitStatus PROVE Kept
<1>0. Complete("S", <<>>, {}) /\ UNCHANGED <<config, nonce, buf, pins>>
  BY DEF AwaitStatus
<1>1. Plain("S", buf["S"]) /\ Fine("R", <<>>)
  BY <1>0, TwoPeers, PlainSame, FineNone
<1> QED BY <1>0, <1>1, TwoPeers, SayNothing, CompleteKept

----------------------------------------------------------------------------
(* receive_task *)

\* The receiver's nonce.
LEMMA ReceiveNonceKept == ASSUME TaskTypes, GateInv, TriesInv, ReceiveNonce PROVE Kept
<1>0. pc["R"] = "nonce" /\ q["R"] # <<>> /\ UNCHANGED <<config, buf, pins>>
  BY DEF ReceiveNonce, Receives
<1>1. Arrived("R") \in Msg /\ ToOk("R", Arrived("R"))
  BY <1>0, TwoPeers, ArrivedIs
<1>2. CASE NonceArrives("R")
  <2> DEFINE m == Text("nonce", GR)
  <2>1. Arrived("R").v = GS
    BY <1>1, <1>2, TwoPeers DEF NonceArrives, ToOk, GS
  <2>2. nonce' = [nonce EXCEPT !["R"] = Full]
    BY <1>2, <2>1 DEF ReceiveNonce, ReceiverNonce, Full, GR
  <2>3. Proceed("R", 1, <<m>>, {}, "token")
    BY <1>2 DEF ReceiveNonce, GR
  <2>4. m \in Msg /\ ToOk("S", m)
    BY TwoPeers DEF Text, Msg, ToOk, UnitsOk, GR
  <2>5. "token" \in RPcs \ {"verify"} /\ ControlOk("R", "token", Full)
    BY DEF RPcs, ControlOk
  <2> HIDE DEF m
  <2> QED BY <1>0, <2>2, <2>3, <2>4, <2>5, TwoPeers, NonceKept
<1>3. CASE ~NonceArrives("R")
  <2>1. Fail("R", <<>>, {}, "parse") /\ UNCHANGED <<config, nonce, buf, typed, tries>>
    BY <1>0, <1>3 DEF ReceiveNonce, pins
  <2>2. "parse" \in Outcomes /\ OutcomeOk("R", "parse")
    BY DEF Outcomes, OutcomeOk
  <2> QED BY <2>1, <2>2, TwoPeers, SayNothing, ParseKept
<1> QED BY <1>2, <1>3

\* An answer to the sender's token.
LEMMA FineResponse ==
    ASSUME NEW r \in {"ok", "pinRequired", "invalidSignature"}, NEW t \in {None, Token("R", Full)},
           ResponseOk([result |-> r, token |-> t])
    PROVE  Fine("S", TokenResponse(r, t))
<1> DEFINE v == [result |-> r, token |-> t]
<1>1. v \in Responses
  BY DEF Responses
<1> HIDE DEF v
<1>2. Text("tokenRes", v) \in Msg /\ ToOk("S", Text("tokenRes", v))
  BY <1>1 DEF Text, Msg, ToOk, UnitsOk, v
<1>3. Fine("S", <<Text("tokenRes", v)>>)
  BY <1>2, TwoPeers, FineOne
<1> QED BY <1>3 DEF TokenResponse, v

\* The sender's token arrives.
LEMMA HandleTokenRequestKept == ASSUME TaskTypes, GateInv, TriesInv, HandleTokenRequest PROVE Kept
<1> DEFINE m == Arrived("R")
<1>0. pc["R"] = "token" /\ q["R"] # <<>> /\ UNCHANGED <<config, nonce, buf, typed>>
  BY DEF HandleTokenRequest, Receives
<1>1. m \in Msg /\ ToOk("R", m) /\ nonce["R"] = Full
  <2>1. ControlOk("R", pc["R"], nonce["R"])
    BY TwoPeers DEF GateInv
  <2> QED BY <1>0, <2>1, TwoPeers, ArrivedIs DEF ControlOk
<1>2. CASE m.k # "token" /\ Fail("R", <<>>, {}, "parse") /\ UNCHANGED tries
  <2>1. "parse" \in Outcomes /\ OutcomeOk("R", "parse")
    BY DEF Outcomes, OutcomeOk
  <2> QED BY <1>0, <1>2, <2>1, TwoPeers, SayNothing, ParseKept
<1>3. ASSUME m.k = "token"
      PROVE  /\ Trusts("R", m.v) => KeyOk("R")
             /\ ~Trusts("R", m.v) => expect["R"] # SigningKey("S")
  <2>1. m.v = Token("S", Full)
    BY <1>1, <1>3, MsgIs
  <2>2. /\ Trusts("R", Token("S", Full)) => KeyOk("R")
        /\ ~Trusts("R", Token("S", Full)) => expect["R"] # SigningKey("S")
    BY <1>1, TwoPeers, TrustIs
  <2> QED BY <2>1, <2>2
<1>4. CASE /\ m.k = "token" /\ ~Trusts("R", m.v) /\ UNCHANGED tries
           /\ Fail("R", TokenResponse("invalidSignature", None), {}, "untrusted")
  <2>1. expect["R"] # SigningKey("S")
    BY <1>3, <1>4
  <2>2. "untrusted" \in Outcomes /\ OutcomeOk("R", "untrusted")
    BY <2>1, TwoPeers DEF Outcomes, OutcomeOk
  <2>3. ResponseOk([result |-> "invalidSignature", token |-> None])
    BY <2>1 DEF ResponseOk
  <2>4. Fine("S", TokenResponse("invalidSignature", None))
    BY <2>3, FineResponse
  <2>5. Plain("R", buf["R"])
    BY <1>0, <1>4, TwoPeers, PlainSame DEF pins
  <2> QED BY <1>4, <2>2, <2>4, <2>5, TwoPeers, SayNothing, FailKept
<1>5. CASE /\ m.k = "token" /\ Trusts("R", m.v) /\ pin["R"] = NoPin /\ UNCHANGED tries
           /\ Proceed("R", 1, TokenResponse("ok", Token("R", nonce["R"])), {}, "list")
  <2>1. ResponseOk([result |-> "ok", token |-> Token("R", Full)])
    BY <1>3, <1>5 DEF ResponseOk
  <2>2. Fine("S", TokenResponse("ok", Token("R", Full)))
    BY <2>1, FineResponse
  <2>3. PICK msgs : msgs = TokenResponse("ok", Token("R", Full))
    OBVIOUS
  <2>4. Proceed("R", 1, msgs, {}, "list") /\ Fine("S", msgs)
    BY <1>1, <1>5, <2>2, <2>3
  <2>5. ControlOk("R", "list", nonce["R"]) /\ "list" \in RPcs \ {"verify"}
    BY <1>1 DEF ControlOk, RPcs
  <2>6. Plain("R", buf["R"])
    BY <1>0, <1>5, TwoPeers, PlainSame DEF pins
  <2> QED BY <2>4, <2>5, <2>6, TwoPeers, SayNothing, ProceedKept
<1>6. CASE /\ m.k = "token" /\ Trusts("R", m.v) /\ pin["R"] # NoPin
           /\ Challenge("R", TokenResponse("pinRequired", Token("R", nonce["R"])))
  <2>1. ResponseOk([result |-> "pinRequired", token |-> Token("R", Full)])
    BY <1>3, <1>6 DEF ResponseOk
  <2>2. Fine("S", TokenResponse("pinRequired", Token("R", Full)))
    BY <2>1, FineResponse
  <2>3. PICK msgs, n, no, sts : /\ msgs = TokenResponse("pinRequired", Token("R", Full)) /\ n = 0
                                /\ no = ("R" = "S") /\ sts = {"PinRequired"}
    OBVIOUS
  <2>4. verify_pin("R", EmptyPin, n, no, msgs, sts) /\ Fine("S", msgs)
    BY <1>1, <1>6, <2>2, <2>3 DEF Challenge
  <2>5. n \in Nat /\ n <= MaxTries /\ sts \subseteq Statuses \ {"Connected"}
    BY <2>3, MaxTriesAssumption DEF Statuses
  <2>6. MayChallenge("R", EmptyPin)
    BY <1>1 DEF MayChallenge, Unlocked
  <2> QED BY <1>0, <2>4, <2>5, <2>6, TwoPeers, ChallengeKept
<1> QED BY <1>2, <1>4, <1>5, <1>6 DEF HandleTokenRequest

\* Who can read the file list in a buffer may.
LEMMA ListOpens == ASSUME GateInv, Parses(buf["R"], "list") PROVE AllOpen
<1>1. PICK s \in Strings : s.k = "list" /\ buf["R"] = Pieces(s)
  BY DEF Parses
<1>2. 1 \in DOMAIN buf["R"] /\ buf["R"][1] = <<s, 1>>
  BY <1>1, StrChunksAssumption DEF Pieces
<1>3. UnitsOk(buf["R"])
  BY TwoPeers DEF GateInv
<1> QED BY <1>1, <1>2, <1>3 DEF UnitsOk

\* The sender's answer to a PIN, or its file list.
LEMMA HandlePinSendingResponseKept ==
    ASSUME TaskTypes, GateInv, TriesInv, HandlePinSendingResponse PROVE Kept
<1>0. /\ pc["R"] \in {"list", "pinRes"} /\ buf' = [buf EXCEPT !["R"] = <<>>]
      /\ UNCHANGED <<config, nonce, pins>>
  BY DEF HandlePinSendingResponse, Ended, Receives
<1>1. Plain("R", <<>>) /\ Fine("S", <<>>)
  BY <1>0, TwoPeers, PlainEmpty, FineNone
<1>2. \A s \in {"select", "askPin"} : ControlOk("R", s, nonce["R"]) /\ s \in RPcs \ {"verify"}
  <2>1. ControlOk("R", pc["R"], nonce["R"])
    BY TwoPeers DEF GateInv
  <2> QED BY <1>0, <2>1 DEF ControlOk, RPcs
<1>3. \A why \in {"app", "parse", "tooMany", "unexpected"} : why \in Outcomes /\ OutcomeOk("R", why)
  BY DEF Outcomes, OutcomeOk
<1>4. \A st \in {"PinRequired", "TooManyAttempts", "Error"} : {st} \subseteq Statuses /\ ToldOk({st})
  BY DEF Statuses, ToldOk
<1>5. ASSUME NEW sts, sts \subseteq Statuses, ToldOk(sts),
             NEW why \in {"app", "parse", "tooMany", "unexpected"}, Fail("R", <<>>, sts, why)
      PROVE  Kept
  BY <1>1, <1>3, <1>5, TwoPeers, FailKept
<1>6. ASSUME NEW sts, sts \subseteq Statuses, ToldOk(sts),
             NEW s \in {"select", "askPin"}, Proceed("R", 1, <<>>, sts, s)
      PROVE  Kept
  BY <1>1, <1>2, <1>6, TwoPeers, ProceedKept
<1>7. CASE Parses(buf["R"], "list") /\ ShowFiles
  <2>1. {"Connected"} \subseteq Statuses /\ ToldOk({"Connected"})
    BY <1>7, ListOpens DEF Statuses, ToldOk
  <2> QED BY <1>5, <1>6, <1>7, <2>1 DEF ShowFiles
<1>8. CASE Proceed("R", 1, <<>>, {"PinRequired"}, "askPin")
  BY <1>4, <1>6, <1>8
<1>9. CASE Fail("R", <<>>, {"TooManyAttempts"}, "tooMany")
  BY <1>4, <1>5, <1>9
<1>10. CASE Fail("R", <<>>, {"Error"}, "unexpected")
  BY <1>4, <1>5, <1>10
<1>11. CASE Fail("R", <<>>, {}, "parse")
  BY <1>5, <1>11, SayNothing
<1> QED BY <1>7, <1>8, <1>9, <1>10, <1>11 DEF HandlePinSendingResponse

\* The user selects.
LEMMA SelectKept == ASSUME TaskTypes, GateInv, TriesInv, Select PROVE Kept
<1>0. pc["R"] = "select" /\ UNCHANGED <<config, nonce, buf, pins>>
  BY DEF Select
<1>1. PICK fs \in Selections : Proceed("R", 0, InChunks(Str("ok", fs)), {}, "files")
  BY DEF Select
<1>2. Str("ok", fs) \in Strings /\ Str("ok", fs).k # "list"
  BY SelectionsAssumption, StringsAre
<1>3. Fine("S", InChunks(Str("ok", fs)))
  BY <1>2, TwoPeers, FineChunks
<1>4. ControlOk("R", "files", nonce["R"]) /\ "files" \in RPcs \ {"verify"}
  <2>1. ControlOk("R", pc["R"], nonce["R"])
    BY TwoPeers DEF GateInv
  <2> QED BY <1>0, <2>1 DEF ControlOk, RPcs
<1>5. Plain("R", buf["R"])
  BY <1>0, TwoPeers, PlainSame
<1> QED BY <1>1, <1>3, <1>4, <1>5, TwoPeers, SayNothing, ProceedKept

\* The user declines, or nobody asks the user.
LEMMA DeclineKept == ASSUME TaskTypes, GateInv, TriesInv, Decline \/ DropSelection PROVE Kept
<1>0. /\ UNCHANGED <<config, nonce, buf, pins>>
      /\ Complete("R", InChunks(Str("declined", {})), {}) \/ Complete("R", <<>>, {})
  BY DEF Decline, DropSelection
<1>1. Str("declined", {}) \in Strings /\ Str("declined", {}).k # "list"
  BY StringsAre
<1>2. Fine("S", InChunks(Str("declined", {}))) /\ Fine("S", <<>>)
  BY <1>1, TwoPeers, FineChunks, FineNone
<1>3. Plain("R", buf["R"])
  BY <1>0, TwoPeers, PlainSame
<1> QED BY <1>0, <1>2, <1>3, TwoPeers, SayNothing, CompleteKept

\* The result of the open file.
LEMMA FineResult ==
    ASSUME FileTypes, NEW ok \in BOOLEAN
    PROVE  /\ open # None => Fine("S", Result(open, ok))
           /\ Fine("S", IF open = None THEN <<>> ELSE Result(open, ok))
<1>0. Fine("S", <<>>)
  BY TwoPeers, FineNone
<1>1. ASSUME open # None PROVE Fine("S", Result(open, ok))
  <2>1. PICK k \in {"success", "failure"} : k = IF ok THEN "success" ELSE "failure"
    OBVIOUS
  <2>2. Text(k, open) \in Msg
    BY <1>1 DEF FileTypes, Text, Msg
  <2>3. ToOk("S", Text(k, open))
    BY TwoPeers, TextTo
  <2>4. Fine("S", <<Text(k, open)>>)
    BY <2>2, <2>3, TwoPeers, FineOne
  <2> QED BY <2>1, <2>4 DEF Result
<1> QED BY <1>0, <1>1

\* The file loop of the receiver.
LEMMA ReceiveFilesKept ==
    ASSUME TaskTypes, FileTypes, GateInv, TriesInv,
           ReceiveEnd \/ ReceiveHeader \/ ReceiveBadHeader \/ ReceiveBinary
    PROVE  Kept
<1>0. pc["R"] = "files" /\ UNCHANGED <<config, nonce, buf, pins>>
  BY DEF ReceiveEnd, ReceiveHeader, ReceiveBadHeader, ReceiveBinary, Ended, Receives
<1>1. Plain("R", buf["R"]) /\ Fine("S", <<>>)
  BY <1>0, TwoPeers, PlainSame, FineNone
<1>2. ControlOk("R", "files", nonce["R"]) /\ "files" \in RPcs \ {"verify"}
  <2>1. ControlOk("R", pc["R"], nonce["R"])
    BY TwoPeers DEF GateInv
  <2> QED BY <1>0, <2>1 DEF RPcs
<1>3. \A why \in {"app", "parse"} : why \in Outcomes /\ OutcomeOk("R", why)
  BY DEF Outcomes, OutcomeOk
<1>4. ASSUME NEW msgs, Fine("S", msgs), Proceed("R", 1, msgs, {}, "files") PROVE Kept
  BY <1>1, <1>2, <1>4, TwoPeers, SayNothing, ProceedKept
<1>5. ASSUME NEW msgs, Fine("S", msgs), NEW why \in {"app", "parse"}, Fail("R", msgs, {}, why)
      PROVE  Kept
  BY <1>1, <1>3, <1>5, TwoPeers, SayNothing, FailKept
<1>6. CASE ReceiveEnd
  <2>1. PICK ok \in BOOLEAN : open # None /\ Complete("R", Result(open, ok), {})
    BY <1>6 DEF ReceiveEnd
  <2>2. Fine("S", Result(open, ok))
    BY <2>1, FineResult
  <2> QED BY <1>1, <2>1, <2>2, TwoPeers, SayNothing, CompleteKept
<1>7. CASE ReceiveHeader
  <2>1. PICK ok \in BOOLEAN :
            Proceed("R", 1, IF open = None THEN <<>> ELSE Result(open, ok), {}, "files")
    BY <1>7 DEF ReceiveHeader
  <2>2. Fine("S", IF open = None THEN <<>> ELSE Result(open, ok))
    BY FineResult
  <2> QED BY <1>4, <2>1, <2>2
<1>8. CASE ReceiveBadHeader
  <2>1. PICK ok \in BOOLEAN :
            Fail("R", IF open = None THEN <<>> ELSE Result(open, ok), {}, "parse")
    BY <1>8 DEF ReceiveBadHeader
  <2>2. Fine("S", IF open = None THEN <<>> ELSE Result(open, ok))
    BY FineResult
  <2> QED BY <1>5, <2>1, <2>2
<1>9. CASE ReceiveBinary
  <2>1. Proceed("R", 1, <<>>, {}, "files") \/ Fail("R", <<>>, {}, "app")
    BY <1>9 DEF ReceiveBinary
  <2> QED BY <1>1, <1>4, <1>5, <2>1
<1> QED BY <1>6, <1>7, <1>8, <1>9

----------------------------------------------------------------------------
(* The file loops *)

\* The variables of the file loops keep their types.
LEMMA FilesKept == ASSUME TaskTypes, FileTypes, GateInv, Next PROVE FileTypes'
<1> USE DEF FileTypes
<1>1. ASSUME UNCHANGED <<sender, receiver>> PROVE FileTypes'
  BY <1>1 DEF sender, receiver
<1>2. ASSUME NEW p \in Peers, PinTask(p) \/ Disconnect(p) PROVE FileTypes'
  BY <1>1, <1>2 DEF PinTask, ReceiveChunk, VerifyPin, EnterPin, DropPinRequest, Disconnect
<1>3. CASE SendNonce \/ SendToken \/ HandleTokenResponse \/ HandlePinReceivingResponse \/ SendEnd
           \/ AwaitStatus \/ ReceiveNonce \/ HandleTokenRequest \/ HandlePinSendingResponse
           \/ Decline \/ DropSelection
  BY <1>1, <1>3 DEF SendNonce, SendToken, HandleTokenResponse, HandlePinReceivingResponse, SendEnd,
     AwaitStatus, ReceiveNonce, HandleTokenRequest, HandlePinSendingResponse, Decline, DropSelection
<1>4. CASE HandleFileListResponse
  <2>1. UNCHANGED <<given, cur, read, sbuf, receiver>>
    BY <1>4 DEF HandleFileListResponse
  <2>2. fileMap' \subseteq Files
    <3>1. CASE Parses(buf["S"], "ok") /\ fileMap' = Parsed(buf["S"], "ok").files
      <4>1. Parsed(buf["S"], "ok") \in Strings
        BY <3>1 DEF Parses, Parsed
      <4> QED BY <3>1, <4>1, StringsAre
    <3>2. CASE UNCHANGED fileMap
      BY <3>2
    <3> QED BY <1>4, <3>1, <3>2 DEF HandleFileListResponse
  <2> QED BY <2>1, <2>2 DEF receiver
<1>5. CASE SendHeader
  <2>1. UNCHANGED <<fileMap, read, sbuf, receiver>>
    BY <1>5 DEF SendHeader
  <2>2. given' \subseteq Files /\ cur' \in Files \cup {None}
    BY <1>5 DEF SendHeader
  <2> QED BY <2>1, <2>2 DEF receiver
<1>6. CASE SendChunks
  <2>1. UNCHANGED <<fileMap, given, receiver>> /\ cur \in Files /\ pc["S"] = "sending"
    BY <1>6 DEF SendChunks
  <2>2. PICK n \in 1..(Size[cur] - read[cur]), ok \in BOOLEAN :
            LET b == sbuf \o SubSeq(Content(cur), read[cur] + 1, read[cur] + n)
            IN  /\ read' = [read EXCEPT ![cur] = read[cur] + n]
                /\ sbuf' = IF ok THEN Leftover(b) ELSE <<>>
                /\ cur' = IF ok THEN cur ELSE None
    <3>1. PICK n \in 1..(Size[cur] - read[cur]) :
            LET b == sbuf \o SubSeq(Content(cur), read[cur] + 1, read[cur] + n)
            IN  /\ read' = [read EXCEPT ![cur] = read[cur] + n]
                /\ \E ok \in SendResults("S", FullChunks(b)) :
                      /\ sbuf' = IF ok THEN Leftover(b) ELSE <<>>
                      /\ cur' = IF ok THEN cur ELSE None
      BY <1>6 DEF SendChunks
    <3>2. \A msgs : SendResults("S", msgs) \subseteq BOOLEAN
      BY Zenon DEF SendResults
    <3> QED BY <3>1, <3>2
  <2>3. PICK b \in Seq(Unit) : b = sbuf \o SubSeq(Content(cur), read[cur] + 1, read[cur] + n)
    BY <2>1, BufferIs
  <2>4. Leftover(b) \in Seq(Unit)
    BY <2>1, SenderOpen, TwoPeers, ChunksFine
  <2>5. sbuf' \in Seq(Unit) /\ cur' \in Files \cup {None}
    BY <2>1, <2>2, <2>3, <2>4
  <2>6. read' \in [Files -> Nat]
    <3>1. read[cur] \in Nat /\ n \in Nat /\ read[cur] + n \in Nat
      BY <2>1, ContentIs
    <3> QED BY <2>1, <2>2, <3>1
  <2> QED BY <2>1, <2>5, <2>6 DEF receiver
<1>7. CASE SendRest
  BY <1>7 DEF SendRest, receiver
<1>8. CASE Select
  <2>1. selected' \subseteq Files
    BY <1>8, SelectionsAssumption DEF Select
  <2> QED BY <1>8, <2>1 DEF Select, sender
<1>9. ASSUME NEW ok \in BOOLEAN, AnswerOpen(ok)
      PROVE  answer' \in [Files -> {"none", "success", "failure"}]
  BY <1>9 DEF AnswerOpen
<1>10. CASE ReceiveEnd
  BY <1>9, <1>10 DEF ReceiveEnd, sender
<1>11. CASE ReceiveBadHeader
  BY <1>9, <1>11 DEF ReceiveBadHeader, sender
<1>12. CASE ReceiveHeader
  <2>1. Arrived("R").v \in Files
    <3>1. q["R"] # <<>> /\ Arrived("R").k = "header"
      BY <1>12 DEF ReceiveHeader, Ended, Receives
    <3>2. Arrived("R") \in Msg
      BY <3>1, TwoPeers, ArrivedIs
    <3> QED BY <3>1, <3>2, MsgIs
  <2>2. answer' \in [Files -> {"none", "success", "failure"}]
    BY <1>9, <1>12 DEF ReceiveHeader
  <2>3. open' \in Files \cup {None} /\ fileErrors' \subseteq Files \cup {None}
    BY <1>12, <2>1 DEF ReceiveHeader
  <2> QED BY <1>12, <2>2, <2>3 DEF ReceiveHeader, sender
<1>13. CASE ReceiveBinary
  <2>1. fileErrors' \subseteq Files \cup {None}
    BY <1>13 DEF ReceiveBinary
  <2> QED BY <1>13, <2>1 DEF ReceiveBinary, sender
<1> QED BY <1>2, <1>3, <1>4, <1>5, <1>6, <1>7, <1>8, <1>10, <1>11, <1>12, <1>13
        DEF Next, SendTask, ReceiveTask

----------------------------------------------------------------------------
(* The invariant *)

\* Every step keeps the invariant.
LEMMA StepInv == ASSUME AllInv, [Next]_vars PROVE AllInv'
<1>0. TaskTypes /\ FileTypes /\ GateInv /\ TriesInv
  BY DEF AllInv
<1>1. CASE SendTask
  BY <1>0, <1>1, SendNonceKept, SendTokenKept, HandleTokenResponseKept,
     HandlePinReceivingResponseKept, HandleFileListResponseKept, SendHeaderKept, SendChunksKept,
     SendRestKept, SendEndKept, AwaitStatusKept, FilesKept
     DEF SendTask, Kept, AllInv, Next
<1>2. CASE ReceiveTask
  BY <1>0, <1>2, ReceiveNonceKept, HandleTokenRequestKept, HandlePinSendingResponseKept, SelectKept,
     DeclineKept, ReceiveFilesKept, FilesKept
     DEF ReceiveTask, Kept, AllInv, Next
<1>3. ASSUME NEW p \in Peers, PinTask(p) \/ Disconnect(p) PROVE AllInv'
  BY <1>0, <1>3, ReceiveChunkKept, VerifyPinKept, EnterPinKept, DropPinRequestKept, DisconnectKept,
     FilesKept
     DEF PinTask, Kept, AllInv, Next
<1>4. CASE UNCHANGED vars
  <2>1. UNCHANGED <<config, nonce, control, buf, pins, sender, receiver>>
    BY <1>4 DEF vars
  <2>2. FileTypes'
    BY <1>0, <2>1 DEF FileTypes, sender, receiver
  <2> QED BY <1>0, <2>1, <2>2, StutterKept DEF Kept, AllInv
<1> QED BY <1>1, <1>2, <1>3, <1>4 DEF Next

\* The invariant holds initially.
LEMMA InitInv == ASSUME Init PROVE AllInv
<1>1. PICK s \in Scenarios : pin = s.pin /\ expect = s.expect /\ faults = s.faults
  BY DEF Init
<1>2. [pin |-> pin, expect |-> expect, faults |-> faults] \in Scenarios
  BY <1>1, ScenariosAssumption
<1>3. TaskTypes
  <2>1. /\ pc = [p \in Peers |-> IF p = "S" THEN "start" ELSE "nonce"]
        /\ pc["S"] \in SPcs /\ pc["R"] \in RPcs /\ pc \in [Peers -> SPcs \cup RPcs]
    BY DEF Init, Peers, SPcs, RPcs
  <2>2. /\ nonce \in [Peers -> {None, GS, Full}] /\ q \in [Peers -> Seq(Msg)]
        /\ buf \in [Peers -> Seq(Unit)] /\ tries \in [Peers -> Nat]
    BY DEF Init
  <2>3. /\ typed \in [Peers -> SUBSET Guesses] /\ end \in [Peers -> {"running", "finished", "failed"}]
        /\ told \in [Peers -> SUBSET Statuses] /\ outcome \in [Peers -> Outcomes]
    BY DEF Init, Statuses, Outcomes
  <2> QED BY <1>2, <2>1, <2>2, <2>3 DEF TaskTypes
<1>4. FileTypes
  BY DEF Init, FileTypes
<1>5. GateInv
  <2> SUFFICES ASSUME NEW p \in Peers
               PROVE  /\ ControlOk(p, pc[p], nonce[p])
                      /\ \A i \in DOMAIN q[p] : ToOk(p, q[p][i])
                      /\ UnitsOk(buf[p]) /\ OutcomeOk(p, outcome[p]) /\ ToldOk(told[p])
    BY DEF GateInv
  <2>1. /\ pc[p] = (IF p = "S" THEN "start" ELSE "nonce") /\ q[p] = <<>> /\ buf[p] = <<>>
        /\ outcome[p] = "none" /\ told[p] = {"SdpExchanged"}
    BY DEF Init
  <2> QED BY <2>1 DEF ControlOk, UnitsOk, OutcomeOk, ToldOk
<1>6. TriesInv
  BY MaxTriesAssumption DEF Init, TriesInv, Peers
<1> QED BY <1>3, <1>4, <1>5, <1>6 DEF AllInv

\* The invariant always holds.
LEMMA Invariance == Spec => []AllInv
<1>1. Init => AllInv
  BY InitInv
<1>2. AllInv /\ [Next]_vars => AllInv'
  BY StepInv
<1> QED BY <1>1, <1>2, PTL DEF Spec

----------------------------------------------------------------------------
(* Theorems *)

\* Every variable has its type: neither task is ever at a control point of the
\* other one, and nothing that is not a message of the protocol is queued.
THEOREM TypeCorrect == Spec => []TypeOK
<1>1. AllInv => TypeOK
  <2> SUFFICES ASSUME AllInv PROVE TypeOK
    OBVIOUS
  <2>1. TaskTypes /\ FileTypes
    BY DEF AllInv
  <2>2. \A p \in Peers : nonce[p] # None => validate_nonce(nonce[p])
    BY <2>1, NoncesValid DEF TaskTypes
  <2>3. \A p \in Peers : \A i \in 1..Len(q[p]) : q[p][i].k \in Kinds
    <3> SUFFICES ASSUME NEW p \in Peers, NEW i \in 1..Len(q[p]) PROVE q[p][i].k \in Kinds
      OBVIOUS
    <3>1. q[p] \in Seq(Msg)
      BY <2>1 DEF TaskTypes
    <3>2. q[p][i] \in Msg
      BY <3>1
    <3> QED BY <3>2, MsgIs
  <2> QED BY <2>1, <2>2, <2>3 DEF TaskTypes, FileTypes, TypeOK
<1> QED BY <1>1, Invariance, PTL

\* Whoever sees the file list has typed every PIN that was set and holds every
\* key that was asked for, for any PINs and keys, wherever the connection is
\* lost and however the apps answer (webrtc.rs:295-393).
THEOREM PinGateCorrect == Spec => []PinGate
<1>1. AllInv => PinGate
  <2> SUFFICES ASSUME AllInv, "Connected" \in told["S"] \/ "Connected" \in told["R"]
               PROVE  /\ Unlocked("S") /\ Unlocked("R")
                      /\ \A p \in Peers : expect[p] \in {None, SigningKey(Other(p))}
    BY DEF PinGate
  <2>1. AllOpen
    BY TwoPeers DEF AllInv, GateInv, ToldOk
  <2> QED BY <2>1 DEF AllOpen, KeyOk, Peers
<1> QED BY <1>1, Invariance, PTL

\* A peer is never turned away when it has the very key that the other one asked
\* for: both sign and check the same nonce (webrtc.rs:236-246, 678-692).
THEOREM KeysCorrect == Spec => []RightKeyAccepted
<1>1. AllInv => RightKeyAccepted
  BY DEF AllInv, GateInv, OutcomeOk, RightKeyAccepted
<1> QED BY <1>1, Invariance, PTL

\* No peer looks at more PINs than max_tries, for any max_tries (verify_pin).
THEOREM TriesCorrect == Spec => []TriesBounded
<1>1. AllInv => TriesBounded
  BY MaxTriesAssumption DEF AllInv, TriesInv, TaskTypes, TriesBounded
<1> QED BY <1>1, Invariance, PTL

=============================================================================
