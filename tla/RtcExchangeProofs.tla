------------------------- MODULE RtcExchangeProofs -------------------------
(***************************************************************************)
(* The exchange of messages of a transfer: at each pair of control points  *)
(* of the two tasks, what may be on its way between them.  So neither task *)
(* meets a message it does not expect, and they never wait for each other, *)
(* for any files, PINs, keys, numbers of tries and sizes of chunks.        *)
(*                                                                         *)
(* And what the transfer is for its two users: it implements FileTransfer. *)
(***************************************************************************)
EXTENDS RtcStreamProofs, RtcRefinement

----------------------------------------------------------------------------
(* The invariants *)

\* At most one message, of kind k; exactly one.
AtMost(t, k) == Len(t) <= 1 /\ \A i \in 1..Len(t) : t[i].k = k
One(t, k) == Len(t) = 1 /\ t[1].k = k

\* The messages t continue the string s behind what has been collected of it in b;
\* they end it.
Chunk(s, j) == IF j = StrChunks + 1 THEN Delimiter ELSE Bin(<<<<s, j>>>>)
Comes(s, b, t) ==
    /\ Len(b) <= StrChunks /\ Len(b) + Len(t) <= StrChunks + 1
    /\ \A j \in 1..Len(b) : b[j] = <<s, j>>
    /\ \A i \in 1..Len(t) : t[i] = Chunk(s, Len(b) + i)
ComesAll(k, b, t) ==
    \E s \in Strings : s.k = k /\ Comes(s, b, t) /\ Len(b) + Len(t) = StrChunks + 1

\* The strings that are an answer at a control point: before the receiver has sent a
\* PIN, there may have been too many of them only if none is allowed.
Answers(at) ==
    {"list", "pinRequired"}
        \cup (IF at = "pinRes" \/ (MaxTries = 0 /\ pin["S"] \notin {NoPin, EmptyPin})
              THEN {"tooMany"} ELSE {})

\* The receiver at r, with b collected, can read the messages t.
ReadsR(r, b, t) ==
    /\ r = "nonce" => AtMost(t, "nonce")
    /\ r = "token" => AtMost(t, "token")
    /\ r = "verify" => AtMost(t, "pin")
    /\ r \in {"askPin", "select"} => t = <<>>
    /\ r \in {"list", "pinRes"} => \E s \in Strings : s.k \in Answers(r) /\ Comes(s, b, t)

\* The same of the sender.
ReadsS(c, b, t) ==
    /\ c = "start" => t = <<>>
    /\ c = "nonce" => AtMost(t, "nonce")
    /\ c = "token" =>
          /\ Len(t) <= 2
          /\ t # <<>> => t[1].k = "tokenRes"
          /\ Len(t) = 2 => t[1].v.result = "pinRequired" /\ t[2].k = "pinRes"
    /\ c \in {"askPin", "pinRes"} => AtMost(t, "pinRes")
    /\ c = "verify" => AtMost(t, "pin")
    /\ c = "selection" =>
          \E s \in Strings :
              /\ s.k \in {"ok", "declined"} /\ Comes(s, b, t)
              /\ s.k = "ok" => s.files # {} \/ "selectNone" \in faults

ReadInv ==
    pin["R"] # EmptyPin => ReadsS(pc["S"], buf["S"], q["S"]) /\ ReadsR(pc["R"], buf["R"], q["R"])

\* The receiver's empty PIN is met before the sender has sent one: the sender's PIN
\* finds a receiver that waits for the file list.
Astray(c, s, r, b, t) ==
    /\ pin["R"] = EmptyPin /\ r = "list" /\ b = <<>>
    /\ \/ c = "token" /\ t = <<>> /\ Len(s) = 2 /\ s[1].k = "tokenRes"
          /\ s[1].v.result = "pinRequired" /\ s[2].k = "pinRes" /\ s[2].v = "ok"
       \/ c = "askPin" /\ t = <<>> /\ One(s, "pinRes") /\ s[1].v = "ok"
       \/ c = "pinRes" /\ t # <<>> /\ t[1].k = "pin" /\ One(s, "pinRes") /\ s[1].v = "ok"
       \/ c \in {"verify", "selection"} /\ t # <<>> /\ t[1].k = "pin" /\ s = <<>>

\* The sender at c, with a collected and s to read, and the receiver at r, with b
\* collected and t to read, as long as nothing is lost.
Linked(c, a, s, r, b, t) ==
    \/ c = "start" /\ r = "nonce" /\ s = <<>> /\ t = <<>>
    \/ c = "nonce" /\ r = "nonce" /\ s = <<>> /\ One(t, "nonce")
    \/ c = "nonce" /\ r = "token" /\ One(s, "nonce") /\ t = <<>>
    \/ c = "token" /\ r = "token" /\ s = <<>> /\ One(t, "token")
    \/ c = "token" /\ r = "list" /\ One(s, "tokenRes") /\ s[1].v.result = "ok" /\ b = <<>> /\ t = <<>>
    \/ c = "token" /\ r = "verify" /\ One(s, "tokenRes") /\ s[1].v.result = "pinRequired" /\ t = <<>>
    \/ c = "askPin" /\ r = "verify" /\ s = <<>> /\ t = <<>>
    \/ c = "pinRes" /\ r = "verify" /\ s = <<>> /\ One(t, "pin")
    \/ c = "pinRes" /\ r = "verify" /\ One(s, "pinRes") /\ s[1].v = "pinRequired" /\ t = <<>>
    \/ c = "pinRes" /\ r = "list" /\ One(s, "pinRes") /\ s[1].v = "ok" /\ b = <<>> /\ t = <<>>
    \/ c = "verify" /\ r \in {"list", "pinRes"} /\ s = <<>> /\ ComesAll("pinRequired", b, t)
    \/ c = "verify" /\ r = "askPin" /\ s = <<>> /\ t = <<>>
    \/ c = "verify" /\ r = "pinRes" /\ One(s, "pin") /\ b = <<>> /\ t = <<>>
    \/ c = "selection" /\ r \in {"list", "pinRes"} /\ a = <<>> /\ s = <<>> /\ ComesAll("list", b, t)
    \/ c = "selection" /\ r = "select" /\ a = <<>> /\ s = <<>> /\ t = <<>>
    \/ c = "selection" /\ r = "files" /\ ComesAll("ok", a, s) /\ t = <<>>
    \/ c = "sending" /\ r = "files" /\ \A i \in 1..Len(t) : t[i].k # "delimiter"
    \/ c = "status" /\ r = "files" /\ t # <<>> /\ t[Len(t)].k = "delimiter"
    \/ Astray(c, s, r, b, t)

LinkInv ==
    Live /\ pc["S"] # "dead" /\ pc["R"] # "dead" =>
        Linked(pc["S"], buf["S"], q["S"], pc["R"], buf["R"], q["R"])

\* The apps play along and select something, and the receiver's PIN, if any, is typed.
Nice == faults \subseteq {"netFail"} /\ pin["R"] # EmptyPin

\* In the file loop of the receiver.
LoopReads(P, t) ==
    \A i \in 1..Len(t) :
        /\ t[i].k \in {"bin", "header", "delimiter"}
        /\ t[i].k = "delimiter" /\ Nice => At(P, t, i)[1] # None
LoopInv ==
    /\ pc["R"] = "files" => LoopReads(Received, q["R"])
    /\ Live /\ pc["S"] = "sending" /\ pc["R"] = "files" =>
          (At(Received, q["R"], Len(q["R"]) + 1)[1] = None => given \cap fileMap = {})
    /\ Nice /\ pc["S"] \in {"sending", "status"} => fileMap # {}

----------------------------------------------------------------------------
(* Parts of what is on its way *)

\* The first part of what can be read can be read.
LEMMA ReadsFirst ==
    ASSUME NEW t \in Seq(Msg), NEW u \in Seq(Msg), IsFirst(u, t), NEW c, NEW b \in Seq(Unit)
    PROVE  (ReadsR(c, b, t) => ReadsR(c, b, u)) /\ (ReadsS(c, b, t) => ReadsS(c, b, u))
<1>0. /\ Len(u) \in Nat /\ Len(t) \in Nat /\ Len(b) \in Nat /\ Len(u) <= Len(t)
      /\ \A i \in 1..Len(u) : i \in 1..Len(t) /\ u[i] = t[i]
  BY DEF IsFirst
<1>1. \A k : AtMost(t, k) => AtMost(u, k)
  BY <1>0 DEF AtMost
<1>2. t = <<>> => u = <<>>
  BY <1>0
<1>3. ASSUME NEW s, Comes(s, b, t) PROVE Comes(s, b, u)
  BY <1>0, <1>3, StrChunksAssumption DEF Comes
<1>4. ReadsR(c, b, t) => ReadsR(c, b, u)
  BY <1>1, <1>2, <1>3 DEF ReadsR
<1>5. Len(t) <= 2 => Len(u) <= 2
  BY <1>0
<1>6. u # <<>> => t # <<>> /\ u[1] = t[1]
  <2> SUFFICES ASSUME u # <<>> PROVE 1 \in 1..Len(u)
    BY <1>0, <1>2
  <2> QED OBVIOUS
<1>7. Len(t) <= 2 /\ Len(u) = 2 => Len(t) = 2 /\ u[1] = t[1] /\ u[2] = t[2]
  BY <1>0
<1>8. ReadsS(c, b, t) => ReadsS(c, b, u)
  <2> SUFFICES ASSUME ReadsS(c, b, t) PROVE ReadsS(c, b, u)
    OBVIOUS
  <2>1. c = "token" => /\ Len(u) <= 2
                       /\ u # <<>> => u[1].k = "tokenRes"
                       /\ Len(u) = 2 => u[1].v.result = "pinRequired" /\ u[2].k = "pinRes"
    BY <1>5, <1>6, <1>7 DEF ReadsS
  <2> QED BY <1>1, <1>2, <1>3, <2>1 DEF ReadsS
<1> QED BY <1>4, <1>8

\* Nobody is configured anew.
LEMMA LinkStable ==
    ASSUME UNCHANGED config
    PROVE  /\ \A c, b, t : ReadsS(c, b, t) <=> ReadsS(c, b, t)'
           /\ \A c, b, t : ReadsR(c, b, t) <=> ReadsR(c, b, t)'
           /\ \A c, a, s, r, b, t : Linked(c, a, s, r, b, t) <=> Linked(c, a, s, r, b, t)'
           /\ Nice <=> Nice'
<1>1. UNCHANGED <<pin, faults>>
  BY DEF config
<1>2. \A c, b, t : ReadsS(c, b, t) <=> ReadsS(c, b, t)'
  BY <1>1 DEF ReadsS
<1>3. \A c, s, r, b, t : Astray(c, s, r, b, t) <=> Astray(c, s, r, b, t)'
  BY <1>1 DEF Astray
<1>4. \A c, a, s, r, b, t : Linked(c, a, s, r, b, t) <=> Linked(c, a, s, r, b, t)'
  BY <1>3 DEF Linked
<1>5. \A c, b, t : ReadsR(c, b, t) <=> ReadsR(c, b, t)'
  BY <1>1 DEF ReadsR, Answers
<1> QED BY <1>1, <1>2, <1>4, <1>5 DEF Nice

\* What q[p] is once its task has taken n messages.
Left(p, n) == SubSeq(q[p], n + 1, Len(q[p]))

\* Both tasks are linked.
Link == Live /\ pc["S"] # "dead" /\ pc["R"] # "dead"

\* A step of the sender to one of nexts, with the buffer a, that sends msgs.
LEMMA SenderLinks ==
    ASSUME TaskTypes, ReadInv, LinkInv, UNCHANGED config, pc["S"] # "dead",
           NEW a, buf' = [buf EXCEPT !["S"] = a],
           NEW n \in {0, 1}, NEW msgs \in Seq(Msg), NEW nexts, Passed("S", n, msgs, nexts),
           pin["R"] # EmptyPin => \A x \in nexts \ {"dead"} : ReadsS(x, a, Left("S", n)),
           Link => /\ pin["R"] # EmptyPin => ReadsR(pc["R"], buf["R"], q["R"] \o msgs)
                   /\ \A x \in nexts \ {"dead"} :
                         Linked(x, a, Left("S", n), pc["R"], buf["R"], q["R"] \o msgs)
    PROVE  ReadInv' /\ LinkInv'
<1>0. /\ pc'["R"] = pc["R"] /\ buf'["R"] = buf["R"] /\ buf'["S"] = a /\ pin' = pin
      /\ pc'["S"] \in nexts /\ (pc'["S"] = "dead" \/ q'["S"] = Left("S", n))
      /\ buf["R"] \in Seq(Unit)
  BY TwoPeers DEF Passed, TaskTypes, Left, config
<1>1. /\ q["R"] \in Seq(Msg) /\ q'["R"] \in Seq(Msg) /\ Sent("S", msgs) \in Seq(Msg)
      /\ Sent("S", msgs) = IF Live THEN q["R"] \o msgs ELSE q["R"]
      /\ IsFirst(q'["R"], Sent("S", msgs)) /\ (Live' => Live /\ q'["R"] = Sent("S", msgs))
  BY TwoPeers, SentFirst DEF Passed
<1>2. ASSUME pin["R"] # EmptyPin PROVE ReadsR(pc'["R"], buf'["R"], q'["R"])
  <2>1. CASE pc["R"] = "dead"
    BY <1>0, <2>1 DEF ReadsR
  <2>2. CASE pc["R"] # "dead"
    <3>1. ReadsR(pc["R"], buf["R"], Sent("S", msgs))
      BY <1>1, <1>2, <2>2 DEF ReadInv, Link
    <3> QED BY <1>0, <1>1, <3>1, ReadsFirst
  <2> QED BY <2>1, <2>2
<1>3. ASSUME pin["R"] # EmptyPin PROVE ReadsS(pc'["S"], buf'["S"], q'["S"])
  BY <1>0, <1>3 DEF ReadsS
<1>4. ReadInv'
  <2>1. pin["R"] # EmptyPin => ReadsS(pc["S"], buf["S"], q["S"])' /\ ReadsR(pc["R"], buf["R"], q["R"])'
    <3>1. /\ \A c, b, t : ReadsS(c, b, t) <=> ReadsS(c, b, t)'
          /\ \A c, b, t : ReadsR(c, b, t) <=> ReadsR(c, b, t)'
      BY LinkStable
    <3> QED BY <1>2, <1>3, <3>1
  <2> QED BY <1>0, <2>1 DEF ReadInv
<1>5. LinkInv'
  <2> SUFFICES ASSUME Live', pc'["S"] # "dead", pc'["R"] # "dead"
               PROVE  Linked(pc["S"], buf["S"], q["S"], pc["R"], buf["R"], q["R"])'
    BY DEF LinkInv
  <2>1. Linked(pc'["S"], buf'["S"], q'["S"], pc'["R"], buf'["R"], q'["R"])
    BY <1>0, <1>1 DEF Link
  <2> QED BY <2>1, LinkStable
<1> QED BY <1>4, <1>5

\* A step of the receiver to one of nexts, with the buffer b, that sends msgs.
LEMMA ReceiverLinks ==
    ASSUME TaskTypes, ReadInv, LinkInv, UNCHANGED config, pc["R"] # "dead",
           NEW b, buf' = [buf EXCEPT !["R"] = b],
           NEW n \in {0, 1}, NEW msgs \in Seq(Msg), NEW nexts, Passed("R", n, msgs, nexts),
           pin["R"] # EmptyPin => \A x \in nexts \ {"dead"} : ReadsR(x, b, Left("R", n)),
           Link => /\ pin["R"] # EmptyPin => ReadsS(pc["S"], buf["S"], q["S"] \o msgs)
                   /\ \A x \in nexts \ {"dead"} :
                         Linked(pc["S"], buf["S"], q["S"] \o msgs, x, b, Left("R", n))
    PROVE  ReadInv' /\ LinkInv'
<1>0. /\ pc'["S"] = pc["S"] /\ buf'["S"] = buf["S"] /\ buf'["R"] = b /\ pin' = pin
      /\ pc'["R"] \in nexts /\ (pc'["R"] = "dead" \/ q'["R"] = Left("R", n))
      /\ buf["S"] \in Seq(Unit)
  BY TwoPeers DEF Passed, TaskTypes, Left, config
<1>1. /\ q["S"] \in Seq(Msg) /\ q'["S"] \in Seq(Msg) /\ Sent("R", msgs) \in Seq(Msg)
      /\ Sent("R", msgs) = IF Live THEN q["S"] \o msgs ELSE q["S"]
      /\ IsFirst(q'["S"], Sent("R", msgs)) /\ (Live' => Live /\ q'["S"] = Sent("R", msgs))
  BY TwoPeers, SentFirst DEF Passed
<1>2. ASSUME pin["R"] # EmptyPin PROVE ReadsS(pc'["S"], buf'["S"], q'["S"])
  <2>1. CASE pc["S"] = "dead"
    BY <1>0, <2>1 DEF ReadsS
  <2>2. CASE pc["S"] # "dead"
    <3>1. ReadsS(pc["S"], buf["S"], Sent("R", msgs))
      BY <1>1, <1>2, <2>2 DEF ReadInv, Link
    <3> QED BY <1>0, <1>1, <3>1, ReadsFirst
  <2> QED BY <2>1, <2>2
<1>3. ASSUME pin["R"] # EmptyPin PROVE ReadsR(pc'["R"], buf'["R"], q'["R"])
  BY <1>0, <1>3 DEF ReadsR
<1>4. ReadInv'
  <2>1. pin["R"] # EmptyPin => ReadsS(pc["S"], buf["S"], q["S"])' /\ ReadsR(pc["R"], buf["R"], q["R"])'
    <3>1. /\ \A c, d, t : ReadsS(c, d, t) <=> ReadsS(c, d, t)'
          /\ \A c, d, t : ReadsR(c, d, t) <=> ReadsR(c, d, t)'
      BY LinkStable
    <3> QED BY <1>2, <1>3, <3>1
  <2> QED BY <1>0, <2>1 DEF ReadInv
<1>5. LinkInv'
  <2> SUFFICES ASSUME Live', pc'["S"] # "dead", pc'["R"] # "dead"
               PROVE  Linked(pc["S"], buf["S"], q["S"], pc["R"], buf["R"], q["R"])'
    BY DEF LinkInv
  <2>1. Linked(pc'["S"], buf'["S"], q'["S"], pc'["R"], buf'["R"], q'["R"])
    BY <1>0, <1>1 DEF Link
  <2> QED BY <2>1, LinkStable
<1> QED BY <1>4, <1>5

----------------------------------------------------------------------------
(* Strings in chunks *)

\* What is left once a message is taken, or none.
LEMMA LeftIs ==
    ASSUME TaskTypes, NEW p \in Peers
    PROVE  /\ q[p] \in Seq(Msg) /\ Len(q[p]) \in Nat /\ buf[p] \in Seq(Unit)
           /\ Left(p, 0) = q[p]
           /\ q[p] # <<>> => /\ Left(p, 1) \in Seq(Msg) /\ IsRest(Left(p, 1), q[p])
                             /\ Arrived(p) = q[p][1] /\ Arrived(p) \in Msg /\ Len(q[p]) > 0
           /\ Len(q[p]) = 1 => q[p] # <<>> /\ Left(p, 1) = <<>>
<1>1. q[p] \in Seq(Msg) /\ Len(q[p]) \in Nat /\ buf[p] \in Seq(Unit)
  BY DEF TaskTypes
<1>2. Left(p, 0) = q[p]
  BY <1>1, AllOf DEF Left
<1>3. ASSUME q[p] # <<>>
      PROVE  /\ Left(p, 1) \in Seq(Msg) /\ IsRest(Left(p, 1), q[p])
             /\ Arrived(p) = q[p][1] /\ Arrived(p) \in Msg /\ Len(q[p]) > 0
  <2>1. 1 + 1 = 2
    OBVIOUS
  <2>2. Left(p, 1) \in Seq(Msg) /\ IsRest(Left(p, 1), q[p])
    BY <1>1, <1>3, <2>1, PartsAre DEF Left
  <2>3. Head(q[p]) = q[p][1] /\ Head(q[p]) \in Msg /\ Len(q[p]) > 0
    BY <1>1, <1>3
  <2> QED BY <1>3, <2>2, <2>3 DEF Arrived
<1>4. ASSUME Len(q[p]) = 1 PROVE q[p] # <<>> /\ Left(p, 1) = <<>>
  <2>1. q[p] # <<>>
    BY <1>4
  <2>2. Left(p, 1) \in Seq(Msg) /\ Len(Left(p, 1)) = 0
    BY <1>3, <1>4, <2>1 DEF IsRest
  <2> QED BY <2>1, <2>2
<1> QED BY <1>1, <1>2, <1>3, <1>4

\* The chunks.
LEMMA ChunkIs ==
    ASSUME NEW s, NEW j \in Nat
    PROVE  /\ j = StrChunks + 1 => Chunk(s, j).k = "delimiter"
           /\ j # StrChunks + 1 => Chunk(s, j).k = "bin" /\ Chunk(s, j).data = <<<<s, j>>>>
  BY DEF Chunk, Delimiter, Text, Bin

\* Nothing has come yet, and everything is on its way.
LEMMA ComesFirst ==
    ASSUME NEW s \in Strings
    PROVE  /\ Comes(s, <<>>, <<>>)
           /\ InChunks(s) \in Seq(Msg) /\ Comes(s, <<>>, InChunks(s)) /\ ComesAll(s.k, <<>>, InChunks(s))
<1>0. StrChunks \in Nat /\ Len(<<>>) = 0
  BY StrChunksAssumption
<1>1. Comes(s, <<>>, <<>>)
  BY <1>0 DEF Comes
<1>2. PICK c \in Seq(Msg) : /\ c = InChunks(s) /\ Len(c) = StrChunks + 1
                            /\ c[StrChunks + 1] = Delimiter
                            /\ \A i \in 1..StrChunks : c[i] = Bin(<<<<s, i>>>>)
  BY ChunksAre
<1>3. ASSUME NEW i \in 1..Len(c) PROVE c[i] = Chunk(s, 0 + i)
  <2>1. CASE i = StrChunks + 1
    BY <1>0, <1>2, <2>1 DEF Chunk
  <2>2. CASE i # StrChunks + 1
    <3>1. i \in 1..StrChunks /\ 0 + i = i
      BY <1>0, <1>2, <2>2
    <3> QED BY <1>2, <2>2, <3>1 DEF Chunk
  <2> QED BY <2>1, <2>2
<1>4. Comes(s, <<>>, c)
  BY <1>0, <1>2, <1>3 DEF Comes
<1>5. Len(<<>>) + Len(c) = StrChunks + 1
  BY <1>0, <1>2
<1>6. ComesAll(s.k, <<>>, c)
  BY <1>4, <1>5 DEF ComesAll
<1> QED BY <1>1, <1>2, <1>4, <1>6

\* A chunk is collected.
LEMMA ComesNext ==
    ASSUME NEW s, NEW b \in Seq(Unit), NEW t \in Seq(Msg), Comes(s, b, t), t # <<>>, ~IsString(t[1]),
           NEW u \in Seq(Msg), IsRest(u, t)
    PROVE  /\ Comes(s, b \o t[1].data, u)
           /\ Len(b \o t[1].data) + Len(u) = Len(b) + Len(t)
<1>0. Len(b) \in Nat /\ Len(t) \in Nat /\ Len(t) > 0 /\ StrChunks \in Nat /\ 1 \in 1..Len(t)
  BY StrChunksAssumption
<1>1. t[1] = Chunk(s, Len(b) + 1) /\ t[1].k = "bin"
  BY <1>0 DEF Comes, IsString
<1>2. Len(b) + 1 # StrChunks + 1 /\ Len(b) <= StrChunks
  BY <1>0, <1>1, ChunkIs DEF Comes
<1>3. PICK d : d = <<s, Len(b) + 1>>
  OBVIOUS
<1>4. t[1].data = <<d>>
  BY <1>0, <1>1, <1>2, <1>3, ChunkIs
<1>5. <<d>> \in Seq(Unit)
  <2>1. t[1] \in Msg
    BY <1>0
  <2> QED BY <1>4, <2>1, MsgIs
<1>6. PICK e \in Seq(Unit) : e = b \o <<d>> /\ IsBoth(e, b, <<d>>)
  BY <1>5, PartsAre
<1>7. Len(e) = Len(b) + 1 /\ \A j \in 1..Len(b) : e[j] = b[j]
  BY <1>6 DEF IsBoth
<1>8. e[Len(b) + 1] = d
  <2>1. Len(b) + 1 \in (Len(b) + 1) .. Len(e)
    BY <1>0, <1>7
  <2>2. e[Len(b) + 1] = <<d>>[Len(b) + 1 - Len(b)]
    BY <1>6, <2>1 DEF IsBoth
  <2>3. Len(b) + 1 - Len(b) = 1
    BY <1>0
  <2> QED BY <2>2, <2>3
<1>9. \A j \in 1..Len(e) : e[j] = <<s, j>>
  <2> SUFFICES ASSUME NEW j \in 1..Len(e) PROVE e[j] = <<s, j>>
    OBVIOUS
  <2>1. CASE j = Len(b) + 1
    BY <1>3, <1>8, <2>1
  <2>2. CASE j # Len(b) + 1
    <3>1. j \in 1..Len(b)
      BY <1>0, <1>7, <2>2
    <3> QED BY <1>7, <3>1 DEF Comes
  <2> QED BY <2>1, <2>2
<1>10. Len(u) = Len(t) - 1 /\ \A i \in 1..Len(u) : u[i] = t[i + 1]
  BY DEF IsRest
<1>11. \A i \in 1..Len(u) : u[i] = Chunk(s, Len(e) + i)
  <2> SUFFICES ASSUME NEW i \in 1..Len(u) PROVE u[i] = Chunk(s, Len(e) + i)
    OBVIOUS
  <2>1. i + 1 \in 1..Len(t) /\ Len(b) + (i + 1) = Len(e) + i
    BY <1>0, <1>7, <1>10
  <2>2. t[i + 1] = Chunk(s, Len(b) + (i + 1))
    BY <2>1 DEF Comes
  <2> QED BY <1>10, <2>1, <2>2
<1>12. /\ Len(e) <= StrChunks /\ Len(e) + Len(u) <= StrChunks + 1
       /\ Len(e) + Len(u) = Len(b) + Len(t)
  BY <1>0, <1>2, <1>7, <1>10 DEF Comes
<1>13. Comes(s, e, u)
  BY <1>9, <1>11, <1>12 DEF Comes
<1> QED BY <1>4, <1>6, <1>12, <1>13

\* Different strings are made of different parts.
LEMMA PiecesAre ==
    ASSUME NEW s
    PROVE  /\ Len(Pieces(s)) = StrChunks /\ Pieces(s) # <<>>
           /\ \A j \in 1..StrChunks : Pieces(s)[j] = <<s, j>>
           /\ Pieces(s)[1][1] = s
<1>0. StrChunks \in Nat /\ StrChunks > 0
  BY StrChunksAssumption
<1>1. PICK c : c = Pieces(s)
  OBVIOUS
<1>2. c = [i \in 1..StrChunks |-> <<s, i>>]
  BY <1>1 DEF Pieces
<1>3. c \in Seq({s} \X Nat)
  BY <1>0, <1>2
<1>4. Len(c) = StrChunks
  <2>1. DOMAIN c = 1..StrChunks
    BY <1>2
  <2> QED BY <1>0, <1>3, <2>1, LenProperties
<1>5. \A j \in 1..StrChunks : c[j] = <<s, j>>
  BY <1>2
<1>6. c[1] = <<s, 1>> /\ c # <<>>
  BY <1>0, <1>3, <1>4, <1>5
<1>7. \A x : x = <<s, 1>> => x[1] = s
  OBVIOUS
<1> QED BY <1>1, <1>4, <1>5, <1>6, <1>7

\* A text ends a string, which is then parsed as what it is.
LEMMA ComesEnds ==
    ASSUME NEW s \in Strings, NEW b \in Seq(Unit), NEW t \in Seq(Msg), Comes(s, b, t), t # <<>>,
           IsString(t[1])
    PROVE  /\ Len(t) = 1 /\ t[1].k = "delimiter" /\ b = Pieces(s)
           /\ \A k : Parses(b, k) <=> k = s.k
           /\ Parsed(b, s.k) = s
<1>0. Len(b) \in Nat /\ Len(t) \in Nat /\ Len(t) > 0 /\ StrChunks \in Nat /\ 1 \in 1..Len(t)
  BY StrChunksAssumption
<1>1. t[1] = Chunk(s, Len(b) + 1) /\ t[1].k # "bin"
  BY <1>0 DEF Comes, IsString
<1>2. Len(b) + 1 = StrChunks + 1 /\ t[1].k = "delimiter"
  BY <1>0, <1>1, ChunkIs
<1>3. Len(t) = 1 /\ Len(b) = StrChunks
  <2>1. Len(b) + Len(t) <= StrChunks + 1
    BY DEF Comes
  <2>2. \A m, n, k \in Nat : m + 1 = k + 1 /\ m + n <= k + 1 /\ n > 0 => n = 1 /\ m = k
    OBVIOUS
  <2> QED BY <1>0, <1>2, <2>1, <2>2
<1>4. b = Pieces(s)
  <2>1. DOMAIN b = 1..StrChunks /\ \A j \in 1..StrChunks : b[j] = <<s, j>>
    BY <1>3 DEF Comes
  <2>2. b = [i \in DOMAIN b |-> b[i]]
    OBVIOUS
  <2>3. [i \in DOMAIN b |-> b[i]] = [i \in 1..StrChunks |-> <<s, i>>]
    BY <2>1
  <2> QED BY <2>2, <2>3 DEF Pieces
<1>5. \A z \in Strings : b = Pieces(z) => z = s
  <2> SUFFICES ASSUME NEW z \in Strings, b = Pieces(z) PROVE z = s
    OBVIOUS
  <2>1. Pieces(z)[1][1] = z /\ Pieces(s)[1][1] = s
    BY PiecesAre
  <2> QED BY <1>4, <2>1
<1>6. \A k : Parses(b, k) <=> k = s.k
  BY <1>4, <1>5 DEF Parses
<1>7. Parsed(b, s.k) = s
  BY <1>4, <1>5 DEF Parsed
<1> QED BY <1>2, <1>3, <1>4, <1>6, <1>7

\* Nothing is no string.
LEMMA NothingParses == \A k : ~Parses(<<>>, k)
  BY PiecesAre DEF Parses

----------------------------------------------------------------------------
(* The sender before its files *)

\* A single message, and none.
LEMMA OneIs ==
    /\ \A m : Len(<<m>>) = 1 /\ <<m>>[1] = m /\ <<m>> # <<>>
    /\ \A m, k : m.k = k => One(<<m>>, k) /\ AtMost(<<m>>, k)
    /\ \A k : AtMost(<<>>, k)
    /\ Len(<<>>) = 0
<1>1. \A m : Len(<<m>>) = 1 /\ <<m>>[1] = m /\ <<m>> # <<>>
  OBVIOUS
<1>2. \A m, k : m.k = k => One(<<m>>, k) /\ AtMost(<<m>>, k)
  BY <1>1 DEF One, AtMost
<1>3. \A k : AtMost(<<>>, k)
  BY DEF AtMost
<1> QED BY <1>1, <1>2, <1>3

\* A message is sent alone.
LEMMA Single ==
    ASSUME NEW m \in Msg
    PROVE  \E t \in Seq(Msg) : /\ t = <<m>> /\ Len(t) = 1 /\ t[1] = m /\ t # <<>>
                               /\ \A k : k = m.k => One(t, k) /\ AtMost(t, k)
<1>1. PICK t : t = <<m>>
  OBVIOUS
<1>2. t \in Seq(Msg) /\ Len(t) = 1 /\ t[1] = m /\ t # <<>>
  BY <1>1
<1>3. \A k : k = m.k => One(t, k) /\ AtMost(t, k)
  BY <1>2 DEF One, AtMost
<1> QED BY <1>1, <1>2, <1>3

\* What p waits for, at most one message of a kind, is taken.
LEMMA LastTaken ==
    ASSUME TaskTypes, NEW p \in Peers, NEW k, AtMost(q[p], k), q[p] # <<>>
    PROVE  Len(q[p]) = 1 /\ Left(p, 1) = <<>> /\ Arrived(p).k = k
<1>0. Len(q[p]) \in Nat /\ Len(q[p]) > 0 /\ Len(q[p]) <= 1
  BY LeftIs DEF AtMost
<1>1. Len(q[p]) = 1
  <2>1. \A n \in Nat : n > 0 /\ n <= 1 => n = 1
    OBVIOUS
  <2> QED BY <1>0, <2>1
<1>2. 1 \in 1..Len(q[p])
  BY <1>1
<1> QED BY <1>1, <1>2, LeftIs DEF AtMost

\* The buffer stays.
LEMMA BufferStays ==
    ASSUME TaskTypes, UNCHANGED buf, NEW p \in Peers PROVE buf' = [buf EXCEPT ![p] = buf[p]]
  BY DEF TaskTypes

\* A sender that returns without a word.
LEMMA SenderQuits ==
    ASSUME TaskTypes, ReadInv, LinkInv, UNCHANGED config, pc["S"] # "dead",
           NEW a, buf' = [buf EXCEPT !["S"] = a], NEW n \in {0, 1}, Passed("S", n, <<>>, {"dead"})
    PROVE  ReadInv' /\ LinkInv'
<1>1. q["R"] \o <<>> = q["R"] /\ <<>> \in Seq(Msg)
  BY TwoPeers, LeftIs, FirstOf
<1>2. pin["R"] # EmptyPin => ReadsR(pc["R"], buf["R"], q["R"] \o <<>>)
  BY <1>1 DEF ReadInv
<1>3. {"dead"} \ {"dead"} = {}
  OBVIOUS
<1> QED BY <1>1, <1>2, <1>3, SenderLinks

\* A receiver that returns without a word.
LEMMA ReceiverQuits ==
    ASSUME TaskTypes, ReadInv, LinkInv, UNCHANGED config, pc["R"] # "dead",
           NEW b, buf' = [buf EXCEPT !["R"] = b], NEW n \in {0, 1}, Passed("R", n, <<>>, {"dead"})
    PROVE  ReadInv' /\ LinkInv'
<1>1. q["S"] \o <<>> = q["S"] /\ <<>> \in Seq(Msg)
  BY TwoPeers, LeftIs, FirstOf
<1>2. pin["R"] # EmptyPin => ReadsS(pc["S"], buf["S"], q["S"] \o <<>>)
  BY <1>1 DEF ReadInv
<1>3. {"dead"} \ {"dead"} = {}
  OBVIOUS
<1> QED BY <1>1, <1>2, <1>3, ReceiverLinks

\* A task that fails without a word.
LEMMA FailLinks ==
    ASSUME TaskTypes, ReadInv, LinkInv, UNCHANGED config, NEW p \in Peers, pc[p] # "dead",
           NEW b, buf' = [buf EXCEPT ![p] = b], NEW sts, NEW why, Fail(p, <<>>, sts, why)
    PROVE  ReadInv' /\ LinkInv'
<1>1. Passed(p, 0, <<>>, {"dead"}) /\ 0 \in {0, 1}
  <2>1. <<>> \in Seq(Msg)
    OBVIOUS
  <2> QED BY <2>1, FailPasses
<1> QED BY <1>1, SenderQuits, ReceiverQuits DEF Peers

\* A sender that takes n messages, sends some and goes on.
LEMMA SenderGoes ==
    ASSUME TaskTypes, ReadInv, LinkInv, UNCHANGED config, pc["S"] # "dead",
           NEW a, buf' = [buf EXCEPT !["S"] = a],
           NEW n \in {0, 1}, NEW msgs \in Seq(Msg), NEW sts, NEW next, Proceed("S", n, msgs, sts, next),
           pin["R"] # EmptyPin => ReadsS(next, a, Left("S", n)),
           Link => /\ pin["R"] # EmptyPin => ReadsR(pc["R"], buf["R"], q["R"] \o msgs)
                   /\ Linked(next, a, Left("S", n), pc["R"], buf["R"], q["R"] \o msgs)
    PROVE  ReadInv' /\ LinkInv'
<1>1. PICK nexts : nexts = {next, "dead"}
  OBVIOUS
<1>2. Passed("S", n, msgs, nexts)
  BY <1>1, TwoPeers, ProceedPasses
<1>3. \A x \in nexts \ {"dead"} : x = next
  BY <1>1
<1> QED BY <1>2, <1>3, SenderLinks

\* A receiver that does.
LEMMA ReceiverGoes ==
    ASSUME TaskTypes, ReadInv, LinkInv, UNCHANGED config, pc["R"] # "dead",
           NEW b, buf' = [buf EXCEPT !["R"] = b],
           NEW n \in {0, 1}, NEW msgs \in Seq(Msg), NEW sts, NEW next, Proceed("R", n, msgs, sts, next),
           pin["R"] # EmptyPin => ReadsR(next, b, Left("R", n)),
           Link => /\ pin["R"] # EmptyPin => ReadsS(pc["S"], buf["S"], q["S"] \o msgs)
                   /\ Linked(pc["S"], buf["S"], q["S"] \o msgs, next, b, Left("R", n))
    PROVE  ReadInv' /\ LinkInv'
<1>1. PICK nexts : nexts = {next, "dead"}
  OBVIOUS
<1>2. Passed("R", n, msgs, nexts)
  BY <1>1, TwoPeers, ProceedPasses
<1>3. \A x \in nexts \ {"dead"} : x = next
  BY <1>1
<1> QED BY <1>2, <1>3, ReceiverLinks

\* The sender's nonce.
LEMMA SendNonceLinks == ASSUME TaskTypes, ReadInv, LinkInv, SendNonce PROVE ReadInv' /\ LinkInv'
<1>0. pc["S"] = "start" /\ UNCHANGED config /\ buf' = [buf EXCEPT !["S"] = buf["S"]]
  BY TwoPeers, BufferStays DEF SendNonce
<1>1. nonce'["S"] = GS
  BY TwoPeers DEF SendNonce, GS, TaskTypes
<1>2. PICK m : m = Text("nonce", GS)
  OBVIOUS
<1>3. m \in Msg /\ m.k = "nonce" /\ 0 \in {0, 1}
  BY <1>2 DEF Text, Msg
<1>4. PICK t \in Seq(Msg) : t = <<m>> /\ One(t, "nonce") /\ AtMost(t, "nonce")
  BY <1>3, Single
<1>5. Proceed("S", 0, t, {}, "nonce")
  BY <1>1, <1>2, <1>4 DEF SendNonce
<1>6. Left("S", 0) = q["S"]
  BY TwoPeers, LeftIs
<1>7. pin["R"] # EmptyPin => ReadsS("nonce", buf["S"], Left("S", 0))
  BY <1>0, <1>6, OneIs DEF ReadInv, ReadsS
<1>8. ASSUME Link
      PROVE  /\ ReadsR(pc["R"], buf["R"], q["R"] \o t)
             /\ Linked("nonce", buf["S"], Left("S", 0), pc["R"], buf["R"], q["R"] \o t)
  <2>1. pc["R"] = "nonce" /\ q["S"] = <<>> /\ q["R"] = <<>>
    BY <1>0, <1>8 DEF LinkInv, Link, Linked, Astray
  <2>2. q["R"] \o t = t
    BY <2>1, NothingBefore
  <2>3. ReadsR(pc["R"], buf["R"], t)
    BY <1>4, <2>1 DEF ReadsR
  <2>4. Linked("nonce", buf["S"], Left("S", 0), pc["R"], buf["R"], t)
    BY <1>4, <1>6, <2>1 DEF Linked
  <2> QED BY <2>2, <2>3, <2>4
<1> QED BY <1>0, <1>3, <1>5, <1>7, <1>8, SenderGoes

\* The sender's token.
LEMMA SendTokenLinks ==
    ASSUME TaskTypes, GateInv, ReadInv, LinkInv, SendToken PROVE ReadInv' /\ LinkInv'
<1>0. /\ pc["S"] = "nonce" /\ q["S"] # <<>> /\ UNCHANGED config
      /\ buf' = [buf EXCEPT !["S"] = buf["S"]]
  BY TwoPeers, BufferStays DEF SendToken, Receives
<1>1. CASE NonceArrives("S")
  <2>1. nonce'["S"] = Full
    <3>1. ControlOk("S", pc["S"], nonce["S"]) /\ ToOk("S", Arrived("S"))
      BY <1>0, TwoPeers, ArrivedIs DEF GateInv
    <3>2. nonce["S"] = GS /\ Arrived("S").v = GR
      BY <1>0, <1>1, <3>1, TwoPeers DEF ControlOk, NonceArrives, ToOk, GR
    <3> QED BY <1>1, <3>2, SameNonce, TwoPeers DEF SendToken, TaskTypes
  <2>2. PICK m : m = Text("token", Token("S", Full))
    OBVIOUS
  <2>3. m \in Msg /\ m.k = "token" /\ 1 \in {0, 1}
    BY <2>2 DEF Text, Msg
  <2>4. PICK t \in Seq(Msg) : t = <<m>> /\ One(t, "token") /\ AtMost(t, "token")
    BY <2>3, Single
  <2>5. Proceed("S", 1, t, {}, "token")
    BY <1>1, <2>1, <2>2, <2>4 DEF SendToken
  <2>6. pin["R"] # EmptyPin => ReadsS("token", buf["S"], Left("S", 1))
    <3> SUFFICES ASSUME pin["R"] # EmptyPin PROVE ReadsS("token", buf["S"], Left("S", 1))
      OBVIOUS
    <3>1. AtMost(q["S"], "nonce")
      BY <1>0 DEF ReadInv, ReadsS
    <3>2. Left("S", 1) = <<>>
      BY <1>0, <3>1, TwoPeers, LastTaken
    <3> QED BY <3>2, OneIs DEF ReadsS
  <2>7. ASSUME Link
        PROVE  /\ ReadsR(pc["R"], buf["R"], q["R"] \o t)
               /\ Linked("token", buf["S"], Left("S", 1), pc["R"], buf["R"], q["R"] \o t)
    <3>1. pc["R"] = "token" /\ One(q["S"], "nonce") /\ q["R"] = <<>>
      BY <1>0, <2>7 DEF LinkInv, Link, Linked, Astray
    <3>2. q["R"] \o t = t /\ Left("S", 1) = <<>>
      BY <3>1, TwoPeers, LeftIs, NothingBefore DEF One
    <3>3. ReadsR(pc["R"], buf["R"], t)
      BY <2>4, <3>1 DEF ReadsR
    <3>4. Linked("token", buf["S"], Left("S", 1), pc["R"], buf["R"], t)
      BY <2>4, <3>1, <3>2 DEF Linked
    <3> QED BY <3>2, <3>3, <3>4
  <2> QED BY <1>0, <2>3, <2>5, <2>6, <2>7, SenderGoes
<1>2. CASE ~NonceArrives("S")
  BY <1>0, <1>2, TwoPeers, FailLinks DEF SendToken
<1> QED BY <1>1, <1>2

\* A sender that takes n messages and goes on without a word.
LEMMA SenderTakes ==
    ASSUME TaskTypes, ReadInv, LinkInv, UNCHANGED config, pc["S"] # "dead",
           NEW a, buf' = [buf EXCEPT !["S"] = a],
           NEW n \in {0, 1}, NEW sts, NEW next, Proceed("S", n, <<>>, sts, next),
           pin["R"] # EmptyPin => ReadsS(next, a, Left("S", n)),
           Link => Linked(next, a, Left("S", n), pc["R"], buf["R"], q["R"])
    PROVE  ReadInv' /\ LinkInv'
<1>1. q["R"] \o <<>> = q["R"] /\ <<>> \in Seq(Msg)
  BY TwoPeers, LeftIs, FirstOf
<1>2. pin["R"] # EmptyPin => ReadsR(pc["R"], buf["R"], q["R"])
  BY DEF ReadInv
<1> QED BY <1>1, <1>2, SenderGoes

\* A receiver that does.
LEMMA ReceiverTakes ==
    ASSUME TaskTypes, ReadInv, LinkInv, UNCHANGED config, pc["R"] # "dead",
           NEW b, buf' = [buf EXCEPT !["R"] = b],
           NEW n \in {0, 1}, NEW sts, NEW next, Proceed("R", n, <<>>, sts, next),
           pin["R"] # EmptyPin => ReadsR(next, b, Left("R", n)),
           Link => Linked(pc["S"], buf["S"], q["S"], next, b, Left("R", n))
    PROVE  ReadInv' /\ LinkInv'
<1>1. q["S"] \o <<>> = q["S"] /\ <<>> \in Seq(Msg)
  BY TwoPeers, LeftIs, FirstOf
<1>2. pin["R"] # EmptyPin => ReadsS(pc["S"], buf["S"], q["S"])
  BY DEF ReadInv
<1> QED BY <1>1, <1>2, ReceiverGoes

\* The receiver waits for a string in answer to the n-th PIN, or the sender's own PIN
\* is in its way.
Listens(n) ==
    /\ buf["R"] = <<>>
    /\ \/ q["R"] = <<>> /\ (pc["R"] = "pinRes" \/ (pc["R"] = "list" /\ n = 0))
       \/ pin["R"] = EmptyPin /\ pc["R"] = "list" /\ q["R"] # <<>> /\ q["R"][1].k = "pin"

\* What is queued first stays first.
LEMMA FirstStays ==
    ASSUME NEW t \in Seq(Msg), t # <<>>, NEW u \in Seq(Msg)
    PROVE  t \o u \in Seq(Msg) /\ t \o u # <<>> /\ (t \o u)[1] = t[1]
<1>1. t \o u \in Seq(Msg) /\ IsBoth(t \o u, t, u)
  BY PartsAre
<1>2. Len(t) \in Nat /\ Len(t) > 0 /\ Len(u) \in Nat /\ 1 \in 1..Len(t)
  OBVIOUS
<1>3. (t \o u)[1] = t[1] /\ Len(t \o u) > 0
  BY <1>1, <1>2 DEF IsBoth
<1> QED BY <1>1, <1>3

\* The string s is read by the receiver that waits for it.
LEMMA StringRead ==
    ASSUME TaskTypes, NEW s \in Strings, NEW n \in Nat, Listens(n),
           s.k \in {"list", "pinRequired", "tooMany"},
           s.k = "tooMany" => n >= MaxTries /\ (n = 0 => pin["S"] \notin {NoPin, EmptyPin})
    PROVE  /\ pin["R"] # EmptyPin => ReadsR(pc["R"], buf["R"], q["R"] \o InChunks(s))
           /\ s.k = "list" =>
                 Linked("selection", <<>>, <<>>, pc["R"], buf["R"], q["R"] \o InChunks(s))
           /\ s.k = "pinRequired" =>
                 Linked("verify", <<>>, <<>>, pc["R"], buf["R"], q["R"] \o InChunks(s))
<1>1. PICK t \in Seq(Msg) : t = InChunks(s) /\ Comes(s, <<>>, t) /\ ComesAll(s.k, <<>>, t)
  BY ComesFirst
<1>2. CASE q["R"] = <<>> /\ (pc["R"] = "pinRes" \/ (pc["R"] = "list" /\ n = 0))
  <2>1. q["R"] \o t = t
    BY <1>2, NothingBefore
  <2>2. s.k \in Answers(pc["R"])
    <3>1. n = 0 /\ n >= MaxTries => MaxTries = 0
      BY MaxTriesAssumption
    <3> QED BY <1>2, <3>1 DEF Answers
  <2>3. buf["R"] = <<>>
    BY DEF Listens
  <2>4. ReadsR(pc["R"], buf["R"], t)
    BY <1>1, <1>2, <2>2, <2>3 DEF ReadsR
  <2>5. s.k = "list" => Linked("selection", <<>>, <<>>, pc["R"], buf["R"], t)
    BY <1>1, <1>2, <2>3 DEF Linked
  <2>6. s.k = "pinRequired" => Linked("verify", <<>>, <<>>, pc["R"], buf["R"], t)
    BY <1>1, <1>2, <2>3 DEF Linked
  <2> QED BY <1>1, <2>1, <2>4, <2>5, <2>6
<1>3. CASE pin["R"] = EmptyPin /\ pc["R"] = "list" /\ q["R"] # <<>> /\ q["R"][1].k = "pin"
  <2>1. PICK u : u = q["R"] \o t
    OBVIOUS
  <2>2. u # <<>> /\ u[1].k = "pin" /\ buf["R"] = <<>>
    BY <1>3, <2>1, TwoPeers, LeftIs, FirstStays DEF Listens
  <2>3. \A c \in {"verify", "selection"} : Linked(c, <<>>, <<>>, pc["R"], buf["R"], u)
    BY <1>3, <2>2 DEF Linked, Astray
  <2> QED BY <1>1, <1>3, <2>1, <2>3
<1> QED BY <1>2, <1>3 DEF Listens

\* What the sender must know before it sends a string.
Told(n) == /\ buf["S"] = <<>>
           /\ pin["R"] # EmptyPin \/ Link => Left("S", 1) = <<>>
           /\ Link => Listens(n)

\* The file list.
LEMMA ListLinks ==
    ASSUME TaskTypes, ReadInv, LinkInv, UNCHANGED <<config, buf>>, pc["S"] # "dead",
           NEW n \in Nat, Told(n), NEW sts, AfterPass("S", <<>>, sts)
    PROVE  ReadInv' /\ LinkInv'
<1>1. PICK s \in Strings : s = Str("list", Files) /\ s.k = "list"
  BY StringsAre
<1>2. PICK t \in Seq(Msg) : t = InChunks(s)
  BY ComesFirst
<1>3. <<>> \o t = t
  BY NothingBefore
<1>4. Proceed("S", 1, t, sts \cup {"Connected"}, "selection")
  BY <1>1, <1>2, <1>3 DEF AfterPass
<1>5. buf' = [buf EXCEPT !["S"] = <<>>] /\ 1 \in {0, 1}
  BY TwoPeers, BufferStays DEF Told
<1>6. pin["R"] # EmptyPin => ReadsS("selection", <<>>, Left("S", 1))
  <2>1. PICK z \in Strings : z = Str("declined", {}) /\ z.k = "declined"
    BY StringsAre
  <2>2. Comes(z, <<>>, <<>>)
    BY ComesFirst
  <2> QED BY <2>1, <2>2 DEF ReadsS, Told
<1>7. ASSUME Link
      PROVE  /\ pin["R"] # EmptyPin => ReadsR(pc["R"], buf["R"], q["R"] \o t)
             /\ Linked("selection", <<>>, Left("S", 1), pc["R"], buf["R"], q["R"] \o t)
  BY <1>1, <1>2, <1>7, StringRead DEF Told
<1> QED BY <1>4, <1>5, <1>6, <1>7, SenderGoes

\* A round of the sender's verify_pin.
LEMMA SenderRound ==
    ASSUME TaskTypes, ReadInv, LinkInv, UNCHANGED <<config, buf>>, pc["S"] # "dead",
           NEW n \in Nat, Told(n), NEW guess, NEW notice, notice = TRUE, NEW sts,
           n = 0 => guess = EmptyPin /\ pin["S"] # NoPin,
           verify_pin("S", guess, n, notice, <<>>, sts)
    PROVE  ReadInv' /\ LinkInv'
<1>0. buf' = [buf EXCEPT !["S"] = <<>>] /\ 1 \in {0, 1} /\ 0 \in {0, 1}
  BY TwoPeers, BufferStays DEF Told
<1>1. \A k \in {"pinRequired", "tooMany"} :
         \E s \in Strings : s.k = k /\ InChunks(s) \in Seq(Msg) /\ <<>> \o Notice("S", k) = InChunks(s)
  <2> SUFFICES ASSUME NEW k \in {"pinRequired", "tooMany"}
               PROVE  \E s \in Strings : /\ s.k = k /\ InChunks(s) \in Seq(Msg)
                                         /\ <<>> \o Notice("S", k) = InChunks(s)
    OBVIOUS
  <2>1. PICK s \in Strings : s = Str(k, {}) /\ s.k = k
    BY StringsAre
  <2>2. PICK c \in Seq(Msg) : c = InChunks(s)
    BY ComesFirst
  <2>3. Notice("S", k) = c /\ <<>> \o c = c
    BY <2>1, <2>2, NothingBefore DEF Notice
  <2> QED BY <2>1, <2>2, <2>3
<1>2. CASE AfterPass("S", <<>>, sts)
  BY <1>2, ListLinks
<1>3. CASE /\ Verdict("S", guess, n) = "tooMany"
           /\ Fail("S", <<>> \o Notice("S", "tooMany"), sts \cup {"TooManyAttempts"}, "tooMany")
  <2>1. n >= MaxTries /\ (n = 0 => pin["S"] \notin {NoPin, EmptyPin})
    BY <1>3 DEF Verdict
  <2>2. PICK s \in Strings : s.k = "tooMany" /\ InChunks(s) \in Seq(Msg)
                             /\ <<>> \o Notice("S", "tooMany") = InChunks(s)
    BY <1>1
  <2>3. PICK t \in Seq(Msg) : t = InChunks(s)
    BY <2>2
  <2>4. Fail("S", t, sts \cup {"TooManyAttempts"}, "tooMany")
    BY <1>3, <2>2, <2>3
  <2>5. Passed("S", 0, t, {"dead"})
    BY <2>4, TwoPeers, FailPasses
  <2>6. Link => (pin["R"] # EmptyPin => ReadsR(pc["R"], buf["R"], q["R"] \o t))
    BY <2>1, <2>2, <2>3, StringRead DEF Told
  <2>7. \A x : x \notin {"dead"} \ {"dead"}
    OBVIOUS
  <2> QED BY <1>0, <2>5, <2>6, <2>7, SenderLinks
<1>4. CASE Proceed("S", 1, <<>> \o (IF notice THEN Notice("S", "pinRequired") ELSE <<>>), sts,
                   "verify")
  <2>1. PICK s \in Strings : s.k = "pinRequired" /\ InChunks(s) \in Seq(Msg)
                             /\ <<>> \o Notice("S", "pinRequired") = InChunks(s)
    BY <1>1
  <2>2. PICK t \in Seq(Msg) : t = InChunks(s)
    BY <2>1
  <2>3. Proceed("S", 1, t, sts, "verify")
    BY <1>4, <2>1, <2>2
  <2>4. pin["R"] # EmptyPin => ReadsS("verify", <<>>, Left("S", 1))
    BY OneIs DEF Told, ReadsS
  <2>5. ASSUME Link
        PROVE  /\ pin["R"] # EmptyPin => ReadsR(pc["R"], buf["R"], q["R"] \o t)
               /\ Linked("verify", <<>>, Left("S", 1), pc["R"], buf["R"], q["R"] \o t)
    BY <2>1, <2>2, <2>5, StringRead DEF Told
  <2> QED BY <1>0, <2>3, <2>4, <2>5, SenderGoes
<1> QED BY <1>2, <1>3, <1>4 DEF verify_pin

\* The sender's own challenge, or the list.
LEMMA OfferLinks ==
    ASSUME TaskTypes, ReadInv, LinkInv, UNCHANGED <<config, buf>>, pc["S"] # "dead",
           Told(0), OfferFiles
    PROVE  ReadInv' /\ LinkInv'
<1>0. 0 \in Nat
  OBVIOUS
<1>1. CASE pin["S"] # NoPin /\ Challenge("S", <<>>)
  <2>1. PICK n, notice, sts : n = 0 /\ notice = ("S" = "S") /\ sts = {"PinRequired"}
    OBVIOUS
  <2>2. verify_pin("S", EmptyPin, n, notice, <<>>, sts) /\ notice = TRUE /\ Told(n) /\ n \in Nat
    BY <1>1, <2>1 DEF Challenge
  <2> QED BY <1>1, <2>2, SenderRound
<1>2. CASE AfterPass("S", <<>>, {})
  BY <1>0, <1>2, ListLinks
<1> QED BY <1>1, <1>2 DEF OfferFiles

\* The answer to the sender's token.
LEMMA HandleTokenResponseLinks ==
    ASSUME TaskTypes, StatusInv, ReadInv, LinkInv, HandleTokenResponse PROVE ReadInv' /\ LinkInv'
<1>0. /\ pc["S"] = "token" /\ q["S"] # <<>> /\ UNCHANGED <<config, buf>> /\ buf["S"] = <<>>
      /\ buf' = [buf EXCEPT !["S"] = <<>>] /\ 1 \in {0, 1}
  <2>1. pc["S"] = "token" /\ q["S"] # <<>> /\ UNCHANGED <<config, buf>> /\ buf["S"] = <<>>
    BY DEF HandleTokenResponse, Receives, StatusInv
  <2> QED BY <2>1, TwoPeers, BufferStays
<1>1. PICK m, t : m = Arrived("S") /\ t = Left("S", 1)
  OBVIOUS
<1>2. /\ m = q["S"][1] /\ t \in Seq(Msg) /\ IsRest(t, q["S"]) /\ Len(q["S"]) \in Nat /\ Len(q["S"]) > 0
  BY <1>0, <1>1, TwoPeers, LeftIs
<1>3. /\ Len(t) \in Nat /\ Len(t) = Len(q["S"]) - 1
      /\ Len(q["S"]) = 1 => t = <<>>
      /\ Len(q["S"]) = 2 => Len(t) = 1 /\ t[1] = q["S"][2]
  BY <1>2 DEF IsRest
<1>7. \A n \in Nat : n > 0 /\ n <= 2 => n = 1 \/ n = 2
  OBVIOUS
<1>4. ASSUME NEW sts, NEW why, Fail("S", <<>>, sts, why) PROVE ReadInv' /\ LinkInv'
  BY <1>0, <1>4, TwoPeers, FailLinks
<1>5. CASE m.v.result = "pinRequired" /\ Proceed("S", 1, <<>>, {"PinRequired"}, "askPin")
  <2>1. pin["R"] # EmptyPin => ReadsS("askPin", <<>>, t)
    <3> SUFFICES ASSUME pin["R"] # EmptyPin PROVE AtMost(t, "pinRes")
      BY DEF ReadsS
    <3>1. Len(q["S"]) <= 2 /\ (Len(q["S"]) = 2 => q["S"][2].k = "pinRes")
      BY <1>0 DEF ReadInv, ReadsS
    <3>2. CASE Len(q["S"]) = 1
      BY <1>3, <3>2, OneIs
    <3>3. CASE Len(q["S"]) = 2
      BY <1>3, <3>1, <3>3 DEF AtMost
    <3> QED BY <1>2, <1>7, <3>1, <3>2, <3>3
  <2>2. ASSUME Link PROVE Linked("askPin", <<>>, t, pc["R"], buf["R"], q["R"])
    <3>1. \/ pc["R"] = "verify" /\ Len(q["S"]) = 1 /\ q["R"] = <<>>
          \/ /\ pin["R"] = EmptyPin /\ pc["R"] = "list" /\ buf["R"] = <<>> /\ q["R"] = <<>>
             /\ Len(q["S"]) = 2 /\ q["S"][2].k = "pinRes" /\ q["S"][2].v = "ok"
      BY <1>0, <1>2, <1>5, <2>2 DEF LinkInv, Link, Linked, Astray, One
    <3>2. CASE pc["R"] = "verify" /\ Len(q["S"]) = 1 /\ q["R"] = <<>>
      BY <1>3, <3>2 DEF Linked
    <3>3. CASE /\ pin["R"] = EmptyPin /\ pc["R"] = "list" /\ buf["R"] = <<>> /\ q["R"] = <<>>
               /\ Len(q["S"]) = 2 /\ q["S"][2].k = "pinRes" /\ q["S"][2].v = "ok"
      BY <1>3, <3>3 DEF Linked, Astray, One
    <3> QED BY <3>1, <3>2, <3>3
  <2> QED BY <1>0, <1>1, <1>5, <2>1, <2>2, SenderTakes
<1>6. CASE m.v.result = "ok" /\ OfferFiles
  <2>1. pin["R"] # EmptyPin => t = <<>>
    <3> SUFFICES ASSUME pin["R"] # EmptyPin PROVE t = <<>>
      OBVIOUS
    <3>1. Len(q["S"]) <= 2 /\ (Len(q["S"]) = 2 => m.v.result = "pinRequired")
      BY <1>0, <1>2 DEF ReadInv, ReadsS
    <3>2. Len(q["S"]) # 2
      BY <1>6, <3>1
    <3> QED BY <1>2, <1>3, <1>7, <3>1, <3>2
  <2>2. ASSUME Link PROVE t = <<>> /\ Listens(0)
    <3>1. pc["R"] = "list" /\ Len(q["S"]) = 1 /\ q["R"] = <<>> /\ buf["R"] = <<>>
      BY <1>0, <1>2, <1>6, <2>2 DEF LinkInv, Link, Linked, Astray, One
    <3> QED BY <1>3, <3>1 DEF Listens
  <2>3. Told(0)
    BY <1>0, <1>1, <2>1, <2>2 DEF Told
  <2> QED BY <1>0, <1>6, <2>3, OfferLinks
<1> QED BY <1>1, <1>4, <1>5, <1>6 DEF HandleTokenResponse

\* The answer to the PIN typed at the sender.
LEMMA HandlePinReceivingResponseLinks ==
    ASSUME TaskTypes, StatusInv, ReadInv, LinkInv, HandlePinReceivingResponse
    PROVE  ReadInv' /\ LinkInv'
<1>0. /\ pc["S"] = "pinRes" /\ q["S"] # <<>> /\ UNCHANGED <<config, buf>> /\ buf["S"] = <<>>
      /\ buf' = [buf EXCEPT !["S"] = <<>>] /\ 1 \in {0, 1}
  <2>1. pc["S"] = "pinRes" /\ q["S"] # <<>> /\ UNCHANGED <<config, buf>> /\ buf["S"] = <<>>
    BY DEF HandlePinReceivingResponse, Receives, StatusInv
  <2> QED BY <2>1, TwoPeers, BufferStays
<1>1. PICK m, t : m = Arrived("S") /\ t = Left("S", 1)
  OBVIOUS
<1>2. m = q["S"][1] /\ (Len(q["S"]) = 1 => t = <<>>)
  BY <1>0, <1>1, TwoPeers, LeftIs
<1>3. pin["R"] # EmptyPin => t = <<>>
  <2> SUFFICES ASSUME pin["R"] # EmptyPin PROVE t = <<>>
    OBVIOUS
  <2>1. AtMost(q["S"], "pinRes")
    BY <1>0 DEF ReadInv, ReadsS
  <2> QED BY <1>0, <1>1, <2>1, TwoPeers, LastTaken
<1>4. ASSUME NEW sts, NEW why, Fail("S", <<>>, sts, why) PROVE ReadInv' /\ LinkInv'
  BY <1>0, <1>4, TwoPeers, FailLinks
<1>5. CASE m.v = "pinRequired" /\ Proceed("S", 1, <<>>, {"PinRequired"}, "askPin")
  <2>1. pin["R"] # EmptyPin => ReadsS("askPin", <<>>, t)
    BY <1>3, OneIs DEF ReadsS
  <2>2. ASSUME Link PROVE Linked("askPin", <<>>, t, pc["R"], buf["R"], q["R"])
    <3>1. pc["R"] = "verify" /\ Len(q["S"]) = 1 /\ q["R"] = <<>>
      BY <1>0, <1>2, <1>5, <2>2 DEF LinkInv, Link, Linked, Astray, One
    <3> QED BY <1>2, <3>1 DEF Linked
  <2> QED BY <1>0, <1>1, <1>5, <2>1, <2>2, SenderTakes
<1>6. CASE m.v = "ok" /\ OfferFiles
  <2>1. ASSUME Link PROVE t = <<>> /\ Listens(0)
    <3>1. /\ pc["R"] = "list" /\ Len(q["S"]) = 1 /\ buf["R"] = <<>>
          /\ q["R"] = <<>> \/ (pin["R"] = EmptyPin /\ q["R"] # <<>> /\ q["R"][1].k = "pin")
      BY <1>0, <1>2, <1>6, <2>1 DEF LinkInv, Link, Linked, Astray, One
    <3> QED BY <1>2, <3>1 DEF Listens
  <2>2. Told(0)
    BY <1>0, <1>1, <1>3, <2>1 DEF Told
  <2> QED BY <1>0, <1>6, <2>2, OfferLinks
<1> QED BY <1>1, <1>4, <1>5, <1>6 DEF HandlePinReceivingResponse

\* A PIN arrives at the sender.
LEMMA SenderVerifiesLinks ==
    ASSUME TaskTypes, StatusInv, ReadInv, LinkInv, VerifyPin("S") PROVE ReadInv' /\ LinkInv'
<1>0. /\ pc["S"] = "verify" /\ q["S"] # <<>> /\ UNCHANGED <<config, buf>> /\ buf["S"] = <<>>
      /\ buf' = [buf EXCEPT !["S"] = <<>>]
  <2>1. pc["S"] = "verify" /\ q["S"] # <<>> /\ UNCHANGED <<config, buf>> /\ buf["S"] = <<>>
    BY DEF VerifyPin, Receives, StatusInv
  <2> QED BY <2>1, TwoPeers, BufferStays
<1>1. CASE Fail("S", <<>>, {}, "parse")
  BY <1>0, <1>1, TwoPeers, FailLinks
<1>2. CASE verify_pin("S", Arrived("S").v, tries["S"] + 1, TRUE, <<>>, {})
  <2>1. PICK guess, n, yes, none : guess = Arrived("S").v /\ n = tries["S"] + 1 /\ yes = TRUE /\ none = {}
    OBVIOUS
  <2>2. verify_pin("S", guess, n, yes, <<>>, none)
    BY <1>2, <2>1
  <2>3. n \in Nat /\ n # 0
    BY <2>1, TwoPeers DEF TaskTypes
  <2>4. pin["R"] # EmptyPin => Left("S", 1) = <<>>
    <3> SUFFICES ASSUME pin["R"] # EmptyPin PROVE Left("S", 1) = <<>>
      OBVIOUS
    <3>1. AtMost(q["S"], "pin")
      BY <1>0 DEF ReadInv, ReadsS
    <3> QED BY <1>0, <3>1, TwoPeers, LastTaken
  <2>5. ASSUME Link PROVE Left("S", 1) = <<>> /\ Listens(n)
    <3>1. pc["R"] = "pinRes" /\ Len(q["S"]) = 1 /\ q["R"] = <<>> /\ buf["R"] = <<>>
      BY <1>0, <2>5 DEF LinkInv, Link, Linked, Astray, One
    <3>2. Left("S", 1) = <<>>
      BY <3>1, TwoPeers, LeftIs
    <3> QED BY <3>1, <3>2 DEF Listens
  <2>6. Told(n)
    BY <1>0, <2>4, <2>5 DEF Told
  <2> QED BY <1>0, <2>1, <2>2, <2>3, <2>6, SenderRound
<1> QED BY <1>1, <1>2 DEF VerifyPin

\* The user of the sender types a PIN, or is not asked for it.
LEMMA SenderEntersLinks ==
    ASSUME TaskTypes, ReadInv, LinkInv, EnterPin("S") \/ DropPinRequest("S") PROVE ReadInv' /\ LinkInv'
<1>0. /\ pc["S"] = "askPin" /\ UNCHANGED config /\ buf' = [buf EXCEPT !["S"] = buf["S"]] /\ 0 \in {0, 1}
  BY TwoPeers, BufferStays DEF EnterPin, DropPinRequest
<1>1. CASE DropPinRequest("S")
  BY <1>0, <1>1, TwoPeers, FailLinks DEF DropPinRequest
<1>2. CASE EnterPin("S")
  <2>1. PICK g \in Guesses : Proceed("S", 0, <<Text("pin", g)>>, {}, "pinRes")
    BY <1>2 DEF EnterPin
  <2>2. PICK m : m = Text("pin", g)
    OBVIOUS
  <2>3. m \in Msg /\ m.k = "pin"
    BY <2>2 DEF Text, Msg
  <2>4. PICK t \in Seq(Msg) : t = <<m>> /\ t # <<>> /\ t[1] = m /\ One(t, "pin") /\ AtMost(t, "pin")
    BY <2>3, Single
  <2>5. Proceed("S", 0, t, {}, "pinRes")
    BY <2>1, <2>2, <2>4
  <2>6. Left("S", 0) = q["S"]
    BY TwoPeers, LeftIs
  <2>7. pin["R"] # EmptyPin => ReadsS("pinRes", buf["S"], Left("S", 0))
    BY <1>0, <2>6 DEF ReadInv, ReadsS
  <2>8. ASSUME Link
        PROVE  /\ pin["R"] # EmptyPin => ReadsR(pc["R"], buf["R"], q["R"] \o t)
               /\ Linked("pinRes", buf["S"], Left("S", 0), pc["R"], buf["R"], q["R"] \o t)
    <3>1. /\ q["R"] = <<>>
          /\ \/ pc["R"] = "verify" /\ q["S"] = <<>>
             \/ pin["R"] = EmptyPin /\ pc["R"] = "list" /\ buf["R"] = <<>>
                /\ One(q["S"], "pinRes") /\ q["S"][1].v = "ok"
      BY <1>0, <2>8 DEF LinkInv, Link, Linked, Astray
    <3>2. q["R"] \o t = t
      BY <3>1, NothingBefore
    <3>3. pin["R"] # EmptyPin => ReadsR(pc["R"], buf["R"], t)
      BY <2>4, <3>1 DEF ReadsR
    <3>4. Linked("pinRes", buf["S"], q["S"], pc["R"], buf["R"], t)
      BY <2>3, <2>4, <3>1 DEF Linked, Astray
    <3> QED BY <2>6, <3>2, <3>3, <3>4
  <2> QED BY <1>0, <2>5, <2>7, <2>8, SenderGoes
<1> QED BY <1>1, <1>2

\* A chunk of the answer to the list.
LEMMA SenderCollectsLinks ==
    ASSUME TaskTypes, ReadInv, LinkInv, ReceiveChunk("S") PROVE ReadInv' /\ LinkInv'
<1>0. /\ pc["S"] = "selection" /\ q["S"] # <<>> /\ UNCHANGED config /\ ~IsString(Arrived("S"))
      /\ buf' = [buf EXCEPT !["S"] = @ \o Arrived("S").data] /\ 1 \in {0, 1}
      /\ Proceed("S", 1, <<>>, {}, pc["S"])
  BY DEF ReceiveChunk, ChunkStates
<1>1. PICK a : a = buf["S"] \o q["S"][1].data
  OBVIOUS
<1>2. /\ q["S"] \in Seq(Msg) /\ Arrived("S") = q["S"][1] /\ buf["S"] \in Seq(Unit)
      /\ Left("S", 1) \in Seq(Msg) /\ IsRest(Left("S", 1), q["S"])
  BY <1>0, TwoPeers, LeftIs
<1>3. buf' = [buf EXCEPT !["S"] = a]
  BY <1>0, <1>1, <1>2
<1>4. ASSUME NEW s, Comes(s, buf["S"], q["S"])
      PROVE  Comes(s, a, Left("S", 1)) /\ Len(a) + Len(Left("S", 1)) = Len(buf["S"]) + Len(q["S"])
  BY <1>0, <1>1, <1>2, <1>4, ComesNext
<1>5. pin["R"] # EmptyPin => ReadsS("selection", a, Left("S", 1))
  BY <1>0, <1>4 DEF ReadInv, ReadsS
<1>6. ASSUME Link PROVE Linked("selection", a, Left("S", 1), pc["R"], buf["R"], q["R"])
  <2>1. pc["R"] = "files" /\ ComesAll("ok", buf["S"], q["S"]) /\ q["R"] = <<>>
    BY <1>0, <1>6 DEF LinkInv, Link, Linked, Astray
  <2>2. ComesAll("ok", a, Left("S", 1))
    BY <1>4, <2>1 DEF ComesAll
  <2> QED BY <2>1, <2>2 DEF Linked
<1> QED BY <1>0, <1>3, <1>5, <1>6, SenderTakes

\* The answer to the list.
LEMMA HandleFileListResponseLinks ==
    ASSUME TaskTypes, ReadInv, LinkInv, HandleFileListResponse PROVE ReadInv' /\ LinkInv'
<1>0. /\ pc["S"] = "selection" /\ q["S"] # <<>> /\ UNCHANGED config
      /\ buf' = [buf EXCEPT !["S"] = <<>>] /\ 1 \in {0, 1} /\ 0 \in {0, 1}
  BY DEF HandleFileListResponse, Ended, Receives
<1>1. ASSUME NEW sts, NEW why, Fail("S", <<>>, sts, why) PROVE ReadInv' /\ LinkInv'
  BY <1>0, <1>1, TwoPeers, FailLinks
<1>2. CASE Complete("S", <<>>, {"Declined"})
  <2>1. <<>> \in Seq(Msg)
    OBVIOUS
  <2>2. Passed("S", 0, <<>>, {"dead"})
    BY <1>2, <2>1, TwoPeers, CompletePasses
  <2> QED BY <1>0, <2>2, SenderQuits
<1>3. CASE Proceed("S", 1, <<>>, {}, "sending")
  <2>1. ReadsS("sending", <<>>, Left("S", 1))
    BY DEF ReadsS
  <2>2. ASSUME Link PROVE Linked("sending", <<>>, Left("S", 1), pc["R"], buf["R"], q["R"])
    <3>1. pc["R"] = "files" /\ q["R"] = <<>>
      BY <1>0, <2>2 DEF LinkInv, Link, Linked, Astray
    <3>2. \A i \in 1..Len(q["R"]) : q["R"][i].k # "delimiter"
      BY <3>1
    <3> QED BY <3>1, <3>2 DEF Linked
  <2> QED BY <1>0, <1>3, <2>1, <2>2, SenderTakes
<1> QED BY <1>1, <1>2, <1>3 DEF HandleFileListResponse

\* Nothing that is sent ends the files.
NoEnd(t) == \A i \in 1..Len(t) : t[i].k # "delimiter"

\* Headers and content are sent.
LEMMA WriteLinks ==
    ASSUME TaskTypes, ReadInv, LinkInv, UNCHANGED <<config, buf>>, pc["S"] = "sending",
           NEW msgs \in Seq(Msg), NoEnd(msgs), Write(msgs)
    PROVE  ReadInv' /\ LinkInv'
<1>0. buf' = [buf EXCEPT !["S"] = buf["S"]] /\ 0 \in {0, 1} /\ pc["S"] # "dead" /\ UNCHANGED config
  BY TwoPeers, BufferStays
<1>1. PICK nexts : nexts = {pc["S"]} /\ Passed("S", 0, msgs, nexts)
  BY WritePasses
<1>2. \A x \in nexts \ {"dead"} : x = "sending"
  BY <1>1
<1>3. ReadsS("sending", buf["S"], Left("S", 0))
  BY DEF ReadsS
<1>4. ASSUME Link
      PROVE  /\ ReadsR(pc["R"], buf["R"], q["R"] \o msgs)
             /\ Linked("sending", buf["S"], Left("S", 0), pc["R"], buf["R"], q["R"] \o msgs)
  <2>1. pc["R"] = "files" /\ NoEnd(q["R"])
    BY <1>4 DEF LinkInv, Link, Linked, Astray, NoEnd
  <2>2. PICK t : t = q["R"] \o msgs
    OBVIOUS
  <2>3. q["R"] \in Seq(Msg) /\ IsBoth(t, q["R"], msgs)
    BY <2>2, TwoPeers, LeftIs, PartsAre
  <2>4. NoEnd(t)
    <3> SUFFICES ASSUME NEW i \in 1..Len(t) PROVE t[i].k # "delimiter"
      BY DEF NoEnd
    <3>0. Len(q["R"]) \in Nat /\ Len(msgs) \in Nat /\ Len(t) = Len(q["R"]) + Len(msgs)
      BY <2>3 DEF IsBoth
    <3>1. CASE i \in 1..Len(q["R"])
      BY <2>1, <2>3, <3>1 DEF NoEnd, IsBoth
    <3>2. CASE i \notin 1..Len(q["R"])
      <4>1. i \in (Len(q["R"]) + 1) .. Len(t) /\ i - Len(q["R"]) \in 1..Len(msgs)
        BY <3>0, <3>2
      <4> QED BY <2>3, <4>1 DEF NoEnd, IsBoth
    <3> QED BY <3>1, <3>2
  <2>5. ReadsR(pc["R"], buf["R"], t)
    BY <2>1 DEF ReadsR
  <2>6. Linked("sending", buf["S"], Left("S", 0), pc["R"], buf["R"], t)
    BY <2>1, <2>4 DEF Linked, NoEnd
  <2> QED BY <2>2, <2>5, <2>6
<1>5. /\ \A x \in nexts \ {"dead"} : ReadsS(x, buf["S"], Left("S", 0))
      /\ Link => /\ ReadsR(pc["R"], buf["R"], q["R"] \o msgs)
                 /\ \A x \in nexts \ {"dead"} :
                       Linked(x, buf["S"], Left("S", 0), pc["R"], buf["R"], q["R"] \o msgs)
  BY <1>2, <1>3, <1>4
<1> QED BY <1>0, <1>1, <1>5, SenderLinks

\* The sender writes t: headers and content, after which a file is open unless none
\* was before and none was handed over that has a token.
NextAt == At(Received, q["R"], Len(q["R"]) + 1)
Written(t) ==
    /\ t \in Seq(Msg) /\ Write(t) /\ \A i \in 1..Len(t) : t[i].k \in {"bin", "header"}
    /\ Live /\ pc["R"] = "files" =>
          \A P : P = NextAt /\ At(P, t, Len(t) + 1)[1] = None =>
                    P[1] = None /\ given' \cap fileMap = given \cap fileMap

\* A place in a file.
LEMMA InFile == ASSUME NEW f \in Files, NEW x PROVE \E Z : Z = <<f, x>> /\ Z[1] # None
<1>1. PICK Z : Z = <<f, x>>
  OBVIOUS
<1>2. Z[1] = f
  BY <1>1
<1> QED BY <1>1, <1>2, NoneAssumption

\* The app hands over a file.
LEMMA HeaderWritten ==
    ASSUME TaskTypes, FlowInv, SendHeader PROVE \E t : Written(t)
<1>1. PICK f \in Files \ given :
         /\ given' = given \cup {f}
         /\ \/ Write(<<Text("header", f)>>)
            \/ (f \in fileMap => FALSE \in SendResults("S", <<Text("header", f)>>)) /\ UNCHANGED control
  BY DEF SendHeader, HasToken
<1>2. CASE Write(<<Text("header", f)>>)
  <2>1. PICK m : m = Text("header", f)
    OBVIOUS
  <2>2. m \in Msg /\ m.k = "header" /\ m.v = f
    BY <2>1 DEF Text, Msg
  <2>3. PICK t \in Seq(Msg) : t = <<m>> /\ Len(t) = 1 /\ t[1] = m
    BY <2>2, Single
  <2>4. PICK Z : Z = <<f, 0>> /\ Z[1] # None
    BY InFile
  <2>5. ASSUME NEW P PROVE At(P, t, Len(t) + 1)[1] # None
    <3>1. Len(t) + 1 # 1 /\ Len(t) + 1 - 1 = 1
      BY <2>3
    <3>2. At(P, t, Len(t) + 1) = Z
      BY <2>2, <2>3, <2>4, <3>1 DEF At, After
    <3> QED BY <2>4, <3>2
  <2>6. \A i \in 1..Len(t) : t[i].k \in {"bin", "header"}
    BY <2>2, <2>3
  <2>7. Written(t)
    BY <1>2, <2>1, <2>3, <2>5, <2>6 DEF Written
  <2> QED BY <2>7
<1>3. CASE (f \in fileMap => FALSE \in SendResults("S", <<Text("header", f)>>)) /\ UNCHANGED control
  <2>1. PICK t : t = <<>>
    OBVIOUS
  <2>2. t \in Seq(Msg) /\ \A i \in 1..Len(t) : t[i].k \in {"bin", "header"}
    BY <2>1
  <2>3. Write(t)
    <3>1. Sent("S", t) = q["R"]
      BY <2>1, TwoPeers, SentFirst, TalkNone DEF Talk
    <3> QED BY <1>3, <3>1 DEF Write, control, TaskTypes
  <2>4. ASSUME NEW P PROVE At(P, t, Len(t) + 1) = P
    BY <2>1, NoText
  <2>5. Live => f \notin fileMap
    BY <1>3, SendsWhenLive
  <2>6. Live => given' \cap fileMap = given \cap fileMap
    BY <1>1, <2>5
  <2>7. Written(t)
    BY <2>2, <2>3, <2>4, <2>6 DEF Written
  <2> QED BY <2>7
<1> QED BY <1>1, <1>2, <1>3

\* It produces some of it.
LEMMA ChunksWritten ==
    ASSUME TaskTypes, FileTypes, FlowInv, SendChunks PROVE \E t : Written(t)
<1>0. pc["S"] = "sending" /\ cur # None
  BY DEF SendChunks
<1>1. PICK c \in Files, k \in Nat, o \in Seq(Unit) : c = cur /\ k = read[cur] /\ o = sbuf
  BY <1>0 DEF FileTypes
<1>2. PICK n \in 1 .. (Size[c] - k) : Write(FullChunks(o \o SubSeq(Content(c), k + 1, k + n)))
  BY <1>1 DEF SendChunks
<1>3. Size[c] \in Nat /\ n \in Nat /\ k + n \in Nat /\ k + n <= Size[c]
  BY SizeAssumption
<1>4. PICK a \in Nat : a = k - Len(o) /\ Len(o) \in Nat /\ Len(o) <= k /\ Run(c, a, o)
  <2>1. Len(o) \in Nat /\ Len(o) <= k /\ Run(c, k - Len(o), o)
    BY <1>0, <1>1 DEF FlowInv, FileInv
  <2> QED BY <2>1
<1>5. PICK d : d = SubSeq(Content(c), k + 1, k + n)
  OBVIOUS
<1>6. d \in Seq(Unit) /\ Run(c, a + Len(o), d)
  <2>1. IsCut(d, Content(c), k, k + n)
    BY <1>3, <1>5, ContentIs DEF IsCut
  <2>2. d \in Seq(Unit) /\ Run(c, 0 + k, d)
    BY <2>1, ContentRuns, PartRuns
  <2>3. 0 + k = a + Len(o)
    BY <1>4
  <2> QED BY <2>2, <2>3
<1>7. PICK b \in Seq(Unit) : b = o \o d /\ Run(c, a, b)
  BY <1>4, <1>6, RunGoesOn
<1>8. PICK t : t = FullChunks(b)
  OBVIOUS
<1>9. PICK x : t \in Seq(Msg) /\ At(<<c, a>>, t, Len(t) + 1) = <<c, x>>
  <2>1. Run(c, a, b)
    BY <1>7
  <2>2. t \in Seq(Msg) /\ At(<<c, a>>, t, Len(t) + 1) = <<c, a + Len(b) - Len(Leftover(b))>>
    BY <1>8, <2>1, ChunkStream
  <2> QED BY <2>2
<1>10. \A i \in 1..Len(t) : t[i].k \in {"bin", "header"}
  <2>1. \A i \in DOMAIN t : t[i].k = "bin"
    BY <1>8 DEF FullChunks, Bin
  <2>2. DOMAIN t = 1..Len(t)
    BY <1>9
  <2> QED BY <2>1, <2>2
<1>11. Write(t)
  BY <1>2, <1>5, <1>7, <1>8
<1>12. ASSUME pc["R"] = "files", Live, NEW P, P = NextAt PROVE At(P, t, Len(t) + 1)[1] # None
  <2>1. P = <<c, a>>
    BY <1>0, <1>1, <1>4, <1>12, NextPlace DEF NextAt
  <2>2. PICK Z : Z = <<c, x>> /\ Z[1] # None
    BY InFile
  <2>3. At(P, t, Len(t) + 1) = Z
    BY <1>9, <2>1, <2>2
  <2> QED BY <2>2, <2>3
<1>13. Written(t)
  BY <1>9, <1>10, <1>11, <1>12 DEF Written
<1> QED BY <1>13

\* It has produced the file.
LEMMA RestWritten ==
    ASSUME TaskTypes, FileTypes, FlowInv, SendRest PROVE \E t : Written(t)
<1>0. pc["S"] = "sending" /\ cur # None /\ UNCHANGED given
  BY DEF SendRest
<1>1. PICK c \in Files, k \in Nat, o \in Seq(Unit) : c = cur /\ k = read[cur] /\ o = sbuf
  BY <1>0 DEF FileTypes
<1>2. PICK a \in Nat : a = k - Len(o) /\ Run(c, a, o)
  <2>1. Len(o) \in Nat /\ Len(o) <= k /\ Run(c, k - Len(o), o)
    BY <1>0, <1>1 DEF FlowInv, FileInv
  <2> QED BY <2>1
<1>3. PICK t : t = (IF o = <<>> THEN <<>> ELSE <<Bin(o)>>) /\ Write(t)
  BY <1>1 DEF SendRest
<1>4. CASE o = <<>>
  <2>1. t = <<>> /\ t \in Seq(Msg) /\ \A i \in 1..Len(t) : t[i].k \in {"bin", "header"}
    BY <1>3, <1>4
  <2>2. ASSUME NEW P PROVE At(P, t, Len(t) + 1) = P
    BY <2>1, NoText
  <2>3. Written(t)
    BY <1>0, <1>3, <2>1, <2>2 DEF Written
  <2> QED BY <2>3
<1>5. CASE o # <<>>
  <2>1. PICK m : m = Bin(o)
    OBVIOUS
  <2>2. /\ m \in Msg /\ m.k = "bin" /\ At(<<c, a>>, <<m>>, Len(<<m>>) + 1) = <<c, a + Len(o)>>
    BY <1>2, <1>5, <2>1, OneBin
  <2>3. PICK u \in Seq(Msg) : u = <<m>> /\ Len(u) = 1 /\ u[1] = m
    BY <2>2, Single
  <2>4. t = u /\ \A i \in 1..Len(u) : u[i].k \in {"bin", "header"}
    BY <1>3, <1>5, <2>1, <2>2, <2>3
  <2>5. ASSUME pc["R"] = "files", Live, NEW P, P = NextAt PROVE At(P, t, Len(t) + 1)[1] # None
    <3>1. P = <<c, a>>
      BY <1>0, <1>1, <1>2, <2>5, NextPlace DEF NextAt
    <3>2. PICK Z : Z = <<c, a + Len(o)>> /\ Z[1] # None
      BY InFile
    <3>3. At(P, t, Len(t) + 1) = Z
      BY <2>2, <2>3, <2>4, <3>1, <3>2
    <3> QED BY <3>2, <3>3
  <2>6. Written(t)
    BY <1>3, <2>3, <2>4, <2>5 DEF Written
  <2> QED BY <2>6
<1> QED BY <1>4, <1>5

\* The app hands over a file, produces it and ends it.
SendsFile == SendHeader \/ SendChunks \/ SendRest
LEMMA SendFilesLinks ==
    ASSUME TaskTypes, FileTypes, FlowInv, ReadInv, LinkInv, SendsFile PROVE ReadInv' /\ LinkInv'
<1>1. pc["S"] = "sending" /\ UNCHANGED <<config, buf>>
  BY DEF SendsFile, SendHeader, SendChunks, SendRest
<1>2. PICK t : Written(t)
  BY HeaderWritten, ChunksWritten, RestWritten DEF SendsFile
<1>3. t \in Seq(Msg) /\ NoEnd(t) /\ Write(t)
  BY <1>2 DEF Written, NoEnd
<1> QED BY <1>1, <1>3, WriteLinks

\* The files are over, and the last status is waited for.
LEMMA SendEndLinks ==
    ASSUME TaskTypes, ReadInv, LinkInv, SendEnd \/ AwaitStatus PROVE ReadInv' /\ LinkInv'
<1>0. /\ pc["S"] \in {"sending", "status"} /\ UNCHANGED config
      /\ buf' = [buf EXCEPT !["S"] = buf["S"]] /\ 0 \in {0, 1}
  BY TwoPeers, BufferStays DEF SendEnd, AwaitStatus, Receives
<1>1. CASE AwaitStatus
  <2>1. <<>> \in Seq(Msg)
    OBVIOUS
  <2>2. Passed("S", 0, <<>>, {"dead"})
    BY <1>1, <2>1, TwoPeers, CompletePasses DEF AwaitStatus
  <2> QED BY <1>0, <2>2, SenderQuits
<1>2. CASE SendEnd
  <2>1. Delimiter \in Msg /\ Delimiter.k = "delimiter"
    BY TwoPeers, DelimiterTo, ChunkData
  <2>2. PICK t \in Seq(Msg) : t = <<Delimiter>> /\ Len(t) = 1 /\ t[1] = Delimiter
    BY <2>1, Single
  <2>3. Proceed("S", 0, t, {}, "status") /\ pc["S"] = "sending"
    BY <1>2, <2>2 DEF SendEnd
  <2>4. ReadsS("status", buf["S"], Left("S", 0))
    BY DEF ReadsS
  <2>5. ASSUME Link
        PROVE  /\ ReadsR(pc["R"], buf["R"], q["R"] \o t)
               /\ Linked("status", buf["S"], Left("S", 0), pc["R"], buf["R"], q["R"] \o t)
    <3>1. pc["R"] = "files"
      BY <2>3, <2>5 DEF LinkInv, Link, Linked, Astray
    <3>2. PICK u : u = q["R"] \o t
      OBVIOUS
    <3>3. q["R"] \in Seq(Msg) /\ u \in Seq(Msg) /\ IsBoth(u, q["R"], t)
      BY <3>2, TwoPeers, LeftIs, PartsAre
    <3>4. Len(q["R"]) \in Nat /\ Len(u) = Len(q["R"]) + 1
      BY <2>2, <3>3 DEF IsBoth
    <3>5. u # <<>> /\ Len(u) \in (Len(q["R"]) + 1) .. Len(u) /\ Len(u) - Len(q["R"]) = 1
      BY <3>3, <3>4
    <3>6. u[Len(u)].k = "delimiter"
      <4>1. u[Len(u)] = t[Len(u) - Len(q["R"])]
        BY <3>3, <3>5 DEF IsBoth
      <4> QED BY <2>1, <2>2, <3>5, <4>1
    <3>7. ReadsR(pc["R"], buf["R"], u)
      BY <3>1 DEF ReadsR
    <3>8. Linked("status", buf["S"], Left("S", 0), pc["R"], buf["R"], u)
      BY <3>1, <3>5, <3>6 DEF Linked
    <3> QED BY <3>2, <3>7, <3>8
  <2> QED BY <1>0, <2>3, <2>4, <2>5, SenderGoes
<1> QED BY <1>1, <1>2

----------------------------------------------------------------------------
(* The receiver before its files *)

\* The sender's nonce.
LEMMA ReceiveNonceLinks == ASSUME TaskTypes, ReadInv, LinkInv, ReceiveNonce PROVE ReadInv' /\ LinkInv'
<1>0. /\ pc["R"] = "nonce" /\ q["R"] # <<>> /\ UNCHANGED config
      /\ buf' = [buf EXCEPT !["R"] = buf["R"]] /\ 1 \in {0, 1}
  BY TwoPeers, BufferStays DEF ReceiveNonce, Receives
<1>1. CASE Fail("R", <<>>, {}, "parse")
  BY <1>0, <1>1, TwoPeers, FailLinks
<1>2. CASE Proceed("R", 1, <<Text("nonce", generate_nonce("R"))>>, {}, "token")
  <2>1. PICK m : m = Text("nonce", generate_nonce("R"))
    OBVIOUS
  <2>2. m \in Msg /\ m.k = "nonce"
    BY <2>1 DEF Text, Msg, GR
  <2>3. PICK t \in Seq(Msg) : t = <<m>> /\ One(t, "nonce") /\ AtMost(t, "nonce")
    BY <2>2, Single
  <2>4. Proceed("R", 1, t, {}, "token")
    BY <1>2, <2>1, <2>3
  <2>5. pin["R"] # EmptyPin => ReadsR("token", buf["R"], Left("R", 1))
    <3> SUFFICES ASSUME pin["R"] # EmptyPin PROVE ReadsR("token", buf["R"], Left("R", 1))
      OBVIOUS
    <3>1. AtMost(q["R"], "nonce")
      BY <1>0 DEF ReadInv, ReadsR
    <3>2. Left("R", 1) = <<>>
      BY <1>0, <3>1, TwoPeers, LastTaken
    <3> QED BY <3>2, OneIs DEF ReadsR
  <2>6. ASSUME Link
        PROVE  /\ ReadsS(pc["S"], buf["S"], q["S"] \o t)
               /\ Linked(pc["S"], buf["S"], q["S"] \o t, "token", buf["R"], Left("R", 1))
    <3>1. pc["S"] = "nonce" /\ q["S"] = <<>> /\ One(q["R"], "nonce")
      BY <1>0, <2>6 DEF LinkInv, Link, Linked, Astray
    <3>2. q["S"] \o t = t /\ Left("R", 1) = <<>>
      BY <3>1, TwoPeers, LeftIs, NothingBefore DEF One
    <3>3. ReadsS(pc["S"], buf["S"], t)
      BY <2>3, <3>1 DEF ReadsS
    <3>4. Linked(pc["S"], buf["S"], t, "token", buf["R"], Left("R", 1))
      BY <2>3, <3>1, <3>2 DEF Linked
    <3> QED BY <3>2, <3>3, <3>4
  <2> QED BY <1>0, <2>4, <2>5, <2>6, ReceiverGoes
<1> QED BY <1>1, <1>2 DEF ReceiveNonce

\* Nothing is collected and nothing comes: any string may.
LEMMA AnyString == \A r : ReadsR(r, <<>>, <<>>)
<1>1. PICK s \in Strings : s = Str("list", Files) /\ s.k = "list"
  BY StringsAre
<1>2. Comes(s, <<>>, <<>>)
  BY ComesFirst
<1>3. \A r : s.k \in Answers(r)
  BY <1>1 DEF Answers
<1> QED BY <1>1, <1>2, <1>3, OneIs DEF ReadsR

\* The receiver has read everything and collected nothing, and the sender waits at c
\* with nothing to read.
Asked(c) ==
    /\ buf["R"] = <<>>
    /\ pin["R"] # EmptyPin \/ Link => Left("R", 1) = <<>>
    /\ Link => pc["S"] = c /\ q["S"] = <<>>

\* A receiver that answers and goes on.
LEMMA ReceiverAnswers ==
    ASSUME TaskTypes, ReadInv, LinkInv, UNCHANGED <<config, buf>>, pc["R"] # "dead",
           NEW c, Asked(c), NEW t \in Seq(Msg), NEW sts, NEW next, Proceed("R", 1, t, sts, next),
           pin["R"] # EmptyPin => ReadsS(c, buf["S"], t),
           Linked(c, buf["S"], t, next, <<>>, <<>>)
    PROVE  ReadInv' /\ LinkInv'
<1>0. buf' = [buf EXCEPT !["R"] = <<>>] /\ 1 \in {0, 1}
  BY TwoPeers, BufferStays DEF Asked
<1>1. pin["R"] # EmptyPin => ReadsR(next, <<>>, Left("R", 1))
  BY AnyString DEF Asked
<1>2. ASSUME Link
      PROVE  /\ pin["R"] # EmptyPin => ReadsS(pc["S"], buf["S"], q["S"] \o t)
             /\ Linked(pc["S"], buf["S"], q["S"] \o t, next, <<>>, Left("R", 1))
  <2>1. pc["S"] = c /\ q["S"] = <<>> /\ Left("R", 1) = <<>> /\ q["S"] \o t = t
    BY <1>2, NothingBefore DEF Asked
  <2> QED BY <2>1
<1> QED BY <1>0, <1>1, <1>2, ReceiverGoes

\* A receiver that answers and fails.
LEMMA ReceiverRefuses ==
    ASSUME TaskTypes, ReadInv, LinkInv, UNCHANGED <<config, buf>>, pc["R"] # "dead",
           NEW c, Asked(c), NEW t \in Seq(Msg), NEW sts, NEW why, Fail("R", t, sts, why),
           pin["R"] # EmptyPin => ReadsS(c, buf["S"], t)
    PROVE  ReadInv' /\ LinkInv'
<1>0. buf' = [buf EXCEPT !["R"] = <<>>] /\ 0 \in {0, 1}
  BY TwoPeers, BufferStays DEF Asked
<1>1. PICK nexts : nexts = {"dead"} /\ Passed("R", 0, t, nexts)
  BY TwoPeers, FailPasses
<1>2. ASSUME Link PROVE pin["R"] # EmptyPin => ReadsS(pc["S"], buf["S"], q["S"] \o t)
  <2>1. pc["S"] = c /\ q["S"] = <<>> /\ q["S"] \o t = t
    BY <1>2, NothingBefore DEF Asked
  <2> QED BY <2>1
<1>3. \A x : x \notin nexts \ {"dead"}
  BY <1>1
<1> QED BY <1>0, <1>1, <1>2, <1>3, ReceiverLinks

\* What the answers to a token are.
LEMMA ResponseIs ==
    ASSUME NEW r \in {"ok", "pinRequired", "invalidSignature"}, NEW tok \in {None, Token("R", Full)}
    PROVE  \E m \in Msg : /\ m.k = "tokenRes" /\ m.v.result = r
                          /\ TokenResponse(r, tok) = <<m>>
<1>1. PICK v : v = [result |-> r, token |-> tok]
  OBVIOUS
<1>2. v \in Responses /\ v.result = r
  BY <1>1 DEF Responses
<1>3. PICK m : m = Text("tokenRes", v)
  OBVIOUS
<1>4. m \in Msg /\ m.k = "tokenRes" /\ m.v = v
  BY <1>2, <1>3 DEF Text, Msg
<1> QED BY <1>1, <1>2, <1>3, <1>4 DEF TokenResponse

\* What the answers to a PIN are.
LEMMA PinResIs ==
    ASSUME NEW k \in {"ok", "pinRequired", "tooMany"}
    PROVE  \E m \in Msg : m = Text("pinRes", k) /\ m.k = "pinRes" /\ m.v = k
<1>1. PICK m : m = Text("pinRes", k)
  OBVIOUS
<1>2. m \in Msg /\ m.k = "pinRes" /\ m.v = k
  BY <1>1 DEF Text, Msg
<1> QED BY <1>1, <1>2

\* Two messages.
LEMMA Two ==
    ASSUME NEW m \in Msg, NEW o \in Msg
    PROVE  /\ \E t \in Seq(Msg) : /\ t = Append(<<m>>, o) /\ t = <<m>> \o <<o>> /\ Len(t) = 2
                                  /\ t # <<>> /\ t[1] = m /\ t[2] = o
           /\ <<m>> \o <<>> = <<m>>
<1>1. <<m>> \o <<o>> = Append(<<m>>, o) /\ <<m>> \o <<>> = <<m>>
  OBVIOUS
<1>2. PICK t : t = Append(<<m>>, o)
  OBVIOUS
<1>3. t \in Seq(Msg) /\ Len(t) = 2 /\ t[1] = m /\ t[2] = o
  BY <1>2
<1>4. t # <<>>
  <2>1. Len(t) = 2 /\ Len(<<>>) = 0
    BY <1>3
  <2>2. Len(t) # Len(<<>>)
    BY <2>1
  <2> QED BY <2>2
<1>5. t = Append(<<m>>, o) /\ t = <<m>> \o <<o>>
  BY <1>1, <1>2
<1>6. <<m>> \o <<>> = <<m>>
  BY <1>1
<1> QED BY <1>3, <1>4, <1>5, <1>6

\* The receiver's challenge, with the answer to the token.
LEMMA ReceiverChallenge ==
    ASSUME TaskTypes, ReadInv, LinkInv, UNCHANGED <<config, buf>>, pc["R"] # "dead", Asked("token"),
           NEW m \in Msg, m.k = "tokenRes", m.v.result = "pinRequired",
           NEW n, NEW no, no = FALSE, NEW sts, verify_pin("R", EmptyPin, n, no, <<m>>, sts)
    PROVE  ReadInv' /\ LinkInv'
<1>1. CASE Verdict("R", EmptyPin, n) = "pass" /\ AfterPass("R", <<m>>, sts)
  <2>1. pin["R"] = EmptyPin
    BY <1>1 DEF Verdict
  <2>2. PICK o \in Msg : o = Text("pinRes", "ok") /\ o.k = "pinRes" /\ o.v = "ok"
    BY PinResIs
  <2>3. PICK t \in Seq(Msg) : t = Append(<<m>>, o) /\ Len(t) = 2 /\ t[1] = m /\ t[2] = o
    BY Two
  <2>4. Proceed("R", 1, t, sts, "list")
    BY <1>1, <2>2, <2>3 DEF AfterPass
  <2>5. Linked("token", buf["S"], t, "list", <<>>, <<>>)
    BY <2>1, <2>2, <2>3 DEF Linked, Astray
  <2> QED BY <2>1, <2>4, <2>5, ReceiverAnswers
<1>2. CASE Fail("R", <<m>> \o Notice("R", "tooMany"), sts \cup {"TooManyAttempts"}, "tooMany")
  <2>1. PICK o \in Msg : o = Text("pinRes", "tooMany") /\ o.k = "pinRes"
    BY PinResIs
  <2>2. PICK t \in Seq(Msg) : t = <<m>> \o <<o>> /\ Len(t) = 2 /\ t[1] = m /\ t[2] = o
    BY Two
  <2>3. Fail("R", t, sts \cup {"TooManyAttempts"}, "tooMany")
    BY <1>2, <2>1, <2>2 DEF Notice
  <2>4. ReadsS("token", buf["S"], t)
    BY <2>1, <2>2 DEF ReadsS
  <2> QED BY <2>3, <2>4, ReceiverRefuses
<1>3. CASE Proceed("R", 1, <<m>> \o (IF no THEN Notice("R", "pinRequired") ELSE <<>>), sts, "verify")
  <2>1. PICK t \in Seq(Msg) : t = <<m>> /\ Len(t) = 1 /\ t[1] = m /\ One(t, "tokenRes")
    BY Single
  <2>2. Proceed("R", 1, t, sts, "verify")
    BY <1>3, <2>1, Two
  <2>3. ReadsS("token", buf["S"], t)
    BY <2>1 DEF ReadsS
  <2>4. Linked("token", buf["S"], t, "verify", <<>>, <<>>)
    BY <2>1 DEF Linked
  <2> QED BY <2>2, <2>3, <2>4, ReceiverAnswers
<1> QED BY <1>1, <1>2, <1>3 DEF verify_pin

\* The sender's token.
LEMMA HandleTokenRequestLinks ==
    ASSUME TaskTypes, GateInv, PhaseInv, ReadInv, LinkInv, HandleTokenRequest PROVE ReadInv' /\ LinkInv'
<1>0. /\ pc["R"] = "token" /\ q["R"] # <<>> /\ UNCHANGED <<config, buf>> /\ buf["R"] = <<>>
      /\ buf' = [buf EXCEPT !["R"] = <<>>] /\ nonce["R"] = Full
  <2>1. pc["R"] = "token" /\ q["R"] # <<>> /\ UNCHANGED <<config, buf>> /\ buf["R"] = <<>>
    BY DEF HandleTokenRequest, Receives, PhaseInv
  <2>2. ControlOk("R", pc["R"], nonce["R"])
    BY TwoPeers DEF GateInv
  <2> QED BY <2>1, <2>2, TwoPeers, BufferStays DEF ControlOk
<1>1. Asked("token")
  <2>1. pin["R"] # EmptyPin => Left("R", 1) = <<>>
    <3> SUFFICES ASSUME pin["R"] # EmptyPin PROVE Left("R", 1) = <<>>
      OBVIOUS
    <3>1. AtMost(q["R"], "token")
      BY <1>0 DEF ReadInv, ReadsR
    <3> QED BY <1>0, <3>1, TwoPeers, LastTaken
  <2>2. ASSUME Link PROVE pc["S"] = "token" /\ q["S"] = <<>> /\ Left("R", 1) = <<>>
    <3>1. pc["S"] = "token" /\ q["S"] = <<>> /\ Len(q["R"]) = 1
      BY <1>0, <2>2 DEF LinkInv, Link, Linked, Astray, One
    <3> QED BY <3>1, TwoPeers, LeftIs
  <2> QED BY <1>0, <2>1, <2>2 DEF Asked
<1>2. CASE Fail("R", <<>>, {}, "parse")
  BY <1>0, <1>2, TwoPeers, FailLinks
<1>3. CASE Fail("R", TokenResponse("invalidSignature", None), {}, "untrusted")
  <2>1. PICK m \in Msg : m.k = "tokenRes" /\ TokenResponse("invalidSignature", None) = <<m>>
    BY ResponseIs
  <2>2. PICK t \in Seq(Msg) : t = <<m>> /\ Len(t) = 1 /\ t[1] = m
    BY Single
  <2>3. Fail("R", t, {}, "untrusted")
    BY <1>3, <2>1, <2>2
  <2>4. ReadsS("token", buf["S"], t)
    BY <2>1, <2>2 DEF ReadsS
  <2> QED BY <1>0, <1>1, <2>3, <2>4, ReceiverRefuses
<1>4. CASE Proceed("R", 1, TokenResponse("ok", Token("R", nonce["R"])), {}, "list")
  <2>1. PICK m \in Msg : /\ m.k = "tokenRes" /\ m.v.result = "ok"
                         /\ TokenResponse("ok", Token("R", Full)) = <<m>>
    BY ResponseIs
  <2>2. PICK t \in Seq(Msg) : t = <<m>> /\ Len(t) = 1 /\ t[1] = m /\ One(t, "tokenRes")
    BY <2>1, Single
  <2>3. Proceed("R", 1, t, {}, "list")
    BY <1>0, <1>4, <2>1, <2>2
  <2>4. ReadsS("token", buf["S"], t)
    BY <2>1, <2>2 DEF ReadsS
  <2>5. Linked("token", buf["S"], t, "list", <<>>, <<>>)
    BY <2>1, <2>2 DEF Linked
  <2> QED BY <1>0, <1>1, <2>3, <2>4, <2>5, ReceiverAnswers
<1>5. CASE Challenge("R", TokenResponse("pinRequired", Token("R", nonce["R"])))
  <2>1. PICK m \in Msg : /\ m.k = "tokenRes" /\ m.v.result = "pinRequired"
                         /\ TokenResponse("pinRequired", Token("R", Full)) = <<m>>
    BY ResponseIs
  <2>2. PICK n, no, sts : n = 0 /\ no = ("R" = "S") /\ sts = {"PinRequired"}
    OBVIOUS
  <2>3. verify_pin("R", EmptyPin, n, no, <<m>>, sts) /\ no = FALSE
    BY <1>0, <1>5, <2>1, <2>2 DEF Challenge
  <2> QED BY <1>0, <1>1, <2>1, <2>3, ReceiverChallenge
<1> QED BY <1>2, <1>3, <1>4, <1>5 DEF HandleTokenRequest

\* A PIN arrives at the receiver.
LEMMA ReceiverVerifiesLinks ==
    ASSUME TaskTypes, PhaseInv, ReadInv, LinkInv, VerifyPin("R") PROVE ReadInv' /\ LinkInv'
<1>0. /\ pc["R"] = "verify" /\ q["R"] # <<>> /\ UNCHANGED <<config, buf>> /\ buf["R"] = <<>>
      /\ buf' = [buf EXCEPT !["R"] = <<>>]
  <2>1. pc["R"] = "verify" /\ q["R"] # <<>> /\ UNCHANGED <<config, buf>> /\ buf["R"] = <<>>
    BY DEF VerifyPin, Receives, PhaseInv
  <2> QED BY <2>1, TwoPeers, BufferStays
<1>1. Asked("pinRes")
  <2>1. pin["R"] # EmptyPin => Left("R", 1) = <<>>
    <3> SUFFICES ASSUME pin["R"] # EmptyPin PROVE Left("R", 1) = <<>>
      OBVIOUS
    <3>1. AtMost(q["R"], "pin")
      BY <1>0 DEF ReadInv, ReadsR
    <3> QED BY <1>0, <3>1, TwoPeers, LastTaken
  <2>2. ASSUME Link PROVE pc["S"] = "pinRes" /\ q["S"] = <<>> /\ Left("R", 1) = <<>>
    <3>1. pc["S"] = "pinRes" /\ q["S"] = <<>> /\ Len(q["R"]) = 1
      BY <1>0, <2>2 DEF LinkInv, Link, Linked, Astray, One
    <3> QED BY <3>1, TwoPeers, LeftIs
  <2> QED BY <1>0, <2>1, <2>2 DEF Asked
<1>2. CASE Fail("R", <<>>, {}, "parse")
  BY <1>0, <1>2, TwoPeers, FailLinks
<1>3. ASSUME NEW k \in {"ok", "pinRequired", "tooMany"}
      PROVE  \E t \in Seq(Msg) : /\ t = Append(<<>>, Text("pinRes", k)) /\ t = <<>> \o <<Text("pinRes", k)>>
                                 /\ t[1].v = k /\ One(t, "pinRes") /\ AtMost(t, "pinRes")
  <2>1. PICK m \in Msg : m = Text("pinRes", k) /\ m.k = "pinRes" /\ m.v = k
    BY PinResIs
  <2>2. PICK t \in Seq(Msg) : t = <<m>> /\ t[1] = m /\ One(t, "pinRes") /\ AtMost(t, "pinRes")
    BY <2>1, Single
  <2>3. Append(<<>>, m) = <<m>> /\ <<>> \o <<m>> = <<m>>
    OBVIOUS
  <2> QED BY <2>1, <2>2, <2>3
<1>4. CASE AfterPass("R", <<>>, {})
  <2>1. PICK t \in Seq(Msg) : /\ t = Append(<<>>, Text("pinRes", "ok")) /\ t[1].v = "ok"
                              /\ One(t, "pinRes") /\ AtMost(t, "pinRes")
    BY <1>3
  <2>2. Proceed("R", 1, t, {}, "list")
    BY <1>4, <2>1 DEF AfterPass
  <2>3. ReadsS("pinRes", buf["S"], t)
    BY <2>1 DEF ReadsS
  <2>4. Linked("pinRes", buf["S"], t, "list", <<>>, <<>>)
    BY <2>1 DEF Linked
  <2> QED BY <1>0, <1>1, <2>2, <2>3, <2>4, ReceiverAnswers
<1>5. CASE Fail("R", <<>> \o Notice("R", "tooMany"), {} \cup {"TooManyAttempts"}, "tooMany")
  <2>1. PICK t \in Seq(Msg) : t = <<>> \o <<Text("pinRes", "tooMany")>> /\ AtMost(t, "pinRes")
    BY <1>3
  <2>2. Fail("R", t, {} \cup {"TooManyAttempts"}, "tooMany")
    BY <1>5, <2>1 DEF Notice
  <2>3. ReadsS("pinRes", buf["S"], t)
    BY <2>1 DEF ReadsS
  <2> QED BY <1>0, <1>1, <2>2, <2>3, ReceiverRefuses
<1>6. CASE Proceed("R", 1, <<>> \o Notice("R", "pinRequired"), {}, "verify")
  <2>1. PICK t \in Seq(Msg) : /\ t = <<>> \o <<Text("pinRes", "pinRequired")>> /\ t[1].v = "pinRequired"
                              /\ One(t, "pinRes") /\ AtMost(t, "pinRes")
    BY <1>3
  <2>2. Proceed("R", 1, t, {}, "verify")
    BY <1>6, <2>1 DEF Notice
  <2>3. ReadsS("pinRes", buf["S"], t)
    BY <2>1 DEF ReadsS
  <2>4. Linked("pinRes", buf["S"], t, "verify", <<>>, <<>>)
    BY <2>1 DEF Linked
  <2> QED BY <1>0, <1>1, <2>2, <2>3, <2>4, ReceiverAnswers
<1> QED BY <1>2, <1>4, <1>5, <1>6 DEF VerifyPin, verify_pin

\* The receiver's user types a PIN, or the app drops the request.
LEMMA ReceiverEntersLinks ==
    ASSUME TaskTypes, PhaseInv, ReadInv, LinkInv, EnterPin("R") \/ DropPinRequest("R")
    PROVE  ReadInv' /\ LinkInv'
<1>0. /\ pc["R"] = "askPin" /\ UNCHANGED config /\ buf' = [buf EXCEPT !["R"] = <<>>] /\ 0 \in {0, 1}
  <2>1. pc["R"] = "askPin" /\ UNCHANGED <<config, buf>> /\ buf["R"] = <<>>
    BY DEF EnterPin, DropPinRequest, PhaseInv
  <2> QED BY <2>1, TwoPeers, BufferStays
<1>1. CASE DropPinRequest("R")
  BY <1>0, <1>1, TwoPeers, FailLinks DEF DropPinRequest
<1>2. CASE EnterPin("R")
  <2>1. PICK g \in Guesses : Proceed("R", 0, <<Text("pin", g)>>, {}, "pinRes")
    BY <1>2 DEF EnterPin
  <2>2. PICK m : m = Text("pin", g)
    OBVIOUS
  <2>3. m \in Msg /\ m.k = "pin"
    BY <2>2 DEF Text, Msg
  <2>4. PICK t \in Seq(Msg) : t = <<m>> /\ One(t, "pin") /\ AtMost(t, "pin")
    BY <2>3, Single
  <2>5. Proceed("R", 0, t, {}, "pinRes")
    BY <2>1, <2>2, <2>4
  <2>6. Left("R", 0) = q["R"]
    BY TwoPeers, LeftIs
  <2>7. pin["R"] # EmptyPin => ReadsR("pinRes", <<>>, Left("R", 0))
    <3>1. pin["R"] # EmptyPin => q["R"] = <<>>
      BY <1>0 DEF ReadInv, ReadsR
    <3> QED BY <2>6, <3>1, AnyString
  <2>8. ASSUME Link
        PROVE  /\ ReadsS(pc["S"], buf["S"], q["S"] \o t)
               /\ Linked(pc["S"], buf["S"], q["S"] \o t, "pinRes", <<>>, Left("R", 0))
    <3>1. pc["S"] = "verify" /\ q["S"] = <<>> /\ q["R"] = <<>>
      BY <1>0, <2>8 DEF LinkInv, Link, Linked, Astray
    <3>2. q["S"] \o t = t
      BY <3>1, NothingBefore
    <3>3. ReadsS(pc["S"], buf["S"], t)
      BY <2>4, <3>1 DEF ReadsS
    <3>4. Linked(pc["S"], buf["S"], t, "pinRes", <<>>, <<>>)
      BY <2>4, <3>1 DEF Linked
    <3> QED BY <2>6, <3>1, <3>2, <3>3, <3>4
  <2> QED BY <1>0, <2>5, <2>7, <2>8, ReceiverGoes
<1> QED BY <1>1, <1>2

\* A chunk of the sender's string.
LEMMA ReceiverCollectsLinks ==
    ASSUME TaskTypes, ReadInv, LinkInv, ReceiveChunk("R") PROVE ReadInv' /\ LinkInv'
<1>0. /\ pc["R"] \in {"list", "pinRes"} /\ q["R"] # <<>> /\ UNCHANGED config /\ ~IsString(Arrived("R"))
      /\ buf' = [buf EXCEPT !["R"] = @ \o Arrived("R").data] /\ 1 \in {0, 1}
      /\ Proceed("R", 1, <<>>, {}, pc["R"])
  BY DEF ReceiveChunk, ChunkStates
<1>1. PICK b : b = buf["R"] \o q["R"][1].data
  OBVIOUS
<1>2. /\ q["R"] \in Seq(Msg) /\ Arrived("R") = q["R"][1] /\ buf["R"] \in Seq(Unit)
      /\ Left("R", 1) \in Seq(Msg) /\ IsRest(Left("R", 1), q["R"])
  BY <1>0, TwoPeers, LeftIs
<1>3. buf' = [buf EXCEPT !["R"] = b]
  BY <1>0, <1>1, <1>2
<1>4. ASSUME NEW s, Comes(s, buf["R"], q["R"])
      PROVE  Comes(s, b, Left("R", 1)) /\ Len(b) + Len(Left("R", 1)) = Len(buf["R"]) + Len(q["R"])
  BY <1>0, <1>1, <1>2, <1>4, ComesNext
<1>5. pin["R"] # EmptyPin => ReadsR(pc["R"], b, Left("R", 1))
  BY <1>0, <1>4 DEF ReadInv, ReadsR
<1>6. ASSUME Link PROVE Linked(pc["S"], buf["S"], q["S"], pc["R"], b, Left("R", 1))
  <2>1. q["R"][1].k # "pin"
    BY <1>0, <1>2 DEF IsString
  <2>2. /\ q["S"] = <<>>
        /\ \/ pc["S"] = "verify" /\ ComesAll("pinRequired", buf["R"], q["R"])
           \/ pc["S"] = "selection" /\ buf["S"] = <<>> /\ ComesAll("list", buf["R"], q["R"])
    BY <1>0, <1>6, <2>1 DEF LinkInv, Link, Linked, Astray
  <2>3. \A k : ComesAll(k, buf["R"], q["R"]) => ComesAll(k, b, Left("R", 1))
    BY <1>4 DEF ComesAll
  <2> QED BY <1>0, <2>2, <2>3 DEF Linked
<1> QED BY <1>0, <1>3, <1>5, <1>6, ReceiverTakes

\* The string that a text ends, at the receiver.
LEMMA StringHeard ==
    ASSUME TaskTypes, ReadInv, LinkInv, pc["R"] \in {"list", "pinRes"}, q["R"] # <<>>,
           IsString(Arrived("R")), NEW k, Parses(buf["R"], k)
    PROVE  /\ pin["R"] # EmptyPin => Left("R", 1) = <<>> /\ k \in Answers(pc["R"])
           /\ Link => /\ Left("R", 1) = <<>> /\ q["S"] = <<>>
                      /\ \/ k = "pinRequired" /\ pc["S"] = "verify"
                         \/ k = "list" /\ pc["S"] = "selection" /\ buf["S"] = <<>>
<1>1. q["R"] \in Seq(Msg) /\ Arrived("R") = q["R"][1] /\ buf["R"] \in Seq(Unit)
  BY TwoPeers, LeftIs
<1>2. ASSUME NEW s \in Strings, Comes(s, buf["R"], q["R"]) PROVE Left("R", 1) = <<>> /\ s.k = k
  <2>1. Len(q["R"]) = 1 /\ s.k = k
    BY <1>1, <1>2, ComesEnds
  <2> QED BY <2>1, TwoPeers, LeftIs
<1>3. pin["R"] # EmptyPin => Left("R", 1) = <<>> /\ k \in Answers(pc["R"])
  BY <1>2 DEF ReadInv, ReadsR
<1>4. ASSUME Link
      PROVE  /\ Left("R", 1) = <<>> /\ q["S"] = <<>>
             /\ \/ k = "pinRequired" /\ pc["S"] = "verify"
                \/ k = "list" /\ pc["S"] = "selection" /\ buf["S"] = <<>>
  <2>1. buf["R"] # <<>>
    BY NothingParses
  <2>2. /\ q["S"] = <<>>
        /\ \/ pc["S"] = "verify" /\ ComesAll("pinRequired", buf["R"], q["R"])
           \/ pc["S"] = "selection" /\ buf["S"] = <<>> /\ ComesAll("list", buf["R"], q["R"])
    BY <1>4, <2>1 DEF LinkInv, Link, Linked, Astray
  <2>3. \A x : ComesAll(x, buf["R"], q["R"]) => Left("R", 1) = <<>> /\ x = k
    BY <1>2 DEF ComesAll
  <2> QED BY <2>2, <2>3
<1> QED BY <1>3, <1>4

\* The sender's string.
LEMMA HandlePinSendingResponseLinks ==
    ASSUME TaskTypes, ReadInv, LinkInv, HandlePinSendingResponse PROVE ReadInv' /\ LinkInv'
<1>0. /\ pc["R"] \in {"list", "pinRes"} /\ q["R"] # <<>> /\ UNCHANGED config /\ IsString(Arrived("R"))
      /\ buf' = [buf EXCEPT !["R"] = <<>>] /\ 1 \in {0, 1}
  BY DEF HandlePinSendingResponse, Ended, Receives
<1>1. ASSUME NEW sts, NEW why, Fail("R", <<>>, sts, why) PROVE ReadInv' /\ LinkInv'
  BY <1>0, <1>1, TwoPeers, FailLinks
<1>2. ASSUME Parses(buf["R"], "list"), Proceed("R", 1, <<>>, {"Connected"}, "select")
      PROVE  ReadInv' /\ LinkInv'
  <2>1. pin["R"] # EmptyPin => ReadsR("select", <<>>, Left("R", 1))
    BY <1>0, <1>2, StringHeard, AnyString
  <2>2. ASSUME Link PROVE Linked(pc["S"], buf["S"], q["S"], "select", <<>>, Left("R", 1))
    <3>1. Left("R", 1) = <<>> /\ q["S"] = <<>> /\ pc["S"] = "selection" /\ buf["S"] = <<>>
      BY <1>0, <1>2, <2>2, StringHeard
    <3> QED BY <3>1 DEF Linked
  <2> QED BY <1>0, <1>2, <2>1, <2>2, ReceiverTakes
<1>3. ASSUME Parses(buf["R"], "pinRequired"), Proceed("R", 1, <<>>, {"PinRequired"}, "askPin")
      PROVE  ReadInv' /\ LinkInv'
  <2>1. pin["R"] # EmptyPin => ReadsR("askPin", <<>>, Left("R", 1))
    BY <1>0, <1>3, StringHeard, AnyString
  <2>2. ASSUME Link PROVE Linked(pc["S"], buf["S"], q["S"], "askPin", <<>>, Left("R", 1))
    <3>1. Left("R", 1) = <<>> /\ q["S"] = <<>> /\ pc["S"] = "verify"
      BY <1>0, <1>3, <2>2, StringHeard
    <3> QED BY <3>1 DEF Linked
  <2> QED BY <1>0, <1>3, <2>1, <2>2, ReceiverTakes
<1> QED BY <1>1, <1>2, <1>3 DEF HandlePinSendingResponse, ShowFiles

\* The receiver's answer to the list: the string s is sent.
LEMMA AnswerRead ==
    ASSUME TaskTypes, LinkInv, pc["R"] = "select", Link, NEW s \in Strings, s.k \in {"ok", "declined"},
           s.k = "ok" => s.files # {} \/ "selectNone" \in faults
    PROVE  /\ InChunks(s) \in Seq(Msg) /\ ReadsS(pc["S"], buf["S"], q["S"] \o InChunks(s))
           /\ s.k = "ok" => \A b : Linked(pc["S"], buf["S"], q["S"] \o InChunks(s), "files", b, q["R"])
<1>1. PICK t \in Seq(Msg) : t = InChunks(s) /\ Comes(s, <<>>, t) /\ ComesAll(s.k, <<>>, t)
  BY ComesFirst
<1>2. pc["S"] = "selection" /\ buf["S"] = <<>> /\ q["S"] = <<>> /\ q["R"] = <<>>
  BY DEF LinkInv, Link, Linked, Astray
<1>3. q["S"] \o t = t
  BY <1>2, NothingBefore
<1>4. ReadsS("selection", <<>>, t)
  BY <1>1 DEF ReadsS
<1>5. s.k = "ok" => \A b : Linked("selection", <<>>, t, "files", b, <<>>)
  BY <1>1 DEF Linked
<1> QED BY <1>1, <1>2, <1>3, <1>4, <1>5

\* The user selects files.
LEMMA SelectLinks == ASSUME TaskTypes, ReadInv, LinkInv, Select PROVE ReadInv' /\ LinkInv'
<1>0. pc["R"] = "select" /\ UNCHANGED config /\ buf' = [buf EXCEPT !["R"] = buf["R"]] /\ 0 \in {0, 1}
  BY TwoPeers, BufferStays DEF Select
<1>1. PICK fs \in Selections : /\ fs = {} => "selectNone" \in faults
                               /\ Proceed("R", 0, InChunks(Str("ok", fs)), {}, "files")
  BY DEF Select
<1>2. PICK s : s = Str("ok", fs)
  OBVIOUS
<1>3. s \in Strings /\ s.k = "ok" /\ s.files = fs
  BY <1>2, SelectionsAssumption DEF Strings, Str
<1>4. PICK t \in Seq(Msg) : t = InChunks(s)
  BY <1>3, ComesFirst
<1>5. Proceed("R", 0, t, {}, "files")
  BY <1>1, <1>2, <1>4
<1>6. Left("R", 0) = q["R"] /\ ReadsR("files", buf["R"], Left("R", 0))
  BY TwoPeers, LeftIs DEF ReadsR
<1>7. ASSUME Link
      PROVE  /\ ReadsS(pc["S"], buf["S"], q["S"] \o t)
             /\ Linked(pc["S"], buf["S"], q["S"] \o t, "files", buf["R"], Left("R", 0))
  BY <1>0, <1>1, <1>3, <1>4, <1>6, <1>7, AnswerRead
<1> QED BY <1>0, <1>5, <1>6, <1>7, ReceiverGoes

\* The user declines, or the app drops the selection.
LEMMA DeclineLinks ==
    ASSUME TaskTypes, ReadInv, LinkInv, Decline \/ DropSelection PROVE ReadInv' /\ LinkInv'
<1>0. pc["R"] = "select" /\ UNCHANGED config /\ buf' = [buf EXCEPT !["R"] = buf["R"]] /\ 0 \in {0, 1}
  BY TwoPeers, BufferStays DEF Decline, DropSelection
<1>1. CASE DropSelection
  <2>1. <<>> \in Seq(Msg)
    OBVIOUS
  <2>2. Passed("R", 0, <<>>, {"dead"})
    BY <1>1, <2>1, TwoPeers, CompletePasses DEF DropSelection
  <2> QED BY <1>0, <2>2, ReceiverQuits
<1>2. CASE Decline
  <2>1. PICK s \in Strings : s = Str("declined", {}) /\ s.k = "declined"
    BY StringsAre
  <2>2. PICK t \in Seq(Msg) : t = InChunks(s)
    BY ComesFirst
  <2>3. Complete("R", t, {})
    BY <1>2, <2>1, <2>2 DEF Decline
  <2>4. PICK nexts : nexts = {"dead"} /\ Passed("R", 0, t, nexts)
    BY <2>3, TwoPeers, CompletePasses
  <2>5. Link => ReadsS(pc["S"], buf["S"], q["S"] \o t)
    BY <1>0, <2>1, <2>2, AnswerRead
  <2>6. \A x : x \notin nexts \ {"dead"}
    BY <2>4
  <2> QED BY <1>0, <2>4, <2>5, <2>6, ReceiverLinks
<1> QED BY <1>1, <1>2

----------------------------------------------------------------------------
(* The file loop of the receiver *)

\* While messages arrive in the file loop the sender is in its own.
LEMMA InLoop ==
    ASSUME LinkInv, pc["R"] = "files", q["R"] # <<>>, Link
    PROVE  /\ pc["S"] \in {"sending", "status"}
           /\ pc["S"] = "sending" => NoEnd(q["R"])
           /\ pc["S"] = "status" => q["R"][Len(q["R"])].k = "delimiter"
  BY DEF LinkInv, Link, Linked, Astray, NoEnd

\* A message of a file is taken.
LEMMA LoopTakes ==
    ASSUME TaskTypes, ReadInv, LinkInv, UNCHANGED <<config, buf>>, pc["R"] = "files", q["R"] # <<>>,
           Arrived("R").k # "delimiter",
           NEW msgs \in Seq(Msg), NEW sts, Proceed("R", 1, msgs, sts, "files")
    PROVE  ReadInv' /\ LinkInv'
<1>0. buf' = [buf EXCEPT !["R"] = buf["R"]] /\ 1 \in {0, 1} /\ UNCHANGED config
  BY TwoPeers, BufferStays
<1>1. PICK s \in Seq(Msg), t \in Seq(Msg) : s = q["R"] /\ t = Left("R", 1) /\ IsRest(t, s)
  BY TwoPeers, LeftIs
<1>2. /\ Len(s) \in Nat /\ Len(t) \in Nat /\ Len(s) > 0 /\ Len(t) = Len(s) - 1
      /\ \A i \in 1..Len(t) : t[i] = s[i + 1] /\ i + 1 \in 1..Len(s)
      /\ s[1].k # "delimiter"
  <2>1. Len(s) \in Nat /\ Len(t) \in Nat /\ Len(s) > 0 /\ s[1].k # "delimiter"
    BY <1>1, TwoPeers, LeftIs
  <2>2. Len(t) = Len(s) - 1 /\ \A i \in 1..Len(t) : t[i] = s[i + 1]
    BY <1>1 DEF IsRest
  <2>3. \A i \in 1..Len(t) : i + 1 \in 1..Len(s)
    BY <2>1, <2>2
  <2> QED BY <2>1, <2>2, <2>3
<1>3. ReadsR("files", buf["R"], t)
  BY DEF ReadsR
<1>4. ASSUME Link
      PROVE  /\ ReadsS(pc["S"], buf["S"], q["S"] \o msgs)
             /\ Linked(pc["S"], buf["S"], q["S"] \o msgs, "files", buf["R"], t)
  <2>1. /\ pc["S"] \in {"sending", "status"}
        /\ pc["S"] = "sending" => NoEnd(s)
        /\ pc["S"] = "status" => s[Len(s)].k = "delimiter"
    BY <1>1, <1>4, InLoop
  <2>2. \A u : ReadsS(pc["S"], buf["S"], u)
    BY <2>1 DEF ReadsS
  <2>3. CASE pc["S"] = "sending"
    <3>1. \A i \in 1..Len(t) : t[i].k # "delimiter"
      BY <1>2, <2>1, <2>3 DEF NoEnd
    <3> QED BY <2>2, <2>3, <3>1 DEF Linked
  <2>4. CASE pc["S"] = "status"
    <3>1. Len(s) # 1
      BY <1>2, <2>1, <2>4
    <3>2. Len(t) > 0 /\ Len(t) \in 1..Len(t) /\ Len(t) + 1 = Len(s)
      BY <1>2, <3>1
    <3>3. t # <<>> /\ t[Len(t)].k = "delimiter"
      BY <1>2, <2>1, <2>4, <3>2
    <3> QED BY <2>2, <2>4, <3>3 DEF Linked
  <2> QED BY <2>1, <2>3, <2>4
<1> QED BY <1>0, <1>1, <1>3, <1>4, ReceiverGoes

\* The receiver returns from the file loop.
LEMMA LoopQuits ==
    ASSUME TaskTypes, ReadInv, LinkInv, UNCHANGED <<config, buf>>, pc["R"] = "files", q["R"] # <<>>,
           NEW msgs \in Seq(Msg), NEW nexts, nexts = {"dead"}, Passed("R", 0, msgs, nexts)
    PROVE  ReadInv' /\ LinkInv'
<1>0. buf' = [buf EXCEPT !["R"] = buf["R"]] /\ 0 \in {0, 1} /\ UNCHANGED config
  BY TwoPeers, BufferStays
<1>1. Link => ReadsS(pc["S"], buf["S"], q["S"] \o msgs)
  BY InLoop DEF ReadsS
<1>2. \A x : x \notin nexts \ {"dead"}
  OBVIOUS
<1> QED BY <1>0, <1>1, <1>2, ReceiverLinks

\* The end of the files, and a text that is no header.
LEMMA ReceiveEndLinks ==
    ASSUME TaskTypes, FileTypes, ReadInv, LinkInv, ReceiveEnd \/ ReceiveBadHeader
    PROVE  ReadInv' /\ LinkInv'
<1>0. UNCHANGED <<config, buf>> /\ pc["R"] = "files" /\ q["R"] # <<>>
  BY DEF ReceiveEnd, ReceiveBadHeader, Ended, Receives
<1>1. PICK ok, msgs :
         /\ ok \in BOOLEAN
         /\ AnswerOpen(ok) /\ (msgs = <<>> \/ (open # None /\ msgs = Result(open, ok)))
         /\ Complete("R", msgs, {}) \/ Fail("R", msgs, {}, "parse")
  <2>1. CASE ReceiveEnd
    BY <2>1 DEF ReceiveEnd
  <2>2. CASE ReceiveBadHeader
    <3>1. PICK ok \in BOOLEAN :
              AnswerOpen(ok) /\ Fail("R", IF open = None THEN <<>> ELSE Result(open, ok), {}, "parse")
      BY <2>2 DEF ReceiveBadHeader
    <3>2. PICK msgs : msgs = IF open = None THEN <<>> ELSE Result(open, ok)
      OBVIOUS
    <3> QED BY <3>1, <3>2
  <2> QED BY <2>1, <2>2
<1>2. msgs \in Seq(Msg)
  BY <1>1, ResultIs
<1>3. PICK nexts : nexts = {"dead"} /\ Passed("R", 0, msgs, nexts)
  BY <1>1, <1>2, TwoPeers, CompletePasses, FailPasses
<1> QED BY <1>0, <1>2, <1>3, LoopQuits

\* A header.
LEMMA ReceiveHeaderLinks ==
    ASSUME TaskTypes, FileTypes, ReadInv, LinkInv, ReceiveHeader PROVE ReadInv' /\ LinkInv'
<1>0. /\ UNCHANGED <<config, buf>> /\ pc["R"] = "files" /\ q["R"] # <<>> /\ Arrived("R").k # "delimiter"
  BY DEF ReceiveHeader, Ended, Receives
<1>1. PICK ok \in BOOLEAN :
         /\ AnswerOpen(ok)
         /\ Proceed("R", 1, IF open = None THEN <<>> ELSE Result(open, ok), {}, "files")
  BY DEF ReceiveHeader
<1>2. PICK msgs : msgs = IF open = None THEN <<>> ELSE Result(open, ok)
  OBVIOUS
<1>3. msgs = <<>> \/ (open # None /\ msgs = Result(open, ok))
  BY <1>2
<1>4. msgs \in Seq(Msg) /\ Proceed("R", 1, msgs, {}, "files")
  BY <1>1, <1>2, <1>3, ResultIs
<1> QED BY <1>0, <1>4, LoopTakes

\* Binary data.
LEMMA ReceiveBinaryLinks ==
    ASSUME TaskTypes, ReadInv, LinkInv, ReceiveBinary PROVE ReadInv' /\ LinkInv'
<1>0. /\ UNCHANGED <<config, buf>> /\ pc["R"] = "files" /\ q["R"] # <<>> /\ Arrived("R").k # "delimiter"
      /\ <<>> \in Seq(Msg)
  BY DEF ReceiveBinary, Receives, IsString
<1>1. CASE Proceed("R", 1, <<>>, {}, "files")
  BY <1>0, <1>1, LoopTakes
<1>2. CASE Fail("R", <<>>, {}, "app")
  <2>1. PICK nexts : nexts = {"dead"} /\ Passed("R", 0, <<>>, nexts)
    BY <1>0, <1>2, TwoPeers, FailPasses
  <2> QED BY <1>0, <2>1, LoopQuits
<1> QED BY <1>1, <1>2 DEF ReceiveBinary

----------------------------------------------------------------------------
(* Every step *)

\* What is left of the messages when the connection is lost.
LEMMA LostParts ==
    ASSUME TaskTypes, NEW p \in Peers, Disconnect(p)
    PROVE  /\ \A r \in Peers : q'[r] \in Seq(Msg) /\ IsFirst(q'[r], q[r])
           /\ ~Live'
<1>1. \A r \in Peers : q'[r] \in Seq(Msg) /\ IsFirst(q'[r], q[r])
  <2> SUFFICES ASSUME NEW r \in Peers PROVE q'[r] \in Seq(Msg) /\ IsFirst(q'[r], q[r])
    OBVIOUS
  <2>1. PICK s \in Seq(Msg) : s = q[r]
    BY DEF TaskTypes
  <2>2. PICK n \in 0..Len(s) : q'[r] = SubSeq(s, 1, n)
    <3>1. PICK i \in 0..Len(q[p]), j \in 0..Len(q[Other(p)]) :
              q' = [q EXCEPT ![p] = SubSeq(q[p], 1, i), ![Other(p)] = SubSeq(q[Other(p)], 1, j)]
      BY DEF Disconnect
    <3>2. q'[p] = SubSeq(q[p], 1, i) /\ q'[Other(p)] = SubSeq(q[Other(p)], 1, j)
      BY <3>1, PeersAre DEF TaskTypes
    <3>3. CASE r = p
      BY <2>1, <3>2, <3>3
    <3>4. CASE r = Other(p)
      BY <2>1, <3>2, <3>4
    <3> QED BY <3>3, <3>4, PeersAre
  <2>3. n \in Nat /\ n <= Len(s) /\ 1 \in Nat \ {0}
    OBVIOUS
  <2> QED BY <2>1, <2>2, <2>3, PartOf, PartsAre
<1>2. ~Live'
  <2>1. ~Running(p)'
    BY DEF Disconnect, TaskTypes, Running
  <2> QED BY <2>1 DEF Live, Peers
<1> QED BY <1>1, <1>2

\* The connection is lost.
LEMMA DisconnectLinks ==
    ASSUME TaskTypes, ReadInv, NEW p \in Peers, Disconnect(p) PROVE ReadInv' /\ LinkInv'
<1>0. UNCHANGED <<pc, buf, pin, faults>> /\ ~Live' /\ UNCHANGED config
  BY LostParts DEF Disconnect, config
<1>1. /\ q["S"] \in Seq(Msg) /\ q'["S"] \in Seq(Msg) /\ IsFirst(q'["S"], q["S"]) /\ buf["S"] \in Seq(Unit)
      /\ q["R"] \in Seq(Msg) /\ q'["R"] \in Seq(Msg) /\ IsFirst(q'["R"], q["R"]) /\ buf["R"] \in Seq(Unit)
  BY TwoPeers, LostParts, LeftIs
<1>2. pin["R"] # EmptyPin => ReadsS(pc["S"], buf["S"], q'["S"]) /\ ReadsR(pc["R"], buf["R"], q'["R"])
  BY <1>1, ReadsFirst DEF ReadInv
<1>3. /\ \A c, b, t : ReadsS(c, b, t) <=> ReadsS(c, b, t)'
      /\ \A c, b, t : ReadsR(c, b, t) <=> ReadsR(c, b, t)'
  BY <1>0, LinkStable
<1>4. pin["R"] # EmptyPin => ReadsS(pc["S"], buf["S"], q["S"])'
  BY <1>0, <1>2, <1>3
<1>5. pin["R"] # EmptyPin => ReadsR(pc["R"], buf["R"], q["R"])'
  BY <1>0, <1>2, <1>3
<1> QED BY <1>0, <1>4, <1>5 DEF ReadInv, LinkInv

\* Nothing happens.
LEMMA StutterLinks == ASSUME ReadInv, LinkInv, UNCHANGED vars PROVE ReadInv' /\ LinkInv'
<1>0. UNCHANGED <<pc, q, buf, end, pin, faults>> /\ UNCHANGED config
  BY DEF vars, control, config
<1>1. /\ \A c, b, t : ReadsS(c, b, t) <=> ReadsS(c, b, t)'
      /\ \A c, b, t : ReadsR(c, b, t) <=> ReadsR(c, b, t)'
  BY <1>0, LinkStable
<1>2. \A c, a, s, r, b, t : Linked(c, a, s, r, b, t) <=> Linked(c, a, s, r, b, t)'
  BY <1>0, LinkStable
<1>3. ReadInv'
  <2>1. pin["R"] # EmptyPin => ReadsS(pc["S"], buf["S"], q["S"])'
    BY <1>0, <1>1 DEF ReadInv
  <2>2. pin["R"] # EmptyPin => ReadsR(pc["R"], buf["R"], q["R"])'
    BY <1>0, <1>1 DEF ReadInv
  <2> QED BY <1>0, <2>1, <2>2 DEF ReadInv
<1>4. LinkInv'
  BY <1>0, <1>2 DEF LinkInv, Live, Running
<1> QED BY <1>3, <1>4

\* Every step keeps the two invariants.
LEMMA StepLinks ==
    ASSUME AllInv, FlowInv, ReadInv, LinkInv, [Next]_vars PROVE ReadInv' /\ LinkInv'
<1>0. TaskTypes /\ FileTypes /\ GateInv /\ PhaseInv /\ StatusInv
  BY DEF AllInv, FlowInv
<1>1. CASE SendTask
  BY <1>0, <1>1, SendNonceLinks, SendTokenLinks, HandleTokenResponseLinks, HandlePinReceivingResponseLinks,
     HandleFileListResponseLinks, SendFilesLinks, SendEndLinks
     DEF SendTask, SendsFile
<1>2. CASE ReceiveTask
  BY <1>0, <1>2, ReceiveNonceLinks, HandleTokenRequestLinks, HandlePinSendingResponseLinks, SelectLinks,
     DeclineLinks, ReceiveEndLinks, ReceiveHeaderLinks, ReceiveBinaryLinks
     DEF ReceiveTask
<1>3. ASSUME PinTask("S") PROVE ReadInv' /\ LinkInv'
  BY <1>0, <1>3, SenderCollectsLinks, SenderVerifiesLinks, SenderEntersLinks DEF PinTask
<1>4. ASSUME PinTask("R") PROVE ReadInv' /\ LinkInv'
  BY <1>0, <1>4, ReceiverCollectsLinks, ReceiverVerifiesLinks, ReceiverEntersLinks DEF PinTask
<1>5. ASSUME NEW p \in Peers, PinTask(p) \/ Disconnect(p) PROVE ReadInv' /\ LinkInv'
  BY <1>0, <1>3, <1>4, <1>5, DisconnectLinks DEF Peers
<1>6. CASE UNCHANGED vars
  BY <1>6, StutterLinks
<1> QED BY <1>1, <1>2, <1>5, <1>6 DEF Next

\* They hold initially.
LEMMA InitLinks == ASSUME Init PROVE ReadInv /\ LinkInv
<1>1. /\ pc["S"] = "start" /\ pc["R"] = "nonce" /\ q["S"] = <<>> /\ q["R"] = <<>>
      /\ buf["S"] = <<>> /\ buf["R"] = <<>>
  BY DEF Init, Peers
<1>2. ReadInv
  BY <1>1, OneIs DEF ReadInv, ReadsS, ReadsR
<1>3. LinkInv
  BY <1>1 DEF LinkInv, Linked
<1> QED BY <1>2, <1>3

\* They always hold.
LEMMA LinkInvariance == Spec => [](ReadInv /\ LinkInv)
<1>1. Init => ReadInv /\ LinkInv
  BY InitLinks
<1>2. AllInv /\ FlowInv /\ ReadInv /\ LinkInv /\ [Next]_vars => (ReadInv /\ LinkInv)'
  BY StepLinks
<1> QED BY <1>1, <1>2, Invariance, FlowInvariance, PTL DEF Spec

\* A string that is all on its way, or whose end is, is waited for with something to read.
LEMMA SomeComes ==
    ASSUME NEW k, NEW b \in Seq(Unit), NEW t \in Seq(Msg), ComesAll(k, b, t) PROVE t # <<>>
<1>1. Len(b) <= StrChunks /\ Len(b) + Len(t) = StrChunks + 1
  BY DEF ComesAll, Comes
<1>2. Len(b) \in Nat /\ Len(t) \in Nat /\ StrChunks \in Nat
  BY StrChunksAssumption
<1>3. Len(t) > 0
  BY <1>1, <1>2
<1> QED BY <1>3

----------------------------------------------------------------------------
(* What the receiver meets in its file loop *)

\* Nobody is configured anew.
LEMMA LoopStable ==
    ASSUME UNCHANGED config PROVE \A P, t : LoopReads(P, t) <=> LoopReads(P, t)'
<1>1. Nice <=> Nice'
  BY LinkStable
<1> QED BY <1>1 DEF LoopReads, At, After

\* Parts of what can be read in the loop.
LEMMA LoopParts ==
    ASSUME NEW s \in Seq(Msg), NEW t \in Seq(Msg), NEW P, LoopReads(P, s)
    PROVE  /\ IsFirst(t, s) => LoopReads(P, t)
           /\ s # <<>> /\ IsRest(t, s) => LoopReads(After(s[1]), t)
<1>0. Len(s) \in Nat /\ Len(t) \in Nat
  OBVIOUS
<1>1. ASSUME IsFirst(t, s) PROVE LoopReads(P, t)
  <2> SUFFICES ASSUME NEW i \in 1..Len(t)
               PROVE  i \in 1..Len(s) /\ t[i] = s[i] /\ At(P, t, i) = At(P, s, i)
    BY DEF LoopReads
  <2>1. i \in 1..Len(s) /\ t[i] = s[i] /\ (i # 1 => i - 1 \in 1..Len(t))
    BY <1>0, <1>1 DEF IsFirst
  <2>2. i # 1 => t[i - 1] = s[i - 1]
    BY <1>1, <2>1 DEF IsFirst
  <2> QED BY <2>1, <2>2 DEF At
<1>2. ASSUME s # <<>>, IsRest(t, s) PROVE LoopReads(After(s[1]), t)
  <2> SUFFICES ASSUME NEW i \in 1..Len(t)
               PROVE  i + 1 \in 1..Len(s) /\ t[i] = s[i + 1] /\ At(After(s[1]), t, i) = At(P, s, i + 1)
    BY DEF LoopReads
  <2>1. Len(t) = Len(s) - 1 /\ t[i] = s[i + 1]
    BY <1>2 DEF IsRest
  <2>2. i + 1 \in 1..Len(s) /\ i + 1 # 1 /\ i + 1 - 1 = i /\ (i # 1 => i - 1 \in 1..Len(t) /\ i - 1 + 1 = i)
    BY <1>0, <2>1
  <2>3. i # 1 => t[i - 1] = s[i]
    <3> SUFFICES ASSUME i # 1 PROVE t[i - 1] = s[i]
      OBVIOUS
    <3>1. t[i - 1] = s[i - 1 + 1]
      BY <1>2, <2>2 DEF IsRest
    <3> QED BY <2>2, <3>1
  <2>4. At(P, s, i + 1) = After(s[i])
    BY <2>2 DEF At
  <2> QED BY <2>1, <2>2, <2>3, <2>4 DEF At
<1> QED BY <1>1, <1>2

\* More of it.
LEMMA LoopAdds ==
    ASSUME NEW s \in Seq(Msg), NEW t \in Seq(Msg), NEW r \in Seq(Msg), IsBoth(r, s, t),
           NEW P, LoopReads(P, s), LoopReads(At(P, s, Len(s) + 1), t)
    PROVE  LoopReads(P, r)
<1>0. /\ Len(s) \in Nat /\ Len(t) \in Nat /\ Len(r) = Len(s) + Len(t)
      /\ \A i \in 1..Len(s) : r[i] = s[i]
      /\ \A i \in (Len(s) + 1) .. Len(r) : r[i] = t[i - Len(s)]
  BY DEF IsBoth
<1>1. PICK Z : Z = At(P, s, Len(s) + 1) /\ LoopReads(Z, t)
  OBVIOUS
<1> SUFFICES ASSUME NEW i \in 1..Len(r)
             PROVE  /\ r[i].k \in {"bin", "header", "delimiter"}
                    /\ r[i].k = "delimiter" /\ Nice => At(P, r, i)[1] # None
  BY DEF LoopReads
<1>2. CASE i \in 1..Len(s)
  <2>1. r[i] = s[i] /\ (i # 1 => i - 1 \in 1..Len(s))
    BY <1>0, <1>2
  <2>2. At(P, r, i) = At(P, s, i)
    BY <1>0, <2>1 DEF At
  <2> QED BY <1>2, <2>1, <2>2 DEF LoopReads
<1>3. CASE i \notin 1..Len(s)
  <2>1. PICK j \in 1..Len(t) : j = i - Len(s) /\ i \in (Len(s) + 1) .. Len(r)
    BY <1>0, <1>3
  <2>2. r[i] = t[j]
    BY <1>0, <2>1
  <2>3. At(P, r, i) = At(Z, t, j)
    <3>1. CASE j = 1
      <4>1. i = Len(s) + 1
        BY <1>0, <2>1, <3>1
      <4>2. i # 1 => i - 1 \in 1..Len(s) /\ i - 1 = Len(s)
        BY <1>0, <4>1
      <4>3. At(P, r, i) = At(P, s, i)
        BY <1>0, <4>2 DEF At
      <4> QED BY <1>1, <3>1, <4>1, <4>3 DEF At
    <3>2. CASE j # 1
      <4>1. i # 1 /\ i - 1 \in (Len(s) + 1) .. Len(r) /\ i - 1 - Len(s) = j - 1
        BY <1>0, <2>1, <3>2
      <4>2. r[i - 1] = t[j - 1]
        BY <1>0, <4>1
      <4> QED BY <3>2, <4>1, <4>2 DEF At
    <3> QED BY <3>1, <3>2
  <2> QED BY <1>1, <2>2, <2>3 DEF LoopReads
<1> QED BY <1>2, <1>3

\* What the sender adds to what the receiver meets.
LEMMA SenderLoops ==
    ASSUME TaskTypes, LoopInv, UNCHANGED <<config, receiver>>,
           NEW n, NEW msgs \in Seq(Msg), NEW nexts, Passed("S", n, msgs, nexts),
           pc["R"] = "files" /\ Live => LoopReads(NextAt, msgs)
    PROVE  /\ pc'["R"] = pc["R"]
           /\ pc'["R"] = "files" => LoopReads(Received, q["R"])'
           /\ Live' => Live /\ NextAt' = At(NextAt, msgs, Len(msgs) + 1)
<1>0. pc'["R"] = pc["R"] /\ Received' = Received
  BY TwoPeers DEF Passed, TaskTypes, receiver, Received
<1>1. /\ q["R"] \in Seq(Msg) /\ q'["R"] \in Seq(Msg) /\ Sent("S", msgs) \in Seq(Msg)
      /\ Sent("S", msgs) = IF Live THEN q["R"] \o msgs ELSE q["R"]
      /\ IsFirst(q'["R"], Sent("S", msgs)) /\ (Live' => Live /\ q'["R"] = Sent("S", msgs))
  BY TwoPeers, SentFirst DEF Passed
<1>2. PICK s \in Seq(Msg), t \in Seq(Msg), P \in {Received} : s = q["R"] /\ t = q'["R"] /\ P = Received
  BY <1>1
<1>3. PICK r \in Seq(Msg) : r = s \o msgs /\ IsBoth(r, s, msgs)
  BY PartsAre
<1>4. PICK Z : Z = At(P, s, Len(s) + 1) /\ Z = NextAt
  BY <1>2 DEF NextAt
<1>5. ASSUME pc["R"] = "files" PROVE LoopReads(P, t)
  <2>1. LoopReads(P, s)
    BY <1>2, <1>5 DEF LoopInv
  <2>2. CASE Live
    <3>1. LoopReads(P, r)
      BY <1>3, <1>4, <1>5, <2>1, <2>2, LoopAdds
    <3>2. IsFirst(t, r)
      BY <1>1, <1>2, <1>3, <2>2
    <3> QED BY <3>1, <3>2, LoopParts
  <2>3. CASE ~Live
    <3>1. IsFirst(t, s)
      BY <1>1, <1>2, <2>3
    <3> QED BY <2>1, <3>1, LoopParts
  <2> QED BY <2>2, <2>3
<1>6. ASSUME pc["R"] = "files" PROVE LoopReads(Received, q["R"])'
  <2>1. UNCHANGED config
    OBVIOUS
  <2>2. LoopReads(P, t)'
    BY <1>5, <1>6, <2>1, LoopStable
  <2> QED BY <1>0, <1>2, <2>2
<1>7. ASSUME Live' PROVE Live /\ NextAt' = At(NextAt, msgs, Len(msgs) + 1)
  <2>1. Live /\ t = r
    BY <1>1, <1>2, <1>3, <1>7
  <2>4. IsBoth(r, s, msgs)
    BY <1>3
  <2>5. \A X : At(X, r, Len(r) + 1) = At(At(X, s, Len(s) + 1), msgs, Len(msgs) + 1)
    BY <2>4, BothChain
  <2>2. At(P, r, Len(r) + 1) = At(At(P, s, Len(s) + 1), msgs, Len(msgs) + 1)
    BY <2>5
  <2>3. NextAt' = At(P, t, Len(t) + 1)
    BY <1>0, <1>2 DEF NextAt, At, After
  <2> QED BY <1>4, <2>1, <2>2, <2>3
<1> QED BY <1>0, <1>6, <1>7

\* No message can be read.
LEMMA LoopNone == \A P : LoopReads(P, <<>>)
  BY DEF LoopReads

\* Where a step of the sender leads it.
LEMMA SenderGoesTo ==
    ASSUME TaskTypes
    PROVE  /\ \A msgs, sts, why : Fail("S", msgs, sts, why) => pc'["S"] = "dead" /\ pc'["R"] = pc["R"]
           /\ \A n, msgs, sts, next : Proceed("S", n, msgs, sts, next) =>
                 pc'["S"] \in {next, "dead"} /\ pc'["R"] = pc["R"]
           /\ \A msgs, sts : Complete("S", msgs, sts) => pc'["S"] = "dead" /\ pc'["R"] = pc["R"]
<1>0. \A w : pc' = [pc EXCEPT !["S"] = w] => pc'["S"] = w /\ pc'["R"] = pc["R"]
  BY TwoPeers DEF TaskTypes
<1>1. ASSUME NEW msgs, NEW sts, NEW why, Fail("S", msgs, sts, why)
      PROVE  pc'["S"] = "dead" /\ pc'["R"] = pc["R"]
  BY <1>0, <1>1, TwoPeers, TaskReturns
<1>2. ASSUME NEW n, NEW msgs, NEW sts, NEW next, Proceed("S", n, msgs, sts, next)
      PROVE  pc'["S"] \in {next, "dead"} /\ pc'["R"] = pc["R"]
  BY <1>0, <1>2, TwoPeers, TaskReturns
<1>3. ASSUME NEW msgs, NEW sts, Complete("S", msgs, sts) PROVE pc'["S"] = "dead" /\ pc'["R"] = pc["R"]
  BY <1>0, <1>3, TwoPeers, TaskReturns
<1> QED BY <1>1, <1>2, <1>3

\* The sender before it has sent its list.
SenderEarly ==
    \/ SendNonce \/ SendToken \/ HandleTokenResponse \/ HandlePinReceivingResponse
    \/ VerifyPin("S") \/ EnterPin("S") \/ DropPinRequest("S")
LEMMA EarlyLoop == ASSUME TaskTypes, FlowInv, SenderEarly PROVE LoopInv'
<1>1. \A guess, n, notice, msgs, sts :
         verify_pin("S", guess, n, notice, msgs, sts) =>
             pc'["S"] \in {"selection", "verify", "dead"} /\ pc'["R"] = pc["R"]
  BY SenderGoesTo DEF verify_pin, AfterPass
<1>2. OfferFiles => pc'["S"] \in {"selection", "verify", "dead"} /\ pc'["R"] = pc["R"]
  BY <1>1, SenderGoesTo DEF OfferFiles, Challenge, AfterPass
<1>3. pc'["S"] \notin {"sending", "status"} /\ pc'["R"] = pc["R"]
  <2>0. \A n, msgs, sts, next :
           Proceed("S", n, msgs, sts, next) /\ next \in {"nonce", "token", "askPin", "pinRes"} =>
               pc'["S"] \notin {"sending", "status"} /\ pc'["R"] = pc["R"]
    BY SenderGoesTo
  <2>1. CASE SendNonce
    BY <2>0, <2>1 DEF SendNonce
  <2>2. CASE SendToken
    BY <2>0, <2>2, SenderGoesTo DEF SendToken
  <2>3. CASE EnterPin("S")
    BY <2>0, <2>3 DEF EnterPin
  <2>4. CASE DropPinRequest("S")
    BY <2>4, SenderGoesTo DEF DropPinRequest
  <2>5. CASE HandleTokenResponse
    BY <1>2, <2>0, <2>5, SenderGoesTo DEF HandleTokenResponse
  <2>6. CASE HandlePinReceivingResponse
    BY <1>2, <2>0, <2>6, SenderGoesTo DEF HandlePinReceivingResponse
  <2>7. CASE VerifyPin("S")
    BY <1>1, <2>7, SenderGoesTo DEF VerifyPin
  <2> QED BY <2>1, <2>2, <2>3, <2>4, <2>5, <2>6, <2>7 DEF SenderEarly
<1>4. Unlisted
  BY DEF SenderEarly, SendNonce, SendToken, HandleTokenResponse, HandlePinReceivingResponse, VerifyPin,
     EnterPin, DropPinRequest, Receives, Unlisted
<1>5. pc["R"] # "files"
  BY <1>4 DEF FlowInv, PhaseInv
<1> QED BY <1>3, <1>5 DEF LoopInv

\* The sender collects the answer to its list.
LEMMA CollectLoop == ASSUME TaskTypes, LoopInv, ReceiveChunk("S") PROVE LoopInv'
<1>0. /\ pc["S"] = "selection" /\ UNCHANGED <<config, receiver>> /\ Proceed("S", 1, <<>>, {}, pc["S"])
      /\ <<>> \in Seq(Msg)
  BY DEF ReceiveChunk, ChunkStates
<1>1. PICK nexts : nexts = {pc["S"], "dead"} /\ Passed("S", 1, <<>>, nexts)
  BY <1>0, TwoPeers, ProceedPasses
<1>2. pc'["R"] = "files" => LoopReads(Received, q["R"])'
  BY <1>0, <1>1, LoopNone, SenderLoops
<1>3. pc'["S"] \notin {"sending", "status"}
  BY <1>0, <1>1 DEF Passed
<1> QED BY <1>2, <1>3 DEF LoopInv

\* It has the answer: if the apps play along there is a file to send.
LEMMA ResponseLoop ==
    ASSUME TaskTypes, FlowInv, ReadInv, LoopInv, HandleFileListResponse PROVE LoopInv'
<1>0. /\ pc["S"] = "selection" /\ q["S"] # <<>> /\ IsString(Arrived("S")) /\ UNCHANGED <<config, receiver>>
      /\ <<>> \in Seq(Msg) /\ UNCHANGED given /\ given = {}
  BY DEF HandleFileListResponse, Ended, Receives, FlowInv, PhaseInv
<1>1. PICK nexts, n : Passed("S", n, <<>>, nexts)
  <2>1. CASE Proceed("S", 1, <<>>, {}, "sending")
    BY <1>0, <2>1, TwoPeers, ProceedPasses
  <2>2. ASSUME NEW why, Fail("S", <<>>, {}, why) PROVE Passed("S", 0, <<>>, {"dead"})
    BY <1>0, <2>2, TwoPeers, FailPasses
  <2>3. ASSUME Complete("S", <<>>, {"Declined"}) PROVE Passed("S", 0, <<>>, {"dead"})
    BY <1>0, <2>3, TwoPeers, CompletePasses
  <2> QED BY <2>1, <2>2, <2>3 DEF HandleFileListResponse
<1>2. pc'["R"] = "files" => LoopReads(Received, q["R"])'
  BY <1>0, <1>1, LoopNone, SenderLoops
<1>3. ASSUME pc'["S"] \in {"sending", "status"}, Nice PROVE fileMap' # {}
  <2>1. Parses(buf["S"], "ok") /\ fileMap' = Parsed(buf["S"], "ok").files
    BY <1>3, SenderGoesTo DEF HandleFileListResponse
  <2>2. PICK s \in Strings : /\ Comes(s, buf["S"], q["S"])
                             /\ s.k = "ok" => s.files # {} \/ "selectNone" \in faults
    BY <1>0, <1>3 DEF ReadInv, ReadsS, Nice
  <2>3. q["S"] \in Seq(Msg) /\ buf["S"] \in Seq(Unit) /\ IsString(q["S"][1])
    BY <1>0, TwoPeers, LeftIs
  <2>4. s.k = "ok" /\ Parsed(buf["S"], s.k) = s
    BY <1>0, <2>1, <2>2, <2>3, ComesEnds
  <2> QED BY <1>3, <2>1, <2>2, <2>4 DEF Nice
<1>4. Nice <=> Nice'
  BY <1>0, LinkStable
<1> QED BY <1>0, <1>2, <1>3, <1>4 DEF LoopInv

\* It sends its files.
LEMMA SendFilesLoop ==
    ASSUME TaskTypes, FileTypes, FlowInv, LoopInv, SendsFile PROVE LoopInv'
<1>1. /\ pc["S"] = "sending" /\ UNCHANGED <<config, receiver>> /\ UNCHANGED fileMap
  BY DEF SendsFile, SendHeader, SendChunks, SendRest
<1>2. PICK t : Written(t)
  BY HeaderWritten, ChunksWritten, RestWritten DEF SendsFile
<1>3. t \in Seq(Msg) /\ Write(t) /\ \A P : LoopReads(P, t)
  BY <1>2 DEF Written, LoopReads
<1>4. Passed("S", 0, t, {pc["S"]})
  BY <1>3, WritePasses
<1>5. /\ pc'["R"] = pc["R"]
      /\ pc'["R"] = "files" => LoopReads(Received, q["R"])'
      /\ Live' => Live /\ NextAt' = At(NextAt, t, Len(t) + 1)
  BY <1>1, <1>3, <1>4, SenderLoops
<1>6. ASSUME Live', pc'["R"] = "files", NextAt'[1] = None PROVE given' \cap fileMap' = {}
  <2>1. PICK P : P = NextAt
    OBVIOUS
  <2>2. At(P, t, Len(t) + 1)[1] = None
    BY <1>5, <1>6, <2>1
  <2>3. P[1] = None /\ given' \cap fileMap = given \cap fileMap
    BY <1>2, <1>5, <1>6, <2>1, <2>2 DEF Written
  <2>4. given \cap fileMap = {}
    BY <1>1, <1>5, <1>6, <2>1, <2>3 DEF LoopInv, NextAt
  <2> QED BY <1>1, <2>3, <2>4
<1>7. UNCHANGED pc
  BY <1>3 DEF Write
<1>8. Nice <=> Nice'
  BY <1>1, LinkStable
<1> QED BY <1>1, <1>5, <1>6, <1>7, <1>8 DEF LoopInv, NextAt

\* It ends them, which a receiver that has a file open understands.
LEMMA SendEndLoop == ASSUME TaskTypes, LoopInv, SendEnd PROVE LoopInv'
<1>0. /\ pc["S"] = "sending" /\ UNCHANGED <<config, receiver>> /\ UNCHANGED fileMap
      /\ (fileMap \subseteq given \/ GiveUp) /\ Proceed("S", 0, <<Delimiter>>, {}, "status")
  BY DEF SendEnd, sender
<1>1. Delimiter \in Msg /\ Delimiter.k = "delimiter"
  BY TwoPeers, DelimiterTo, ChunkData
<1>2. PICK t \in Seq(Msg) : t = <<Delimiter>> /\ Len(t) = 1 /\ t[1] = Delimiter
  BY <1>1, Single
<1>3. PICK nexts : nexts = {"status", "dead"} /\ Passed("S", 0, t, nexts)
  BY <1>0, <1>2, TwoPeers, ProceedPasses
<1>4. ASSUME pc["R"] = "files", Live PROVE LoopReads(NextAt, t)
  <2>1. ASSUME Nice PROVE NextAt[1] # None
    <3>1. given \cap fileMap # {}
      BY <1>0, <2>1 DEF LoopInv, Nice, GiveUp
    <3> QED BY <1>0, <1>4, <3>1 DEF LoopInv, NextAt
  <2>2. PICK P : P = NextAt
    OBVIOUS
  <2>3. At(P, t, 1) = P
    BY DEF At
  <2>4. LoopReads(P, t)
    BY <1>1, <1>2, <2>1, <2>2, <2>3 DEF LoopReads
  <2> QED BY <2>2, <2>4
<1>5. pc'["R"] = "files" => LoopReads(Received, q["R"])'
  BY <1>0, <1>3, <1>4, SenderLoops
<1>6. pc'["S"] # "sending" /\ (Nice <=> Nice')
  BY <1>0, <1>3, LinkStable DEF Passed
<1> QED BY <1>0, <1>5, <1>6 DEF LoopInv

\* It is done.
LEMMA AwaitStatusLoop == ASSUME TaskTypes, LoopInv, AwaitStatus PROVE LoopInv'
<1>0. UNCHANGED <<config, receiver>> /\ Complete("S", <<>>, {}) /\ <<>> \in Seq(Msg)
  BY DEF AwaitStatus
<1>1. Passed("S", 0, <<>>, {"dead"})
  BY <1>0, TwoPeers, CompletePasses
<1>2. pc'["R"] = "files" => LoopReads(Received, q["R"])'
  BY <1>0, <1>1, LoopNone, SenderLoops
<1>3. pc'["S"] = "dead"
  BY <1>1 DEF Passed
<1> QED BY <1>2, <1>3 DEF LoopInv

\* Where a step of the receiver leads it.
LEMMA ReceiverGoesTo ==
    ASSUME TaskTypes
    PROVE  /\ \A msgs, sts, why : Fail("R", msgs, sts, why) => pc'["R"] = "dead"
           /\ \A n, msgs, sts, next : Proceed("R", n, msgs, sts, next) => pc'["R"] \in {next, "dead"}
           /\ \A msgs, sts : Complete("R", msgs, sts) => pc'["R"] = "dead"
<1>0. \A w : pc' = [pc EXCEPT !["R"] = w] => pc'["R"] = w
  BY TwoPeers DEF TaskTypes
<1>1. ASSUME NEW msgs, NEW sts, NEW why, Fail("R", msgs, sts, why) PROVE pc'["R"] = "dead"
  BY <1>0, <1>1, TwoPeers, TaskReturns
<1>2. ASSUME NEW n, NEW msgs, NEW sts, NEW next, Proceed("R", n, msgs, sts, next)
      PROVE  pc'["R"] \in {next, "dead"}
  BY <1>0, <1>2, TwoPeers, TaskReturns
<1>3. ASSUME NEW msgs, NEW sts, Complete("R", msgs, sts) PROVE pc'["R"] = "dead"
  BY <1>0, <1>3, TwoPeers, TaskReturns
<1> QED BY <1>1, <1>2, <1>3

\* The steps of the receiver that do not lead it to its file loop.
ReceiverElsewhere ==
    \/ ReceiveNonce \/ HandleTokenRequest \/ HandlePinSendingResponse \/ Decline \/ DropSelection
    \/ ReceiveEnd \/ ReceiveBadHeader \/ PinTask("R")
LEMMA ElsewhereGoes == ASSUME TaskTypes, ReceiverElsewhere PROVE pc'["R"] # "files"
<1>0. \A n, msgs, sts, next :
         Proceed("R", n, msgs, sts, next) /\ next # "files" => pc'["R"] # "files"
  BY ReceiverGoesTo
<1>1. \A guess, n, notice, msgs, sts : verify_pin("R", guess, n, notice, msgs, sts) => pc'["R"] # "files"
  BY <1>0, ReceiverGoesTo DEF verify_pin, AfterPass
<1>3. CASE ReceiveNonce
  BY <1>0, <1>3, ReceiverGoesTo DEF ReceiveNonce
<1>4. CASE HandleTokenRequest
  BY <1>0, <1>1, <1>4, ReceiverGoesTo DEF HandleTokenRequest, Challenge
<1>5. CASE HandlePinSendingResponse
  BY <1>0, <1>5, ReceiverGoesTo DEF HandlePinSendingResponse, ShowFiles
<1>6. CASE Decline \/ DropSelection
  BY <1>6, ReceiverGoesTo DEF Decline, DropSelection
<1>7. CASE ReceiveEnd \/ ReceiveBadHeader
  BY <1>7, ReceiverGoesTo DEF ReceiveEnd, ReceiveBadHeader
<1>8. CASE ReceiveChunk("R")
  BY <1>0, <1>8 DEF ReceiveChunk, ChunkStates
<1>9. CASE VerifyPin("R")
  BY <1>1, <1>9, ReceiverGoesTo DEF VerifyPin
<1>10. CASE EnterPin("R") \/ DropPinRequest("R")
  BY <1>0, <1>10, ReceiverGoesTo DEF EnterPin, DropPinRequest
<1> QED BY <1>3, <1>4, <1>5, <1>6, <1>7, <1>8, <1>9, <1>10 DEF ReceiverElsewhere, PinTask

\* They keep the invariant.
LEMMA ElsewhereLoop ==
    ASSUME TaskTypes, FileTypes, LoopInv, ReceiverElsewhere PROVE LoopInv'
<1>2. pc'["R"] # "files"
  BY ElsewhereGoes
<1>3. UNCHANGED config
  BY DEF ReceiverElsewhere, PinTask, ReceiveNonce, HandleTokenRequest, HandlePinSendingResponse, Decline,
     DropSelection, ReceiveEnd, ReceiveBadHeader, ReceiveChunk, VerifyPin, EnterPin, DropPinRequest
<1>4. pc'["S"] = pc["S"] /\ UNCHANGED fileMap
  <2>1. SenderStill
    BY ReceiverStep DEF ReceiverElsewhere, ReceiveTask
  <2> QED BY <2>1 DEF SenderStill, sender
<1>5. Nice <=> Nice'
  BY <1>3, LinkStable
<1> QED BY <1>2, <1>4, <1>5 DEF LoopInv

\* The receiver's user selects files: nothing of them has been sent.
LEMMA SelectLoop == ASSUME TaskTypes, FileTypes, FlowInv, LoopInv, Select PROVE LoopInv'
<1>0. /\ pc["R"] = "select" /\ q["R"] = <<>> /\ pc["S"] \notin {"sending", "status"} /\ UNCHANGED config
  BY DEF Select, FlowInv, PhaseInv, Unchosen
<1>1. pc'["S"] = pc["S"]
  BY ReceiverStep DEF SenderStill, ReceiveTask
<1>2. PICK fs \in Selections : Proceed("R", 0, InChunks(Str("ok", fs)), {}, "files")
  BY DEF Select
<1>3. q'["R"] = <<>> \/ pc'["R"] = "dead"
  <2>1. PICK msgs : msgs = InChunks(Str("ok", fs))
    OBVIOUS
  <2>2. Str("ok", fs) \in Strings
    BY SelectionsAssumption DEF Strings
  <2>3. msgs \in Seq(Msg)
    BY <2>1, <2>2, ChunksAre
  <2>4. PICK nexts : Passed("R", 0, msgs, nexts)
    BY <1>2, <2>1, <2>3, TwoPeers, ProceedPasses
  <2>5. pc'["R"] = "dead" \/ q'["R"] = Left("R", 0)
    BY <2>4 DEF Passed, Left
  <2> QED BY <1>0, <2>5, TwoPeers, LeftIs
<1>4. pc'["R"] = "files" => LoopReads(Received, q["R"])'
  <2>1. ASSUME pc'["R"] = "files" PROVE LoopReads(Received, q["R"])'
    <3>1. q'["R"] = <<>>
      BY <1>3, <2>1
    <3> QED BY <3>1 DEF LoopReads
  <2> QED BY <2>1
<1> QED BY <1>0, <1>1, <1>4 DEF LoopInv

\* The receiver takes a message of a file.
LEMMA LoopGoesOn ==
    ASSUME TaskTypes, LoopInv, UNCHANGED config, pc'["S"] = pc["S"], UNCHANGED sender,
           pc["R"] = "files", q["R"] # <<>>,
           NEW msgs, NEW nexts, Passed("R", 1, msgs, nexts),
           pc'["R"] = "files" => Received' = After(q["R"][1])
    PROVE  LoopInv'
<1>0. UNCHANGED <<fileMap, given>> /\ (Nice <=> Nice')
  BY LinkStable DEF sender
<1>1. PICK s \in Seq(Msg), P \in {Received} : s = q["R"] /\ P = Received
  BY TwoPeers, LeftIs
<1>2. LoopReads(P, s) /\ s # <<>>
  BY <1>1 DEF LoopInv
<1>3. CASE pc'["R"] = "files"
  <2>1. PICK t \in Seq(Msg) : t = q'["R"] /\ IsRest(t, s)
    <3>1. q'["R"] = Left("R", 1)
      BY <1>3 DEF Passed, Left
    <3> QED BY <1>1, <3>1, TwoPeers, LeftIs
  <2>2. PICK Z : Z = After(s[1]) /\ Z = Received'
    BY <1>1, <1>3
  <2>3. LoopReads(Z, t)
    BY <1>2, <2>1, <2>2, LoopParts
  <2>4. LoopReads(Z, t)'
    BY <2>3, LoopStable
  <2>5. LoopReads(Received, q["R"])'
    BY <2>1, <2>2, <2>4
  <2>6. At(P, s, Len(s) + 1) = At(Z, t, Len(t) + 1)
    <3>1. \A X : At(X, s, Len(s) + 1) = At(After(s[1]), t, Len(t) + 1)
      BY <1>2, <2>1, RestKeeps
    <3> QED BY <2>2, <3>1
  <2>7. At(Received, q["R"], Len(q["R"]) + 1)' = At(Z, t, Len(t) + 1)
    BY <2>1, <2>2 DEF At, After
  <2>8. (Live' => Live)
    BY DEF Passed
  <2>9. Live' /\ pc'["S"] = "sending" =>
            (At(Received, q["R"], Len(q["R"]) + 1)'[1] = None => given \cap fileMap = {})
    BY <1>1, <2>6, <2>7, <2>8 DEF LoopInv
  <2> QED BY <1>0, <2>5, <2>9 DEF LoopInv
<1>4. CASE pc'["R"] # "files"
  BY <1>0, <1>4 DEF LoopInv
<1> QED BY <1>3, <1>4

\* A header leads the receiver to the beginning of a file.
LEMMA HeaderLoop == ASSUME TaskTypes, FileTypes, FlowInv, LoopInv, ReceiveHeader PROVE LoopInv'
<1>1. PICK m : m = Arrived("R")
  OBVIOUS
<1>2. /\ Ended("R", "files") /\ m.k = "header" /\ UNCHANGED config /\ UNCHANGED <<sender, selected, got>>
      /\ open' = (IF pc'["R"] = "files" /\ m.v \in selected THEN m.v ELSE None)
  BY <1>1 DEF ReceiveHeader
<1>3. pc["R"] = "files" /\ q["R"] # <<>> /\ m = q["R"][1] /\ Fresh(m.v) /\ m.v \in Files
  BY <1>1, <1>2, TextEnds
<1>4. PICK ok \in BOOLEAN :
         /\ AnswerOpen(ok)
         /\ Proceed("R", 1, IF open = None THEN <<>> ELSE Result(open, ok), {}, "files")
  BY DEF ReceiveHeader
<1>5. PICK msgs : msgs = IF open = None THEN <<>> ELSE Result(open, ok)
  OBVIOUS
<1>6. msgs \in Seq(Msg)
  <2>1. msgs = <<>> \/ (open # None /\ msgs = Result(open, ok))
    BY <1>5
  <2> QED BY <1>4, <2>1, ResultIs
<1>7. PICK nexts : Passed("R", 1, msgs, nexts)
  BY <1>4, <1>5, <1>6, TwoPeers, ProceedPasses
<1>8. m.v \in selected /\ got[m.v] = <<>> /\ m.v # None
  BY <1>3, NoneAssumption DEF Fresh, FlowInv, FileInv
<1>9. ASSUME pc'["R"] = "files" PROVE Received' = After(m)
  <2>1. open' = m.v /\ open' # None /\ got'[m.v] = <<>> /\ Len(<<>>) = 0
    BY <1>2, <1>8, <1>9
  <2> QED BY <1>2, <2>1 DEF Received, After
<1>10. pc'["S"] = pc["S"]
  BY ReceiverStep DEF SenderStill, ReceiveTask
<1> QED BY <1>2, <1>3, <1>7, <1>9, <1>10, LoopGoesOn

\* Binary data leads it on in the file.
LEMMA BinaryLoop == ASSUME TaskTypes, FileTypes, FlowInv, LoopInv, ReceiveBinary PROVE LoopInv'
<1>1. PICK m : m = Arrived("R")
  OBVIOUS
<1>2. /\ pc["R"] = "files" /\ q["R"] # <<>> /\ m = q["R"][1] /\ m.k = "bin" /\ UNCHANGED config
      /\ UNCHANGED <<sender, open>>
  BY <1>1, TwoPeers DEF ReceiveBinary, Receives, IsString, Arrived, TaskTypes
<1>3. m \in Msg /\ Follows(Received, m)
  BY <1>2, HeadOfStream
<1>4. PICK d \in Seq(Unit) : d = m.data
  BY <1>2, <1>3, MsgIs
<1>5. Received[1] \in Files /\ d # <<>> /\ Run(Received[1], Received[2], d)
  BY <1>2, <1>3, <1>4 DEF Follows
<1>6. PICK o \in Files : o = open
  <2>1. Nowhere[1] = None
    BY DEF Nowhere
  <2>2. open # None
    BY <1>5, <2>1, NoneAssumption DEF Received
  <2> QED BY <2>2 DEF FileTypes
<1>7. PICK b \in Seq(Unit), k \in Nat : b = got[o] /\ k = Len(b)
  BY DEF FlowInv, FileInv
<1>8. Run(o, k, d) /\ o # None
  <2>1. PICK P : P = <<o, k>>
    OBVIOUS
  <2>2. P[1] = o /\ P[2] = k
    BY <2>1
  <2>3. Received = P /\ o # None
    BY <1>6, <1>7, <2>1, NoneAssumption DEF Received
  <2> QED BY <1>5, <2>2, <2>3
<1>9. pc'["S"] = pc["S"]
  BY ReceiverStep DEF SenderStill, ReceiveTask
<1>10. CASE got' = [got EXCEPT ![open] = got[open] \o m.data] /\ Proceed("R", 1, <<>>, {}, "files")
  <2>0. <<>> \in Seq(Msg)
    OBVIOUS
  <2>1. PICK nexts : Passed("R", 1, <<>>, nexts)
    BY <1>10, <2>0, TwoPeers, ProceedPasses
  <2>2. got'[o] = b \o d /\ Len(b \o d) = k + Len(d)
    <3>3. got' = [got EXCEPT ![o] = got[o] \o d]
      BY <1>4, <1>6, <1>10
    <3>5. got \in [Files -> Seq(Unit)]
      BY DEF FlowInv, FileInv
    <3>4. PICK c : c = got[o] \o d /\ c = b \o d
      BY <1>7
    <3>1. got'[o] = b \o d
      BY <3>3, <3>4, <3>5
    <3>2. Len(b \o d) = Len(b) + Len(d)
      OBVIOUS
    <3> QED BY <1>7, <3>1, <3>2
  <2>3. Received' = <<o, k + Len(d)>>
    BY <1>2, <1>6, <1>8, <2>2 DEF Received
  <2>4. Len(d) \in 1..Len(d)
    BY <1>5
  <2>5. Received' = After(q["R"][1])
    <3>1. After(m) = d[Len(d)]
      BY <1>2, <1>4 DEF After
    <3> QED BY <1>2, <1>8, <2>3, <2>4, <3>1 DEF Run
  <2> QED BY <1>2, <1>9, <2>1, <2>5, LoopGoesOn
<1>11. CASE Fail("R", <<>>, {}, "app")
  <2>1. pc'["R"] = "dead" /\ (Nice <=> Nice')
    BY <1>2, <1>11, ReceiverGoesTo, LinkStable
  <2> QED BY <1>2, <1>9, <2>1 DEF LoopInv, sender
<1> QED BY <1>1, <1>6, <1>8, <1>10, <1>11 DEF ReceiveBinary

----------------------------------------------------------------------------
(* Every step, in the file loop *)

\* The connection is lost.
LEMMA DisconnectLoop == ASSUME TaskTypes, LoopInv, NEW p \in Peers, Disconnect(p) PROVE LoopInv'
<1>0. UNCHANGED <<pc, fileMap>> /\ UNCHANGED config /\ ~Live' /\ Received' = Received
  BY LostParts DEF Disconnect, sender, receiver, Received
<1>1. PICK s \in Seq(Msg), t \in Seq(Msg), P \in {Received} : s = q["R"] /\ t = q'["R"] /\ P = Received /\ IsFirst(t, s)
  BY TwoPeers, LeftIs, LostParts
<1>2. ASSUME pc["R"] = "files" PROVE LoopReads(Received, q["R"])'
  <2>1. LoopReads(P, t)
    BY <1>1, <1>2, LoopParts DEF LoopInv
  <2>2. LoopReads(P, t)'
    BY <1>0, <2>1, LoopStable
  <2> QED BY <1>0, <1>1, <2>2
<1>3. Nice <=> Nice'
  BY <1>0, LinkStable
<1> QED BY <1>0, <1>2, <1>3 DEF LoopInv

\* Nothing happens.
LEMMA StutterLoop == ASSUME LoopInv, UNCHANGED vars PROVE LoopInv'
<1>0. /\ UNCHANGED <<pc, q, fileMap, given, open, got, end>> /\ UNCHANGED config
      /\ Received' = Received
  BY DEF vars, control, sender, receiver, Received
<1>1. PICK t, P : t = q["R"] /\ P = Received
  OBVIOUS
<1>2. (LoopReads(P, t) <=> LoopReads(P, t)') /\ (Nice <=> Nice')
  BY <1>0, LoopStable, LinkStable
<1>3. LoopReads(Received, q["R"])' <=> LoopReads(Received, q["R"])
  BY <1>0, <1>1, <1>2
<1>4. NextAt' = NextAt
  <2>1. NextAt' = At(P, t, Len(t) + 1)
    BY <1>0, <1>1 DEF NextAt, At, After
  <2> QED BY <1>1, <2>1 DEF NextAt
<1>5. Live' <=> Live
  BY <1>0 DEF Live, Running
<1> QED BY <1>0, <1>2, <1>3, <1>4, <1>5 DEF LoopInv, NextAt

\* Every step keeps the invariant.
LEMMA StepLoop == ASSUME AllInv, FlowInv, ReadInv, LoopInv, [Next]_vars PROVE LoopInv'
<1>0. TaskTypes /\ FileTypes
  BY DEF AllInv
<1>1. CASE SendTask
  BY <1>0, <1>1, EarlyLoop, ResponseLoop, SendFilesLoop, SendEndLoop, AwaitStatusLoop
     DEF SendTask, SendsFile, SenderEarly
<1>2. CASE ReceiveTask
  BY <1>0, <1>2, ElsewhereLoop, SelectLoop, HeaderLoop, BinaryLoop DEF ReceiveTask, ReceiverElsewhere
<1>3. ASSUME PinTask("S") PROVE LoopInv'
  BY <1>0, <1>3, CollectLoop, EarlyLoop DEF PinTask, SenderEarly
<1>4. ASSUME PinTask("R") PROVE LoopInv'
  BY <1>0, <1>4, ElsewhereLoop DEF ReceiverElsewhere
<1>5. ASSUME NEW p \in Peers, PinTask(p) \/ Disconnect(p) PROVE LoopInv'
  BY <1>0, <1>3, <1>4, <1>5, DisconnectLoop DEF Peers
<1>6. CASE UNCHANGED vars
  BY <1>6, StutterLoop
<1> QED BY <1>1, <1>2, <1>5, <1>6 DEF Next

\* It always holds.
LEMMA LoopInvariance == Spec => []LoopInv
<1>1. Init => LoopInv
  BY TwoPeers DEF Init, LoopInv
<1>2. AllInv /\ FlowInv /\ ReadInv /\ LinkInv /\ LoopInv /\ [Next]_vars => LoopInv'
  BY StepLoop
<1> QED BY <1>1, <1>2, Invariance, FlowInvariance, LinkInvariance, PTL DEF Spec

----------------------------------------------------------------------------
(* No message astray *)

\* The apps play along.
PlayAlong == faults \subseteq {"netFail"} /\ UsablePins

\* No task has returned because of a message it did not expect.
NoParse == \A p \in Peers : outcome[p] \notin {"parse", "unexpected"}

\* The ways a task returns or goes on otherwise.
LEMMA FineReturns ==
    ASSUME TaskTypes, NoParse, NEW p \in Peers
    PROVE  /\ \A msgs, sts, why :
                 Fail(p, msgs, sts, why) /\ why \notin {"parse", "unexpected"} => NoParse'
           /\ \A n, msgs, sts, next : Proceed(p, n, msgs, sts, next) => NoParse'
           /\ \A msgs, sts : Complete(p, msgs, sts) => NoParse'
           /\ outcome' = outcome => NoParse'
<1>1. \A w : w \notin {"parse", "unexpected"} /\ outcome' = [outcome EXCEPT ![p] = w] => NoParse'
  BY DEF NoParse, TaskTypes
<1>2. outcome' = outcome => NoParse'
  BY DEF NoParse
<1>3. ASSUME NEW msgs, NEW sts, NEW why, Fail(p, msgs, sts, why), why \notin {"parse", "unexpected"}
      PROVE  NoParse'
  BY <1>1, <1>3 DEF Fail
<1>4. ASSUME NEW n, NEW msgs, NEW sts, NEW next, Proceed(p, n, msgs, sts, next) PROVE NoParse'
  BY <1>2, <1>3, <1>4 DEF Proceed
<1>5. ASSUME NEW msgs, NEW sts, Complete(p, msgs, sts) PROVE NoParse'
  BY <1>1, <1>3, <1>5 DEF Complete
<1> QED BY <1>2, <1>3, <1>4, <1>5

\* A round of a challenge, and the sender's step after the receiver's.
LEMMA FineRounds ==
    ASSUME TaskTypes, NoParse, NEW p \in Peers
    PROVE  /\ \A guess, n, notice, msgs, sts : verify_pin(p, guess, n, notice, msgs, sts) => NoParse'
           /\ p = "S" /\ OfferFiles => NoParse'
<1>1. \A msgs, sts : AfterPass(p, msgs, sts) => NoParse'
  BY FineReturns DEF AfterPass
<1>2. ASSUME NEW guess, NEW n, NEW notice, NEW msgs, NEW sts, verify_pin(p, guess, n, notice, msgs, sts)
      PROVE  NoParse'
  <2>1. CASE AfterPass(p, msgs, sts)
    BY <1>1, <2>1
  <2>2. CASE Fail(p, msgs \o Notice(p, "tooMany"), sts \cup {"TooManyAttempts"}, "tooMany")
    <3>1. PICK m, t : Fail(p, m, t, "tooMany")
      BY <2>2
    <3> QED BY <3>1, FineReturns
  <2>3. CASE Proceed(p, 1, msgs \o (IF notice THEN Notice(p, "pinRequired") ELSE <<>>), sts, "verify")
    <3>1. PICK m : Proceed(p, 1, m, sts, "verify")
      BY <2>3
    <3> QED BY <3>1, FineReturns
  <2> QED BY <1>2, <2>1, <2>2, <2>3 DEF verify_pin
<1>3. ASSUME p = "S", OfferFiles PROVE NoParse'
  BY <1>1, <1>2, <1>3 DEF OfferFiles, Challenge
<1> QED BY <1>2, <1>3

\* A single message of a kind is what arrives.
LEMMA KindArrives ==
    ASSUME TaskTypes, NEW p \in Peers, q[p] # <<>>, NEW k, AtMost(q[p], k)
    PROVE  Arrived(p) \in Msg /\ Arrived(p).k = k /\ (k = "nonce" => NonceArrives(p))
<1>1. /\ q[p] \in Seq(Msg) /\ Len(q[p]) \in Nat /\ Len(q[p]) > 0
      /\ Arrived(p) = q[p][1] /\ Arrived(p) \in Msg
  BY LeftIs
<1>2. 1 \in 1..Len(q[p])
  BY <1>1
<1>3. Arrived(p).k = k
  BY <1>1, <1>2 DEF AtMost
<1>4. k = "nonce" => NonceArrives(p)
  BY <1>1, <1>3, MsgIs, NoncesValid DEF NonceArrives
<1> QED BY <1>1, <1>3, <1>4

\* The sender understands what it receives.
LEMMA SenderUnderstands ==
    ASSUME TaskTypes, ReadInv, NoParse, pin["R"] # EmptyPin, SendTask \/ PinTask("S")
    PROVE  NoParse'
<1>0. ReadsS(pc["S"], buf["S"], q["S"])
  BY DEF ReadInv
<1>1. CASE SendNonce
  BY <1>1, TwoPeers, FineReturns DEF SendNonce
<1>2. CASE SendToken
  <2>1. pc["S"] = "nonce" /\ q["S"] # <<>>
    BY <1>2 DEF SendToken, Receives
  <2>2. NonceArrives("S")
    BY <1>0, <2>1, TwoPeers, KindArrives DEF ReadsS
  <2> QED BY <1>2, <2>2, TwoPeers, FineReturns DEF SendToken
<1>3. CASE HandleTokenResponse
  <2>1. pc["S"] = "token" /\ q["S"] # <<>>
    BY <1>3 DEF HandleTokenResponse, Receives
  <2>2. Arrived("S").k = "tokenRes"
    BY <1>0, <2>1, TwoPeers, LeftIs DEF ReadsS
  <2> QED BY <1>3, <2>2, TwoPeers, FineReturns, FineRounds DEF HandleTokenResponse
<1>4. CASE HandlePinReceivingResponse
  <2>1. pc["S"] = "pinRes" /\ q["S"] # <<>>
    BY <1>4 DEF HandlePinReceivingResponse, Receives
  <2>2. Arrived("S").k = "pinRes"
    BY <1>0, <2>1, TwoPeers, KindArrives DEF ReadsS
  <2> QED BY <1>4, <2>2, TwoPeers, FineReturns, FineRounds DEF HandlePinReceivingResponse
<1>5. CASE HandleFileListResponse
  <2>1. pc["S"] = "selection" /\ q["S"] # <<>> /\ IsString(Arrived("S"))
    BY <1>5 DEF HandleFileListResponse, Ended, Receives
  <2>2. PICK s \in Strings : s.k \in {"ok", "declined"} /\ Comes(s, buf["S"], q["S"])
    BY <1>0, <2>1 DEF ReadsS
  <2>3. q["S"] \in Seq(Msg) /\ buf["S"] \in Seq(Unit) /\ IsString(q["S"][1])
    BY <2>1, TwoPeers, LeftIs
  <2>4. Parses(buf["S"], "ok") \/ Parses(buf["S"], "declined")
    BY <2>1, <2>2, <2>3, ComesEnds
  <2> QED BY <1>5, <2>4, TwoPeers, FineReturns DEF HandleFileListResponse
<1>6. CASE SendsFile
  <2>1. outcome' = outcome
    BY <1>6 DEF SendsFile, SendHeader, SendChunks, SendRest, Write, control
  <2> QED BY <2>1, TwoPeers, FineReturns
<1>7. CASE SendEnd \/ AwaitStatus
  BY <1>7, TwoPeers, FineReturns DEF SendEnd, AwaitStatus
<1>8. CASE PinTask("S")
  <2>1. CASE VerifyPin("S")
    <3>1. pc["S"] = "verify" /\ q["S"] # <<>>
      BY <2>1 DEF VerifyPin, Receives
    <3>2. Arrived("S").k = "pin"
      BY <1>0, <3>1, TwoPeers, KindArrives DEF ReadsS
    <3> QED BY <2>1, <3>2, TwoPeers, FineRounds DEF VerifyPin
  <2>2. CASE EnterPin("S")
    <3>1. PICK msgs : Proceed("S", 0, msgs, {}, "pinRes")
      BY <2>2 DEF EnterPin
    <3> QED BY <3>1, TwoPeers, FineReturns
  <2>4. CASE DropPinRequest("S")
    BY <2>4, TwoPeers, FineReturns DEF DropPinRequest
  <2>3. CASE ReceiveChunk("S")
    <3>1. PICK next : Proceed("S", 1, <<>>, {}, next)
      BY <2>3 DEF ReceiveChunk
    <3> QED BY <3>1, TwoPeers, FineReturns
  <2> QED BY <1>8, <2>1, <2>2, <2>3, <2>4 DEF PinTask
<1> QED BY <1>1, <1>2, <1>3, <1>4, <1>5, <1>6, <1>7, <1>8 DEF SendTask, SendsFile

\* The receiver understands what it receives.
LEMMA ReceiverUnderstands ==
    ASSUME TaskTypes, ReadInv, LoopInv, NoParse, PlayAlong, ReceiveTask \/ PinTask("R")
    PROVE  NoParse'
<1>0. ReadsR(pc["R"], buf["R"], q["R"]) /\ Nice
  BY DEF ReadInv, PlayAlong, UsablePins, Nice
<1>1. CASE ReceiveNonce
  <2>1. pc["R"] = "nonce" /\ q["R"] # <<>>
    BY <1>1 DEF ReceiveNonce, Receives
  <2>2. NonceArrives("R")
    BY <1>0, <2>1, TwoPeers, KindArrives DEF ReadsR
  <2> QED BY <1>1, <2>2, TwoPeers, FineReturns DEF ReceiveNonce
<1>2. CASE HandleTokenRequest
  <2>1. pc["R"] = "token" /\ q["R"] # <<>>
    BY <1>2 DEF HandleTokenRequest, Receives
  <2>2. Arrived("R").k = "token"
    BY <1>0, <2>1, TwoPeers, KindArrives DEF ReadsR
  <2> QED BY <1>2, <2>2, TwoPeers, FineReturns, FineRounds DEF HandleTokenRequest, Challenge
<1>3. CASE HandlePinSendingResponse
  <2>1. pc["R"] \in {"list", "pinRes"} /\ q["R"] # <<>> /\ IsString(Arrived("R"))
    BY <1>3 DEF HandlePinSendingResponse, Ended, Receives
  <2>2. PICK s \in Strings : s.k \in Answers(pc["R"]) /\ Comes(s, buf["R"], q["R"])
    BY <1>0, <2>1 DEF ReadsR
  <2>3. q["R"] \in Seq(Msg) /\ buf["R"] \in Seq(Unit) /\ IsString(q["R"][1])
    BY <2>1, TwoPeers, LeftIs
  <2>4. \A k : Parses(buf["R"], k) <=> k = s.k
    BY <2>1, <2>2, <2>3, ComesEnds
  <2>5. s.k \in {"list", "pinRequired", "tooMany"}
    BY <2>2 DEF Answers
  <2>6. s.k = "tooMany" => pc["R"] = "pinRes"
    BY <2>2, MaxTriesAssumption DEF Answers, PlayAlong, UsablePins
  <2>7. ~(Parses(buf["R"], "tooMany") /\ pc["R"] = "list")
    BY <2>4, <2>6
  <2> QED BY <1>3, <2>4, <2>5, <2>7, TwoPeers, FineReturns DEF HandlePinSendingResponse, ShowFiles
<1>4. CASE Select \/ Decline \/ DropSelection \/ ReceiveEnd \/ ReceiveHeader
  BY <1>4, TwoPeers, FineReturns DEF Select, Decline, DropSelection, ReceiveEnd, ReceiveHeader
<1>5. CASE ReceiveBinary
  <2>1. Proceed("R", 1, <<>>, {}, "files") \/ Fail("R", <<>>, {}, "app")
    BY <1>5 DEF ReceiveBinary
  <2>2. ASSUME Proceed("R", 1, <<>>, {}, "files") PROVE NoParse'
    BY <2>2, TwoPeers, FineReturns
  <2>3. ASSUME Fail("R", <<>>, {}, "app") PROVE NoParse'
    BY <2>3, TwoPeers, FineReturns
  <2> QED BY <2>1, <2>2, <2>3
<1>6. ~ReceiveBadHeader
  <2> SUFFICES ASSUME ReceiveBadHeader PROVE FALSE
    OBVIOUS
  <2>1. /\ pc["R"] = "files" /\ q["R"] # <<>> /\ Arrived("R").k \notin {"bin", "header"}
        /\ open = None \/ Arrived("R") # Delimiter
    BY DEF ReceiveBadHeader, Ended, Receives, IsString
  <2>2. q["R"] \in Seq(Msg) /\ Arrived("R") = q["R"][1] /\ 1 \in 1..Len(q["R"]) /\ Arrived("R") \in Msg
    BY <2>1, TwoPeers, LeftIs
  <2>3. Arrived("R").k = "delimiter" /\ At(Received, q["R"], 1)[1] # None
    BY <1>0, <2>1, <2>2 DEF LoopInv, LoopReads
  <2>4. open # None
    BY <2>3 DEF At, Received, Nowhere
  <2>5. Arrived("R") = Delimiter
    BY <2>2, <2>3 DEF Msg, Delimiter, Text
  <2> QED BY <2>1, <2>4, <2>5
<1>7. CASE PinTask("R")
  <2>1. CASE VerifyPin("R")
    <3>1. pc["R"] = "verify" /\ q["R"] # <<>>
      BY <2>1 DEF VerifyPin, Receives
    <3>2. Arrived("R").k = "pin"
      BY <1>0, <3>1, TwoPeers, KindArrives DEF ReadsR
    <3> QED BY <2>1, <3>2, TwoPeers, FineRounds DEF VerifyPin
  <2>2. CASE EnterPin("R")
    <3>1. PICK msgs : Proceed("R", 0, msgs, {}, "pinRes")
      BY <2>2 DEF EnterPin
    <3> QED BY <3>1, TwoPeers, FineReturns
  <2>4. CASE DropPinRequest("R")
    BY <2>4, TwoPeers, FineReturns DEF DropPinRequest
  <2>3. CASE ReceiveChunk("R")
    <3>1. PICK next : Proceed("R", 1, <<>>, {}, next)
      BY <2>3 DEF ReceiveChunk
    <3> QED BY <3>1, TwoPeers, FineReturns
  <2> QED BY <1>7, <2>1, <2>2, <2>3, <2>4 DEF PinTask
<1> QED BY <1>1, <1>2, <1>3, <1>4, <1>5, <1>6, <1>7 DEF ReceiveTask

----------------------------------------------------------------------------
(* Theorems *)

\* The two tasks never wait for each other: while both outer tasks run, one of the inner
\* ones has a message on its way to it or is about to do something, whatever the PINs,
\* files and users (the receives and sends of send_task and receive_task take turns).
THEOREM NeverBothWaitCorrect == Spec => []NeverBothWait
<1>1. AllInv /\ ReadInv /\ LinkInv => NeverBothWait
  <2> SUFFICES ASSUME AllInv, LinkInv, Live, Waits("S"), Waits("R") PROVE FALSE
    BY DEF NeverBothWait, Live
  <2>0. TaskTypes
    BY DEF AllInv
  <2>1. /\ q["S"] = <<>> /\ q["R"] = <<>> /\ Link
        /\ pc["S"] \in {"nonce", "token", "pinRes", "verify", "selection", "status", "sending", "askPin", "start"}
        /\ pc["S"] \notin {"sending", "askPin", "start"} /\ pc["R"] \notin {"askPin", "select"}
    BY <2>0 DEF Waits, Link, TaskTypes, SPcs, RPcs
  <2>2. /\ buf["S"] \in Seq(Unit) /\ buf["R"] \in Seq(Unit) /\ <<>> \in Seq(Msg) /\ Len(<<>>) = 0
    BY <2>0, TwoPeers, LeftIs
  <2>3. \A k : ~ComesAll(k, buf["S"], <<>>) /\ ~ComesAll(k, buf["R"], <<>>)
    BY <2>2, SomeComes
  <2>4. \A k : ~One(<<>>, k)
    BY <2>2 DEF One
  <2>5. Linked(pc["S"], buf["S"], <<>>, pc["R"], buf["R"], <<>>)
    BY <2>1 DEF LinkInv, Link
  <2>6. ~Astray(pc["S"], <<>>, pc["R"], buf["R"], <<>>)
    BY <2>2, <2>4 DEF Astray
  <2> QED BY <2>1, <2>3, <2>4, <2>5, <2>6 DEF Linked
<1> QED BY <1>1, LinkInvariance, Invariance, PTL

\* As long as the apps play along no task meets a message it does not expect, whatever
\* the PINs, files and sizes of chunks and whenever the network fails (what send_task
\* and receive_task parse at each of their receives).
THEOREM NoParseCorrect == Spec => []NoParseError
<1>1. Init => NoParse
  BY DEF Init, NoParse
<1>2. ASSUME AllInv, ReadInv, LoopInv, PlayAlong, NoParse, [Next]_vars PROVE NoParse'
  <2>0. TaskTypes
    BY <1>2 DEF AllInv
  <2>1. CASE SendTask \/ PinTask("S")
    BY <1>2, <2>0, <2>1, SenderUnderstands DEF PlayAlong, UsablePins
  <2>2. CASE ReceiveTask \/ PinTask("R")
    BY <1>2, <2>0, <2>2, ReceiverUnderstands
  <2>3. ASSUME NEW p \in Peers, Disconnect(p) PROVE NoParse'
    BY <1>2, <2>0, <2>3, FineReturns DEF Disconnect
  <2>4. CASE UNCHANGED vars
    BY <1>2, <2>4 DEF vars, control, NoParse
  <2> QED BY <1>2, <2>1, <2>2, <2>3, <2>4 DEF Next, Peers
<1>3. [Next]_vars => (PlayAlong <=> PlayAlong')
  <2>1. [Next]_vars => UNCHANGED config
    BY DEF Next, vars, SendTask, ReceiveTask, PinTask, SendNonce, SendToken, HandleTokenResponse,
       HandlePinReceivingResponse, HandleFileListResponse, SendHeader, SendChunks, SendRest, SendEnd,
       AwaitStatus, ReceiveNonce, HandleTokenRequest, HandlePinSendingResponse, Select, Decline,
       DropSelection, ReceiveEnd, ReceiveHeader, ReceiveBadHeader, ReceiveBinary, ReceiveChunk,
       VerifyPin, EnterPin, DropPinRequest, Disconnect
  <2> QED BY <2>1 DEF config, PlayAlong, UsablePins
<1>4. Init => (PlayAlong => NoParse)
  BY <1>1
<1>5. AllInv /\ ReadInv /\ LoopInv /\ (PlayAlong => NoParse) /\ [Next]_vars =>
          (PlayAlong => NoParse)'
  BY <1>2, <1>3
<1>6. (PlayAlong => NoParse) => NoParseError
  BY DEF NoParse, NoParseError, PlayAlong
<1> QED BY <1>4, <1>5, <1>6, Invariance, LinkInvariance, LoopInvariance, PTL DEF Spec

----------------------------------------------------------------------------
(* The transfer that the two users see *)

\* The receiver's user is asked only when the list was shown; the file that is sent
\* is one the sender holds a token for.
ViewInv ==
    /\ pc["R"] = "select" => Listed
    /\ cur # None => cur \in fileMap

\* No content is on its way that the sender's app has not produced.
Within(r, m) ==
    m.k = "bin" =>
        \A i \in DOMAIN m.data : m.data[i][1] \in Files /\ m.data[i][2] <= r[m.data[i][1]]
BoundInv == pc["R"] = "files" => \A i \in 1..Len(q["R"]) : Within(read, q["R"][i])

\* What a step of a task reports.
Said(p, sts) ==
    /\ told' = [told EXCEPT ![p] = told'[p]]
    /\ told[p] \cup sts \subseteq told'[p]
    /\ told'[p] \subseteq told[p] \cup sts \cup {"Error", "Finished"}

\* Each of them reports its statuses, and how it returned.
LEMMA TaskSays ==
    ASSUME TaskTypes, NEW p \in Peers
    PROVE  /\ \A msgs, sts, why : Fail(p, msgs, sts, why) => Said(p, sts)
           /\ \A n, msgs, sts, next : Proceed(p, n, msgs, sts, next) => Said(p, sts)
           /\ \A msgs, sts : Complete(p, msgs, sts) => Said(p, sts)
<1>1. \A sts : \A e \in SUBSET {"Error", "Finished"} :
         told' = [told EXCEPT ![p] = (told[p] \cup sts) \cup e] => Said(p, sts)
  BY DEF TaskTypes, Said
<1>2. ASSUME NEW msgs, NEW sts, NEW why, Fail(p, msgs, sts, why) PROVE Said(p, sts)
  <2>1. told' = [told EXCEPT ![p] = (told[p] \cup sts) \cup (IF Running(p) THEN {"Error"} ELSE {})]
    BY <1>2 DEF Fail
  <2>2. (IF Running(p) THEN {"Error"} ELSE {}) \in SUBSET {"Error", "Finished"}
    OBVIOUS
  <2> QED BY <1>1, <2>1, <2>2
<1>3. ASSUME NEW n, NEW msgs, NEW sts, NEW next, Proceed(p, n, msgs, sts, next) PROVE Said(p, sts)
  <2>1. CASE told' = [told EXCEPT ![p] = told[p] \cup sts]
    <3>1. {} \in SUBSET {"Error", "Finished"} /\ (told[p] \cup sts) \cup {} = told[p] \cup sts
      OBVIOUS
    <3>2. told' = [told EXCEPT ![p] = (told[p] \cup sts) \cup {}]
      BY <2>1, <3>1
    <3> QED BY <1>1, <3>1, <3>2
  <2>2. CASE Fail(p, <<>>, sts, "send")
    BY <1>2, <2>2
  <2> QED BY <1>3, <2>1, <2>2 DEF Proceed
<1>4. ASSUME NEW msgs, NEW sts, Complete(p, msgs, sts) PROVE Said(p, sts)
  <2>1. CASE told' = [told EXCEPT ![p] = (told[p] \cup sts) \cup (IF Running(p) THEN {"Finished"} ELSE {})]
    <3>1. (IF Running(p) THEN {"Finished"} ELSE {}) \in SUBSET {"Error", "Finished"}
      OBVIOUS
    <3> QED BY <1>1, <2>1, <3>1
  <2>2. CASE Fail(p, <<>>, sts, "send")
    BY <1>2, <2>2
  <2> QED BY <1>4, <2>1, <2>2 DEF Complete
<1> QED BY <1>2, <1>3, <1>4

\* Only the receiver, and only with this status, shows the list.
LEMMA SaidListed ==
    ASSUME TaskTypes
    PROVE  /\ \A sts : Said("S", sts) => Listed' = Listed
           /\ \A sts : Said("R", sts) /\ "Connected" \notin sts => Listed' = Listed
           /\ \A sts : Said("R", sts) /\ "Connected" \in sts => Listed' = TRUE
<1>1. ASSUME NEW sts, Said("S", sts) PROVE Listed' = Listed
  <2>1. told'["R"] = told["R"]
    BY <1>1, TwoPeers DEF Said, TaskTypes
  <2> QED BY <2>1 DEF Listed
<1>2. ASSUME NEW sts, Said("R", sts), "Connected" \notin sts PROVE Listed' = Listed
  <2>1. "Connected" \in told'["R"] <=> "Connected" \in told["R"]
    BY <1>2 DEF Said
  <2> QED BY <2>1 DEF Listed
<1>3. ASSUME NEW sts, Said("R", sts), "Connected" \in sts PROVE Listed' = TRUE
  BY <1>3, TwoPeers DEF Said, TaskTypes, Listed
<1> QED BY <1>1, <1>2, <1>3

\* What the sender does shows nothing.
LEMMA SenderShowsNothing == ASSUME TaskTypes, SendTask \/ PinTask("S") PROVE Listed' = Listed
<1>1. /\ \A msgs, sts, why : Fail("S", msgs, sts, why) => Listed' = Listed
      /\ \A n, msgs, sts, next : Proceed("S", n, msgs, sts, next) => Listed' = Listed
      /\ \A msgs, sts : Complete("S", msgs, sts) => Listed' = Listed
  BY TwoPeers, TaskSays, SaidListed
<1>2. \A guess, n, notice, msgs, sts : verify_pin("S", guess, n, notice, msgs, sts) => Listed' = Listed
  BY <1>1 DEF verify_pin, AfterPass
<1>3. OfferFiles => Listed' = Listed
  BY <1>1, <1>2 DEF OfferFiles, Challenge, AfterPass
<1>4. CASE SendNonce \/ SendToken \/ SendEnd \/ AwaitStatus \/ ReceiveChunk("S") \/ EnterPin("S")
           \/ DropPinRequest("S") \/ HandleFileListResponse
  BY <1>1, <1>4 DEF SendNonce, SendToken, SendEnd, AwaitStatus, ReceiveChunk, EnterPin, DropPinRequest,
     HandleFileListResponse
<1>5. CASE HandleTokenResponse \/ HandlePinReceivingResponse \/ VerifyPin("S")
  BY <1>1, <1>2, <1>3, <1>5 DEF HandleTokenResponse, HandlePinReceivingResponse, VerifyPin
<1>6. CASE SendHeader \/ SendChunks \/ SendRest
  BY <1>6 DEF SendHeader, SendChunks, SendRest, Write, control, Listed
<1> QED BY <1>4, <1>5, <1>6 DEF SendTask, PinTask

\* Nor does the receiver, but for one step.
LEMMA ReceiverShowsNothing ==
    ASSUME TaskTypes, ReceiveTask \/ PinTask("R")
    PROVE  HandlePinSendingResponse \/ Listed' = Listed
<1>0. "Connected" \notin {} /\ \A x : x # "Connected" => "Connected" \notin {x}
  OBVIOUS
<1>1. /\ \A msgs, sts, why : Fail("R", msgs, sts, why) /\ "Connected" \notin sts => Listed' = Listed
      /\ \A n, msgs, sts, next : Proceed("R", n, msgs, sts, next) /\ "Connected" \notin sts => Listed' = Listed
      /\ \A msgs, sts : Complete("R", msgs, sts) /\ "Connected" \notin sts => Listed' = Listed
  BY TwoPeers, TaskSays, SaidListed
<1>2. \A guess, n, notice, msgs, sts :
         verify_pin("R", guess, n, notice, msgs, sts) /\ "Connected" \notin sts => Listed' = Listed
  BY <1>1 DEF verify_pin, AfterPass
<1>3. CASE ReceiveNonce \/ Decline \/ DropSelection \/ Select \/ ReceiveChunk("R") \/ EnterPin("R")
           \/ DropPinRequest("R")
  BY <1>0, <1>1, <1>3 DEF ReceiveNonce, Decline, DropSelection, Select, ReceiveChunk, EnterPin, DropPinRequest
<1>4. CASE HandleTokenRequest \/ VerifyPin("R")
  BY <1>0, <1>1, <1>2, <1>4 DEF HandleTokenRequest, VerifyPin, Challenge
<1>5. CASE ReceiveEnd \/ ReceiveHeader \/ ReceiveBadHeader \/ ReceiveBinary
  BY <1>0, <1>1, <1>5 DEF ReceiveEnd, ReceiveHeader, ReceiveBadHeader, ReceiveBinary
<1> QED BY <1>3, <1>4, <1>5 DEF ReceiveTask, PinTask

\* The view when nothing that it consists of changes.
LEMMA SameView ==
    ASSUME UNCHANGED <<pin, expect, typed>>, Listed' = Listed, Accepted' = Accepted,
           UNCHANGED <<selected, cur, read, got, answer>>
    PROVE  UNCHANGED Transfer!transferVars
<1>1. Locked' = Locked /\ KeysRight' = KeysRight
  BY DEF Locked, KeysRight, Unlocked
<1> QED BY <1>1 DEF Transfer!transferVars

\* Where a step of the receiver never leads it.
LEMMA ShownOnlyThen ==
    ASSUME TaskTypes, ReceiveTask \/ PinTask("R"), pc'["R"] = "select" PROVE HandlePinSendingResponse
<1>0. \A n, msgs, sts, next : Proceed("R", n, msgs, sts, next) => next = "select"
  BY ReceiverGoesTo
<1>1. \A guess, n, notice, msgs, sts : ~verify_pin("R", guess, n, notice, msgs, sts)
  BY <1>0, ReceiverGoesTo, TwoPeers DEF verify_pin, AfterPass
<1>2. ~ReceiveNonce /\ ~Select /\ ~ReceiveHeader /\ ~ReceiveBinary /\ ~EnterPin("R") /\ ~DropPinRequest("R")
  BY <1>0, ReceiverGoesTo DEF ReceiveNonce, Select, ReceiveHeader, ReceiveBinary, EnterPin, DropPinRequest
<1>3. ~HandleTokenRequest /\ ~VerifyPin("R")
  BY <1>0, <1>1, ReceiverGoesTo DEF HandleTokenRequest, VerifyPin, Challenge
<1>4. ~Decline /\ ~DropSelection /\ ~ReceiveEnd /\ ~ReceiveBadHeader
  BY ReceiverGoesTo DEF Decline, DropSelection, ReceiveEnd, ReceiveBadHeader
<1>5. ~ReceiveChunk("R")
  BY <1>0 DEF ReceiveChunk, ChunkStates
<1> QED BY <1>2, <1>3, <1>4, <1>5 DEF ReceiveTask, PinTask

\* Where a step of the sender leaves the receiver.
LEMMA ReceiverStays == ASSUME TaskTypes, SendTask \/ PinTask("S") PROVE pc'["R"] = pc["R"]
<1>1. \A guess, n, notice, msgs, sts : verify_pin("S", guess, n, notice, msgs, sts) => pc'["R"] = pc["R"]
  BY SenderGoesTo DEF verify_pin, AfterPass
<1>2. OfferFiles => pc'["R"] = pc["R"]
  BY <1>1, SenderGoesTo DEF OfferFiles, Challenge, AfterPass
<1>3. CASE SendNonce \/ SendToken \/ SendEnd \/ AwaitStatus \/ ReceiveChunk("S") \/ EnterPin("S")
           \/ DropPinRequest("S") \/ HandleFileListResponse
  BY <1>3, SenderGoesTo DEF SendNonce, SendToken, SendEnd, AwaitStatus, ReceiveChunk, EnterPin,
     DropPinRequest, HandleFileListResponse
<1>4. CASE HandleTokenResponse \/ HandlePinReceivingResponse \/ VerifyPin("S")
  BY <1>1, <1>2, <1>4, SenderGoesTo DEF HandleTokenResponse, HandlePinReceivingResponse, VerifyPin
<1>5. CASE SendHeader \/ SendChunks \/ SendRest
  BY <1>5 DEF SendHeader, SendChunks, SendRest, Write, control
<1> QED BY <1>3, <1>4, <1>5 DEF SendTask, PinTask

\* A lost connection shows nothing, and the list stays shown.
LEMMA DisconnectShowsNothing ==
    ASSUME TaskTypes, NEW p \in Peers, Disconnect(p) PROVE Listed' = Listed
<1>1. told' = [told EXCEPT ![p] = told[p] \cup {"Finished"}]
  BY DEF Disconnect
<1>2. "Connected" \in told'["R"] <=> "Connected" \in told["R"]
  BY <1>1, TwoPeers DEF TaskTypes
<1> QED BY <1>2 DEF Listed

\* The step that shows the list.
LEMMA ListIsShown ==
    ASSUME TaskTypes, HandlePinSendingResponse
    PROVE  /\ Listed' = Listed \/ (Listed' = TRUE /\ Parses(buf["R"], "list"))
           /\ pc'["R"] = "select" => Listed' = TRUE
<1>0. "Connected" \notin {} /\ \A x : x # "Connected" => "Connected" \notin {x}
  OBVIOUS
<1>1. CASE Parses(buf["R"], "list") /\ ShowFiles
  <2>1. Said("R", {"Connected"})
    BY <1>1, TwoPeers, TaskSays DEF ShowFiles
  <2>2. "Connected" \in {"Connected"}
    OBVIOUS
  <2>3. Listed' = TRUE
    BY <2>1, <2>2, SaidListed
  <2> QED BY <1>1, <2>3
<1>2. CASE Proceed("R", 1, <<>>, {"PinRequired"}, "askPin")
  <2>1. Said("R", {"PinRequired"}) /\ "Connected" \notin {"PinRequired"}
    BY <1>0, <1>2, TwoPeers, TaskSays
  <2>2. pc'["R"] # "select"
    BY <1>2, ReceiverGoesTo
  <2> QED BY <2>1, <2>2, SaidListed
<1>3. ASSUME NEW sts \in {{}, {"TooManyAttempts"}, {"Error"}}, NEW why, Fail("R", <<>>, sts, why)
      PROVE  Listed' = Listed /\ pc'["R"] # "select"
  <2>1. Said("R", sts) /\ "Connected" \notin sts
    BY <1>0, <1>3, TwoPeers, TaskSays
  <2>2. pc'["R"] # "select"
    BY <1>3, ReceiverGoesTo
  <2> QED BY <2>1, <2>2, SaidListed
<1> QED BY <1>1, <1>2, <1>3 DEF HandlePinSendingResponse

\* The sender's steps leave these variables alone outside its file loop.
LEMMA SenderElsewhere ==
    ASSUME SendTask \/ PinTask("S")
    PROVE  SendsFile \/ HandleFileListResponse \/ UNCHANGED sender
  BY DEF SendTask, PinTask, SendsFile, SendNonce, SendToken, SendEnd, AwaitStatus, ReceiveChunk, EnterPin,
     DropPinRequest, HandleTokenResponse, HandlePinReceivingResponse, VerifyPin

\* Every step keeps the first invariant.
LEMMA StepView == ASSUME AllInv, FlowInv, ViewInv, [Next]_vars PROVE ViewInv'
<1>0. TaskTypes /\ FileTypes /\ None \notin Files
  BY NoneAssumption DEF AllInv
<1>1. CASE SendTask \/ PinTask("S")
  <2>1. pc'["R"] = "select" => Listed'
    BY <1>0, <1>1, ReceiverStays, SenderShowsNothing DEF ViewInv
  <2>2. CASE SendHeader
    <3>1. \A f : HasToken(f) => f \in fileMap
      BY DEF HasToken
    <3>2. UNCHANGED fileMap /\ cur = None /\ (cur' = cur \/ cur' \in fileMap)
      BY <2>2, <3>1 DEF SendHeader
    <3> QED BY <2>1, <3>2 DEF ViewInv
  <2>3. CASE SendChunks
    <3>1. UNCHANGED fileMap /\ cur' \in {cur, None}
      BY <2>3 DEF SendChunks
    <3> QED BY <2>1, <3>1 DEF ViewInv
  <2>4. CASE SendRest
    BY <2>1, <2>4 DEF ViewInv, SendRest
  <2>5. CASE HandleFileListResponse
    <3>1. pc["S"] = "selection" /\ UNCHANGED cur
      BY <2>5 DEF HandleFileListResponse, Ended, Receives
    <3>2. given = {}
      BY <3>1 DEF FlowInv, PhaseInv
    <3>3. cur = None
      BY <3>2 DEF FlowInv, FileInv
    <3> QED BY <2>1, <3>1, <3>3 DEF ViewInv
  <2>6. CASE UNCHANGED sender
    BY <2>1, <2>6 DEF ViewInv, sender
  <2> QED BY <1>1, <2>2, <2>3, <2>4, <2>5, <2>6, SenderElsewhere DEF SendsFile
<1>2. CASE ReceiveTask \/ PinTask("R")
  <2>1. UNCHANGED <<cur, fileMap>>
    BY <1>0, <1>2, ReceiverStep DEF SenderStill, sender
  <2>2. pc'["R"] = "select" => Listed' = TRUE
    BY <1>0, <1>2, ShownOnlyThen, ListIsShown
  <2> QED BY <2>1, <2>2 DEF ViewInv
<1>3. ASSUME NEW p \in Peers, Disconnect(p) PROVE ViewInv'
  BY <1>0, <1>3, DisconnectShowsNothing DEF ViewInv, Disconnect, sender
<1>4. CASE UNCHANGED vars
  BY <1>4 DEF ViewInv, vars, control, sender, Listed
<1> QED BY <1>1, <1>2, <1>3, <1>4 DEF Next, Peers

\* What was produced stays produced.
LEMMA WithinStays ==
    ASSUME read \in [Files -> Nat], read' \in [Files -> Nat], \A f \in Files : read[f] <= read'[f],
           NEW m \in Msg, Within(read, m)
    PROVE  Within(read', m)
<1> SUFFICES ASSUME m.k = "bin", NEW i \in DOMAIN m.data
             PROVE  m.data[i][1] \in Files /\ m.data[i][2] <= read'[m.data[i][1]]
  BY DEF Within
<1>1. PICK u \in Unit : u = m.data[i]
  BY MsgIs
<1>2. u[1] \in Files /\ u[2] <= read[u[1]] /\ u[2] \in Nat
  BY <1>1 DEF Within, Unit
<1>3. u[2] <= read'[u[1]]
  <2>1. PICK f \in Files : f = u[1]
    BY <1>2
  <2>2. read[f] \in Nat /\ read'[f] \in Nat /\ read[f] <= read'[f]
    OBVIOUS
  <2> QED BY <1>2, <2>1, <2>2
<1> QED BY <1>1, <1>2, <1>3

\* The sender adds nothing to the queue but what its app has produced.
LEMMA SenderBound ==
    ASSUME TaskTypes, FileTypes, BoundInv, pc'["R"] = pc["R"],
           NEW msgs \in Seq(Msg), NEW n, NEW nexts, Passed("S", n, msgs, nexts),
           read' \in [Files -> Nat], \A f \in Files : read[f] <= read'[f],
           \A i \in 1..Len(msgs) : Within(read', msgs[i])
    PROVE  BoundInv'
<1> SUFFICES ASSUME pc["R"] = "files", NEW i \in 1..Len(q'["R"]) PROVE Within(read', q'["R"][i])
  BY DEF BoundInv
<1>1. PICK s \in Seq(Msg), t \in Seq(Msg) : s = q["R"] /\ t = q'["R"] /\ IsFirst(t, Sent("S", msgs))
  BY TwoPeers DEF Passed, TaskTypes
<1>2. Sent("S", msgs) = (IF Live THEN s \o msgs ELSE s)
  BY <1>1, TwoPeers, SentFirst
<1>3. \A j \in 1..Len(s) : s[j] \in Msg /\ Within(read, s[j])
  BY <1>1 DEF BoundInv
<1>4. \A j \in 1..Len(s) : Within(read', s[j])
  BY <1>3, WithinStays DEF FileTypes
<1>5. CASE Live
  <2>1. PICK r \in Seq(Msg) : r = s \o msgs /\ IsBoth(r, s, msgs)
    BY PartsAre
  <2>2. i \in 1..Len(r) /\ t[i] = r[i]
    BY <1>1, <1>2, <1>5, <2>1 DEF IsFirst
  <2>3. CASE i \in 1..Len(s)
    BY <1>1, <1>4, <2>1, <2>2, <2>3 DEF IsBoth
  <2>4. CASE i \notin 1..Len(s)
    <3>1. i - Len(s) \in 1..Len(msgs) /\ i \in (Len(s) + 1) .. Len(r)
      BY <2>1, <2>2, <2>4 DEF IsBoth
    <3>2. r[i] = msgs[i - Len(s)]
      BY <2>1, <3>1 DEF IsBoth
    <3> QED BY <1>1, <2>2, <3>1, <3>2
  <2> QED BY <2>3, <2>4
<1>6. CASE ~Live
  <2>1. i \in 1..Len(s) /\ t[i] = s[i]
    BY <1>1, <1>2, <1>6 DEF IsFirst
  <2> QED BY <1>1, <1>4, <2>1
<1> QED BY <1>5, <1>6

\* A receiver that has taken messages, and a queue that lost some.
LEMMA LessBound ==
    ASSUME TaskTypes, FileTypes, BoundInv, UNCHANGED read, q'["R"] \in Seq(Msg),
           pc'["R"] = "files" => pc["R"] = "files" /\ From(q'["R"], q["R"])
    PROVE  BoundInv'
<1> SUFFICES ASSUME pc'["R"] = "files", NEW i \in 1..Len(q'["R"]) PROVE Within(read', q'["R"][i])
  BY DEF BoundInv
<1>1. PICK s \in Seq(Msg), t \in Seq(Msg) : s = q["R"] /\ t = q'["R"]
  BY TwoPeers DEF TaskTypes
<1>2. PICK j \in 1..Len(s) : t[i] = s[j]
  <2>1. From(t, s) /\ i \in DOMAIN t /\ DOMAIN s = 1..Len(s)
    BY <1>1
  <2> QED BY <2>1 DEF From
<1>3. PICK m : m = s[j] /\ Within(read, m)
  BY <1>1 DEF BoundInv
<1>4. Within(read', m)
  BY <1>3 DEF Within
<1> QED BY <1>1, <1>2, <1>3, <1>4

\* The full chunks of a buffer hold units of the buffer.
LEMMA ChunksWithin ==
    ASSUME NEW b \in Seq(Unit), \A j \in 1..Len(b) : b[j][1] \in Files /\ b[j][2] <= read'[b[j][1]],
           NEW t, t = FullChunks(b)
    PROVE  \A i \in 1..Len(t) : Within(read', t[i])
<1>0. Len(b) \in Nat /\ ChunkSize \in Nat \ {0}
  BY SizeAssumption
<1>1. PICK n \in Nat : n = Len(b) \div ChunkSize
  BY <1>0, ChunkBounds
<1>2. t = [i \in 1..n |-> Bin(SubSeq(b, (i - 1) * ChunkSize + 1, i * ChunkSize))]
  BY <1>1 DEF FullChunks
<1>3. Len(t) = n
  BY <1>2
<1> SUFFICES ASSUME NEW i \in 1..n PROVE Within(read', t[i])
  BY <1>3
<1>4. PICK x \in Nat \ {0}, y \in Nat : x = (i - 1) * ChunkSize + 1 /\ y = i * ChunkSize /\ y <= Len(b)
  BY <1>0, <1>1, ChunkBounds
<1>5. PICK d \in Seq(Unit) : d = SubSeq(b, x, y) /\ From(d, b)
  BY <1>0, <1>4, PartOf
<1>6. PICK m : m = t[i] /\ m.data = d
  <2>1. t[i] = Bin(d)
    BY <1>2, <1>4, <1>5
  <2>2. Bin(d).data = d
    BY DEF Bin
  <2> QED BY <2>1, <2>2
<1>7. ASSUME NEW j \in DOMAIN d PROVE d[j][1] \in Files /\ d[j][2] <= read'[d[j][1]]
  BY <1>5 DEF From
<1> QED BY <1>6, <1>7 DEF Within

\* The app produces some units.
LEMMA SendChunksBound ==
    ASSUME TaskTypes, FileTypes, FlowInv, BoundInv, SendChunks PROVE BoundInv'
<1>0. pc["S"] = "sending" /\ cur # None
  BY DEF SendChunks
<1>1. PICK c \in Files, k \in Nat, o \in Seq(Unit) : c = cur /\ k = read[cur] /\ o = sbuf
  BY <1>0 DEF FileTypes
<1>2. PICK n \in 1 .. (Size[c] - k) :
         /\ read' = [read EXCEPT ![c] = k + n]
         /\ Write(FullChunks(o \o SubSeq(Content(c), k + 1, k + n)))
  BY <1>1 DEF SendChunks
<1>3. Size[c] \in Nat /\ n \in Nat /\ k + n \in Nat /\ k + n <= Size[c]
  BY SizeAssumption
<1>4. Len(o) \in Nat /\ Len(o) <= k /\ Run(c, k - Len(o), o)
  BY <1>0, <1>1 DEF FlowInv, FileInv
<1>5. PICK d : d = SubSeq(Content(c), k + 1, k + n)
  OBVIOUS
<1>6. d \in Seq(Unit) /\ Len(d) = n /\ Run(c, k, d)
  <2>1. IsCut(d, Content(c), k, k + n)
    BY <1>3, <1>5, ContentIs DEF IsCut
  <2>2. d \in Seq(Unit) /\ Len(d) = k + n - k /\ Run(c, 0 + k, d)
    BY <2>1, ContentRuns, PartRuns
  <2>3. k + n - k = n /\ 0 + k = k
    BY <1>3
  <2> QED BY <2>2, <2>3
<1>7. PICK b \in Seq(Unit) : b = o \o d /\ Len(b) = Len(o) + n /\ Run(c, k - Len(o), b)
  <2>1. PICK a \in Nat : a = k - Len(o) /\ a + Len(o) = k
    BY <1>4
  <2>2. Run(c, a, o) /\ Run(c, a + Len(o), d)
    BY <1>4, <1>6, <2>1
  <2>3. o \o d \in Seq(Unit) /\ Len(o \o d) = Len(o) + Len(d) /\ Run(c, a, o \o d)
    BY <1>6, <2>2, RunGoesOn
  <2> QED BY <1>6, <2>1, <2>3
<1>8. PICK t : t = FullChunks(b)
  OBVIOUS
<1>9. t \in Seq(Msg) /\ Write(t)
  <2>1. k - Len(o) \in Nat
    BY <1>4
  <2>2. t \in Seq(Msg)
    BY <1>7, <1>8, <2>1, ChunkStream
  <2> QED BY <1>2, <1>5, <1>7, <1>8, <2>2
<1>10. /\ read \in [Files -> Nat] /\ read' \in [Files -> Nat] /\ read'[c] = k + n
       /\ \A f \in Files : read[f] <= read'[f]
  BY <1>1, <1>2, <1>3 DEF FileTypes
<1>11. ASSUME NEW j \in 1..Len(b) PROVE b[j][1] \in Files /\ b[j][2] <= read'[b[j][1]]
  <2>1. b[j] = <<c, k - Len(o) + j>>
    BY <1>7 DEF Run
  <2>2. k - Len(o) + j <= k + n
    BY <1>3, <1>4, <1>7
  <2> QED BY <1>10, <2>1, <2>2
<1>12. \A i \in 1..Len(t) : Within(read', t[i])
  BY <1>8, <1>11, ChunksWithin
<1>13. UNCHANGED pc
  BY <1>9 DEF Write
<1> QED BY <1>9, <1>10, <1>12, <1>13, WritePasses, SenderBound

\* It has produced the file: the rest of it is sent.
LEMMA SendRestBound ==
    ASSUME TaskTypes, FileTypes, FlowInv, BoundInv, SendRest PROVE BoundInv'
<1>0. pc["S"] = "sending" /\ cur # None /\ UNCHANGED read
  BY DEF SendRest
<1>1. PICK c \in Files, k \in Nat, o \in Seq(Unit) : c = cur /\ k = read[cur] /\ o = sbuf
  BY <1>0 DEF FileTypes
<1>2. Len(o) \in Nat /\ Len(o) <= k /\ Run(c, k - Len(o), o)
  BY <1>0, <1>1 DEF FlowInv, FileInv
<1>3. PICK m : m = Bin(o)
  OBVIOUS
<1>4. m \in Msg /\ m.data = o
  BY <1>3 DEF Bin, Msg
<1>5. Within(read', m)
  <2>1. ASSUME NEW i \in DOMAIN o PROVE o[i][1] \in Files /\ o[i][2] <= read'[o[i][1]]
    <3>1. i \in 1..Len(o)
      OBVIOUS
    <3>2. o[i] = <<c, k - Len(o) + i>>
      BY <1>2, <3>1 DEF Run
    <3>3. k - Len(o) + i <= k
      BY <1>2, <3>1
    <3> QED BY <1>0, <1>1, <3>2, <3>3
  <2> QED BY <1>4, <2>1 DEF Within
<1>6. PICK t \in Seq(Msg) : Write(t) /\ \A i \in 1..Len(t) : t[i] = m
  <2>1. CASE o = <<>>
    <3>1. Write(<<>>) /\ <<>> \in Seq(Msg) /\ \A i \in 1..Len(<<>>) : <<>>[i] = m
      BY <1>1, <2>1 DEF SendRest
    <3> QED BY <3>1
  <2>2. CASE o # <<>>
    <3>1. Write(<<m>>) /\ <<m>> \in Seq(Msg) /\ \A i \in 1..Len(<<m>>) : <<m>>[i] = m
      BY <1>1, <1>3, <1>4, <2>2 DEF SendRest
    <3> QED BY <3>1
  <2> QED BY <2>1, <2>2
<1>7. UNCHANGED pc
  BY <1>6 DEF Write
<1>8. read' \in [Files -> Nat] /\ \A f \in Files : read[f] <= read'[f]
  BY <1>0 DEF FileTypes
<1>9. \A i \in 1..Len(t) : Within(read', t[i])
  BY <1>5, <1>6
<1> QED BY <1>6, <1>7, <1>8, <1>9, WritePasses, SenderBound

\* A text has no content.
LEMMA TextBound ==
    ASSUME TaskTypes, FileTypes, BoundInv, pc'["R"] = pc["R"], UNCHANGED read,
           NEW msgs \in Seq(Msg), NEW n, NEW nexts, Passed("S", n, msgs, nexts),
           \A i \in 1..Len(msgs) : msgs[i].k # "bin"
    PROVE  BoundInv'
<1>1. read' \in [Files -> Nat] /\ \A f \in Files : read[f] <= read'[f]
  BY DEF FileTypes
<1>2. \A i \in 1..Len(msgs) : Within(read', msgs[i])
  BY DEF Within
<1> QED BY <1>1, <1>2, SenderBound

\* A sender that has not sent its list.
LEMMA EarlyBound == ASSUME TaskTypes, FlowInv, SenderEarly PROVE BoundInv'
<1>1. Unlisted
  BY DEF SenderEarly, SendNonce, SendToken, HandleTokenResponse, HandlePinReceivingResponse, VerifyPin,
     EnterPin, DropPinRequest, Receives, Unlisted
<1>2. pc["R"] # "files"
  BY <1>1 DEF FlowInv, PhaseInv
<1>3. pc'["R"] = pc["R"]
  BY ReceiverStays DEF SenderEarly, SendTask, PinTask
<1> QED BY <1>2, <1>3 DEF BoundInv

\* A sender that waits for an answer.
LEMMA WaitBound ==
    ASSUME TaskTypes, FileTypes, BoundInv, ReceiveChunk("S") \/ HandleFileListResponse \/ AwaitStatus
    PROVE  BoundInv'
<1>0. <<>> \in Seq(Msg) /\ \A i \in 1..Len(<<>>) : <<>>[i].k # "bin"
  OBVIOUS
<1>1. UNCHANGED read /\ pc'["R"] = pc["R"]
  <2>1. UNCHANGED read
    BY DEF ReceiveChunk, HandleFileListResponse, AwaitStatus, sender
  <2> QED BY <2>1, ReceiverStays DEF SendTask, PinTask
<1>2. PICK nexts, n : Passed("S", n, <<>>, nexts)
  <2>1. \A why : Fail("S", <<>>, {}, why) => Passed("S", 0, <<>>, {"dead"})
    BY <1>0, TwoPeers, FailPasses
  <2>2. \A sts : Complete("S", <<>>, sts) => Passed("S", 0, <<>>, {"dead"})
    BY <1>0, TwoPeers, CompletePasses
  <2>3. \A next : Proceed("S", 1, <<>>, {}, next) => Passed("S", 1, <<>>, {next, "dead"})
    BY <1>0, TwoPeers, ProceedPasses
  <2>4. CASE ReceiveChunk("S")
    BY <2>3, <2>4 DEF ReceiveChunk
  <2>5. CASE HandleFileListResponse
    BY <2>1, <2>2, <2>3, <2>5 DEF HandleFileListResponse
  <2>6. CASE AwaitStatus
    BY <2>2, <2>6 DEF AwaitStatus
  <2> QED BY <2>4, <2>5, <2>6
<1> QED BY <1>0, <1>1, <1>2, TextBound

\* It sends a header or the last delimiter.
LEMMA HeaderBound == ASSUME TaskTypes, FileTypes, BoundInv, SendHeader \/ SendEnd PROVE BoundInv'
<1>0. UNCHANGED read /\ pc'["R"] = pc["R"]
  <2>1. UNCHANGED read
    BY DEF SendHeader, SendEnd, sender
  <2> QED BY <2>1, ReceiverStays DEF SendTask
<1>1. \E n, nexts : \E t \in Seq(Msg) : Passed("S", n, t, nexts) /\ \A i \in 1..Len(t) : t[i].k # "bin"
  <2>1. CASE SendEnd
    <3>1. Delimiter \in Msg /\ Delimiter.k = "delimiter"
      BY TwoPeers, DelimiterTo, ChunkData
    <3>2. PICK t \in Seq(Msg) : t = <<Delimiter>> /\ Len(t) = 1 /\ t[1] = Delimiter
      BY <3>1, Single
    <3>3. Proceed("S", 0, t, {}, "status")
      BY <2>1, <3>2 DEF SendEnd
    <3>4. Passed("S", 0, t, {"status", "dead"})
      BY <3>3, TwoPeers, ProceedPasses
    <3>5. \A i \in 1..Len(t) : t[i].k # "bin"
      BY <3>1, <3>2
    <3> QED BY <3>4, <3>5
  <2>2. CASE SendHeader
    <3>1. PICK f \in Files : Write(<<Text("header", f)>>) \/ UNCHANGED control
      BY <2>2 DEF SendHeader
    <3>2. CASE Write(<<Text("header", f)>>)
      <4>1. PICK m : m = Text("header", f)
        OBVIOUS
      <4>2. m \in Msg /\ m.k = "header"
        BY <4>1 DEF Text, Msg
      <4>3. PICK t \in Seq(Msg) : t = <<m>> /\ Len(t) = 1 /\ t[1] = m
        BY <4>2, Single
      <4>4. Passed("S", 0, t, {pc["S"]})
        BY <3>2, <4>1, <4>3, WritePasses
      <4>5. \A i \in 1..Len(t) : t[i].k # "bin"
        BY <4>2, <4>3
      <4> QED BY <4>4, <4>5
    <3>3. CASE UNCHANGED control
      <4>1. Passed("S", 0, <<>>, {pc["S"]}) /\ <<>> \in Seq(Msg) /\ \A i \in 1..Len(<<>>) : <<>>[i].k # "bin"
        BY <3>3, NothingPasses
      <4> QED BY <4>1
    <3> QED BY <3>1, <3>2, <3>3
  <2> QED BY <2>1, <2>2
<1> QED BY <1>0, <1>1, TextBound

\* The receiver makes its selection: nothing is on its way to it.
LEMMA SelectBound == ASSUME TaskTypes, FlowInv, Select PROVE BoundInv'
<1>0. pc["R"] = "select" /\ q["R"] = <<>>
  BY DEF Select, FlowInv, PhaseInv
<1>2. PICK fs \in Selections : Proceed("R", 0, InChunks(Str("ok", fs)), {}, "files")
  BY DEF Select
<1>3. q'["R"] = <<>> \/ pc'["R"] = "dead"
  <2>1. PICK msgs : msgs = InChunks(Str("ok", fs))
    OBVIOUS
  <2>2. Str("ok", fs) \in Strings
    BY SelectionsAssumption DEF Strings
  <2>3. msgs \in Seq(Msg)
    BY <2>1, <2>2, ChunksAre
  <2>4. PICK nexts : Passed("R", 0, msgs, nexts)
    BY <1>2, <2>1, <2>3, TwoPeers, ProceedPasses
  <2>5. pc'["R"] = "dead" \/ q'["R"] = Left("R", 0)
    BY <2>4 DEF Passed, Left
  <2> QED BY <1>0, <2>5, TwoPeers, LeftIs
<1> QED BY <1>3 DEF BoundInv

\* The receiver takes a message.
LEMMA TakeBound ==
    ASSUME TaskTypes, FileTypes, BoundInv, ReceiveHeader \/ ReceiveBinary PROVE BoundInv'
<1>0. UNCHANGED read /\ pc["R"] = "files"
  BY DEF ReceiveHeader, ReceiveBinary, Ended, Receives, sender
<1>9. <<>> \in Seq(Msg)
  OBVIOUS
<1>1. PICK msgs, n, nexts : msgs \in Seq(Msg) /\ Passed("R", n, msgs, nexts)
  <2>1. CASE ReceiveHeader
    <3>1. PICK ok \in BOOLEAN :
             /\ AnswerOpen(ok)
             /\ Proceed("R", 1, IF open = None THEN <<>> ELSE Result(open, ok), {}, "files")
      BY <2>1 DEF ReceiveHeader
    <3>2. PICK msgs : msgs = IF open = None THEN <<>> ELSE Result(open, ok)
      OBVIOUS
    <3>3. msgs = <<>> \/ (open # None /\ msgs = Result(open, ok))
      BY <3>2
    <3>4. msgs \in Seq(Msg)
      BY <3>1, <3>3, ResultIs
    <3> QED BY <3>1, <3>2, <3>4, TwoPeers, ProceedPasses
  <2>2. CASE ReceiveBinary
    <3>1. Proceed("R", 1, <<>>, {}, "files") \/ Fail("R", <<>>, {}, "app")
      BY <2>2 DEF ReceiveBinary
    <3>2. Passed("R", 1, <<>>, {"files", "dead"}) \/ Passed("R", 1, <<>>, {"dead"})
      BY <1>9, <3>1, TwoPeers, ProceedPasses, FailPasses
    <3> QED BY <1>9, <3>2
  <2> QED BY <2>1, <2>2
<1>2. q'["R"] \in Seq(Msg) /\ From(q'["R"], q["R"])
  BY <1>1, TwoPeers DEF Passed
<1> QED BY <1>0, <1>2, LessBound

\* The connection is lost.
LEMMA LostBound == ASSUME TaskTypes, FileTypes, BoundInv, NEW p \in Peers, Disconnect(p) PROVE BoundInv'
<1>1. UNCHANGED <<read, pc>>
  BY DEF Disconnect, sender
<1>2. q'["R"] \in Seq(Msg) /\ IsFirst(q'["R"], q["R"])
  BY TwoPeers, LostParts
<1>3. From(q'["R"], q["R"])
  <2>1. PICK s \in Seq(Msg), t \in Seq(Msg) : s = q["R"] /\ t = q'["R"] /\ IsFirst(t, s)
    BY <1>2, TwoPeers DEF TaskTypes
  <2>2. ASSUME NEW i \in DOMAIN t PROVE i \in DOMAIN s /\ t[i] = s[i]
    BY <2>1 DEF IsFirst
  <2> QED BY <2>1, <2>2 DEF From
<1> QED BY <1>1, <1>2, <1>3, LessBound

\* Every step keeps the second invariant.
LEMMA StepBound == ASSUME AllInv, FlowInv, BoundInv, [Next]_vars PROVE BoundInv'
<1>0. TaskTypes /\ FileTypes
  BY DEF AllInv
<1>1. CASE SendTask \/ PinTask("S")
  BY <1>0, <1>1, EarlyBound, WaitBound, HeaderBound, SendChunksBound, SendRestBound
     DEF SendTask, PinTask, SenderEarly
<1>2. CASE ReceiveTask \/ PinTask("R")
  <2>1. CASE ReceiverElsewhere
    BY <1>0, <2>1, ElsewhereGoes DEF BoundInv
  <2> QED BY <1>0, <1>2, <2>1, SelectBound, TakeBound DEF ReceiveTask, ReceiverElsewhere
<1>3. ASSUME NEW p \in Peers, Disconnect(p) PROVE BoundInv'
  BY <1>0, <1>3, LostBound
<1>4. CASE UNCHANGED vars
  BY <1>4 DEF BoundInv, Within, vars, control, sender
<1> QED BY <1>1, <1>2, <1>3, <1>4 DEF Next, Peers

----------------------------------------------------------------------------
(* The steps of the transfer that the two users see *)

\* A step that they see, or do not.
Seen == Transfer!TransferNext \/ UNCHANGED Transfer!transferVars

\* Locks change when a PIN is typed, the required keys never.
LEMMA LocksStay ==
    ASSUME UNCHANGED <<pin, expect, typed>> PROVE Locked' = Locked /\ KeysRight' = KeysRight
  BY DEF Locked, KeysRight, Unlocked

\* A PIN is typed: it may be the right one.
LEMMA EnterPinSeen == ASSUME TaskTypes, NEW p \in Peers, EnterPin(p), Listed' = Listed PROVE Seen
<1>1. PICK g \in Guesses : typed' = [typed EXCEPT ![p] = typed[p] \cup {g}]
  BY DEF EnterPin
<1>2. UNCHANGED <<pin, expect, selected, given, fileMap, cur, read, got, answer>>
  BY DEF EnterPin, config, sender, receiver
<1>3. KeysRight' = KeysRight /\ Accepted' = Accepted
  BY <1>2 DEF KeysRight, Accepted
<1>4. PICK o \in Peers : o = Other(p) /\ Other(o) = p /\ \A r \in Peers : r # o => Other(r) # p
  BY DEF Peers, Other
<1>5. \A r \in Peers : r # o => (Unlocked(r)' <=> Unlocked(r))
  <2>1. \A r \in Peers : r # o => Other(r) \in Peers /\ Other(r) # p
    BY <1>4, PeersAre
  <2>2. \A r \in Peers : r # o => typed'[Other(r)] = typed[Other(r)]
    BY <1>1, <2>1 DEF TaskTypes
  <2> QED BY <1>2, <2>2 DEF Unlocked
<1>6. Unlocked(o) => Unlocked(o)'
  BY <1>1, <1>2, <1>4 DEF Unlocked, TaskTypes
<1>7. CASE Unlocked(o)'
  <2>1. Locked' = Locked \ {o}
    BY <1>4, <1>5, <1>7 DEF Locked
  <2>2. Transfer!Unlock(o)
    BY <1>2, <1>3, <2>1 DEF Transfer!Unlock
  <2> QED BY <2>2 DEF Seen, Transfer!TransferNext
<1>8. CASE ~Unlocked(o)'
  <2>1. Locked' = Locked
    BY <1>4, <1>5, <1>6, <1>8 DEF Locked
  <2> QED BY <1>2, <1>3, <2>1 DEF Seen, Transfer!transferVars
<1> QED BY <1>7, <1>8

\* The list is shown: every PIN has been typed by then, and the keys are right.
LEMMA ListSeen == ASSUME TaskTypes, GateInv, HandlePinSendingResponse PROVE Seen
<1>1. UNCHANGED <<pin, expect, typed, selected, given, fileMap, cur, read, got, answer>>
  BY DEF HandlePinSendingResponse, config, pins, sender, receiver
<1>2. Locked' = Locked /\ KeysRight' = KeysRight /\ Accepted' = Accepted
  BY <1>1, LocksStay DEF Accepted
<1>3. CASE Listed' = Listed
  BY <1>1, <1>2, <1>3 DEF Seen, Transfer!transferVars
<1>4. CASE Listed' = TRUE /\ Parses(buf["R"], "list")
  <2>1. AllOpen
    BY <1>4, ListOpens
  <2>2. Locked = {} /\ KeysRight
    BY <2>1 DEF AllOpen, KeyOk, Locked, KeysRight, Peers
  <2>3. Transfer!ShowList
    BY <1>1, <1>2, <1>4, <2>2 DEF Transfer!ShowList
  <2> QED BY <2>3 DEF Seen, Transfer!TransferNext
<1> QED BY <1>3, <1>4, ListIsShown

\* The receiver's user selects files.
LEMMA SelectSeen == ASSUME FlowInv, ViewInv, Select, Listed' = Listed PROVE Seen
<1>1. UNCHANGED <<pin, expect, typed, given, fileMap, cur, read, got, answer>>
  BY DEF Select, config, pins, sender
<1>2. Locked' = Locked /\ KeysRight' = KeysRight /\ Accepted' = Accepted
  BY <1>1, LocksStay DEF Accepted
<1>3. pc["R"] = "select" /\ selected' \in Selections
  BY DEF Select
<1>4. Listed /\ selected = {} /\ Accepted = {}
  BY <1>3 DEF ViewInv, FlowInv, PhaseInv, Unchosen, Accepted
<1>5. Transfer!Choose
  BY <1>1, <1>2, <1>3, <1>4 DEF Transfer!Choose
<1> QED BY <1>5 DEF Seen, Transfer!TransferNext

\* The sender is given a file: it has a token for it, or skips it.
LEMMA HeaderSeen == ASSUME FileTypes, FlowInv, SendHeader, Listed' = Listed PROVE Seen
<1>1. UNCHANGED <<pin, expect, typed, selected, fileMap, read, got, answer>>
  BY DEF SendHeader, config, pins, receiver
<1>2. Locked' = Locked /\ KeysRight' = KeysRight
  BY <1>1, LocksStay
<1>3. PICK f \in Files \ given :
         /\ given' = given \cup {f}
         /\ (HasToken(f) /\ cur' = f) \/ cur' = cur
  BY DEF SendHeader
<1>4. cur = None
  BY DEF SendHeader
<1>5. CASE HasToken(f)
  <2>1. f \in selected \ Accepted /\ Accepted' = Accepted \cup {f}
    BY <1>1, <1>3, <1>5 DEF HasToken, Accepted, FlowInv, FileInv
  <2>2. cur' \in {f, None}
    BY <1>3, <1>4
  <2>3. Transfer!HandOver(f)
    BY <1>1, <1>2, <1>4, <2>1, <2>2 DEF Transfer!HandOver
  <2> QED BY <1>3, <2>3 DEF Seen, Transfer!TransferNext
<1>6. CASE ~HasToken(f)
  <2>1. Accepted' = Accepted /\ cur' = cur
    BY <1>1, <1>3, <1>6 DEF HasToken, Accepted
  <2> QED BY <1>1, <1>2, <2>1 DEF Seen, Transfer!transferVars
<1> QED BY <1>5, <1>6

\* Its app produces some units.
LEMMA ChunksSeen == ASSUME FileTypes, FlowInv, ViewInv, SendChunks, Listed' = Listed PROVE Seen
<1>1. UNCHANGED <<pin, expect, typed, selected, given, fileMap, got, answer>>
  BY DEF SendChunks, config, pins, receiver
<1>2. Locked' = Locked /\ KeysRight' = KeysRight /\ Accepted' = Accepted
  BY <1>1, LocksStay DEF Accepted
<1>3. PICK c \in Files, k \in Nat : c = cur /\ k = read[cur]
  BY DEF SendChunks, FileTypes
<1>4. PICK i \in 1 .. (Size[c] - k) :
         read' = [read EXCEPT ![c] = k + i] /\ cur' \in {cur, None}
  BY <1>3 DEF SendChunks
<1>5. Size[c] \in Nat
  BY SizeAssumption
<1>6. PICK n \in 0..Size[c] : n = k + i /\ n > read[c]
  BY <1>3, <1>4, <1>5
<1>7. c \in Accepted /\ cur' \in {c, None} /\ read' = [read EXCEPT ![c] = n]
  <2>1. c # None
    BY <1>3 DEF SendChunks
  <2> QED BY <1>3, <1>4, <1>6, <2>1 DEF FlowInv, FileInv, ViewInv, Accepted
<1>8. Transfer!Produce(c, n)
  BY <1>1, <1>2, <1>3, <1>6, <1>7 DEF Transfer!Produce
<1> QED BY <1>6, <1>8 DEF Seen, Transfer!TransferNext

\* It has produced the file.
LEMMA RestSeen == ASSUME SendRest, Listed' = Listed PROVE Seen
<1>1. UNCHANGED <<pin, expect, typed, selected, given, fileMap, read, got, answer>> /\ cur' = None
  BY DEF SendRest, config, pins, receiver
<1>2. Locked' = Locked /\ KeysRight' = KeysRight /\ Accepted' = Accepted
  BY <1>1, LocksStay DEF Accepted
<1>3. Transfer!PutAway
  BY <1>1, <1>2 DEF Transfer!PutAway
<1> QED BY <1>3 DEF Seen, Transfer!TransferNext

\* A text ends the open file: its result is given once, when all has arrived.
LEMMA EndSeen ==
    ASSUME FileTypes, FlowInv, FlowInv', ReceiveEnd \/ ReceiveHeader \/ ReceiveBadHeader, Listed' = Listed
    PROVE  Seen
<1>1. UNCHANGED <<pin, expect, typed, selected, given, fileMap, cur, read, got>>
  BY DEF ReceiveEnd, ReceiveHeader, ReceiveBadHeader, config, pins, sender
<1>2. Locked' = Locked /\ KeysRight' = KeysRight /\ Accepted' = Accepted
  BY <1>1, LocksStay DEF Accepted
<1>3. PICK ok \in BOOLEAN : AnswerOpen(ok)
  BY DEF ReceiveEnd, ReceiveHeader, ReceiveBadHeader
<1>4. CASE open = None
  <2>1. answer' = answer
    BY <1>3, <1>4, NoneAssumption DEF AnswerOpen, FileTypes
  <2> QED BY <1>1, <1>2, <2>1 DEF Seen, Transfer!transferVars
<1>5. CASE open # None
  <2>1. PICK o \in Files : o = open
    BY <1>5 DEF FileTypes
  <2>2. PICK r \in {"success", "failure"} : answer' = [answer EXCEPT ![o] = r]
    <3>1. PICK r \in {"success", "failure"} : r = IF ok THEN "success" ELSE "failure"
      OBVIOUS
    <3>2. answer' = [answer EXCEPT ![o] = r]
      BY <1>3, <2>1, <3>1 DEF AnswerOpen, FileTypes
    <3> QED BY <3>2
  <2>3. o \in Accepted /\ answer[o] = "none"
    <3>1. o \in given \cap fileMap /\ ~(answer[o] # "none")
      BY <1>5, <2>1 DEF FlowInv, FileInv
    <3> QED BY <3>1 DEF Accepted
  <2>4. o # cur /\ Len(got[o]) = read[o]
    <3>1. answer'[o] # "none"
      BY <2>1, <2>2 DEF FileTypes
    <3>2. o # cur' /\ Len(got'[o]) = read'[o]
      BY <2>1, <3>1 DEF FlowInv, FileInv
    <3> QED BY <1>1, <3>2
  <2>5. Transfer!Report(o, r)
    BY <1>1, <1>2, <2>2, <2>3, <2>4 DEF Transfer!Report
  <2> QED BY <2>5 DEF Seen, Transfer!TransferNext
<1> QED BY <1>4, <1>5

\* What is the beginning of a file.
LEMMA IsBeginning ==
    ASSUME NEW f \in Files, NEW n \in Nat, NEW c \in Seq(Unit), Len(c) = n, Run(f, 0, c)
    PROVE  c = Transfer!Beginning(f, n)
<1>1. PICK t : t = [i \in 1..n |-> <<f, i>>]
  OBVIOUS
<1>2. \A i \in 1..n : <<f, i>> \in Unit
  BY DEF Unit
<1>3. t \in Seq(Unit)
  BY <1>1, <1>2, IsASeq
<1>4. Len(t) = n /\ \A i \in 1..n : t[i] = <<f, i>>
  BY <1>1
<1>5. \A i \in 1..Len(c) : c[i] = t[i]
  <2> SUFFICES ASSUME NEW i \in 1..n PROVE c[i] = t[i]
    OBVIOUS
  <2>1. c[i] = <<f, 0 + i>> /\ 0 + i = i
    BY DEF Run
  <2> QED BY <1>4, <2>1
<1>6. c = t
  BY <1>3, <1>4, <1>5, SeqEqual
<1> QED BY <1>1, <1>6 DEF Transfer!Beginning

\* Binary data goes to the app: no more than the sender's app has produced.
LEMMA BinarySeen ==
    ASSUME TaskTypes, FileTypes, FlowInv, BoundInv, ReceiveBinary, Listed' = Listed PROVE Seen
<1>0. UNCHANGED <<pin, expect, typed, selected, given, fileMap, cur, read, answer>>
  BY DEF ReceiveBinary, config, pins, sender
<1>1. Locked' = Locked /\ KeysRight' = KeysRight /\ Accepted' = Accepted
  BY <1>0, LocksStay DEF Accepted
<1>2. PICK m : m = Arrived("R")
  OBVIOUS
<1>3. /\ pc["R"] = "files" /\ q["R"] # <<>> /\ m = q["R"][1] /\ m.k = "bin" /\ 1 \in 1..Len(q["R"])
  BY <1>2, TwoPeers DEF ReceiveBinary, Receives, IsString, Arrived, TaskTypes
<1>4. m \in Msg /\ Follows(Received, m)
  BY <1>3, HeadOfStream
<1>5. PICK d \in Seq(Unit) : d = m.data
  BY <1>3, <1>4, MsgIs
<1>6. Received[1] \in Files /\ d # <<>> /\ Run(Received[1], Received[2], d)
  BY <1>3, <1>4, <1>5 DEF Follows
<1>7. PICK o \in Files : o = open
  <2>1. Nowhere[1] = None
    BY DEF Nowhere
  <2>2. open # None
    BY <1>6, <2>1, NoneAssumption DEF Received
  <2> QED BY <2>2 DEF FileTypes
<1>8. PICK b \in Seq(Unit), k \in Nat : b = got[o] /\ k = Len(b)
  BY DEF FlowInv, FileInv
<1>9. Run(o, k, d) /\ o # None
  <2>1. PICK P : P = <<o, k>>
    OBVIOUS
  <2>2. P[1] = o /\ P[2] = k
    BY <2>1
  <2>3. Received = P /\ o # None
    BY <1>7, <1>8, <2>1, NoneAssumption DEF Received
  <2> QED BY <1>6, <2>2, <2>3
<1>10. CASE UNCHANGED got
  BY <1>0, <1>1, <1>10 DEF Seen, Transfer!transferVars
<1>11. CASE got' = [got EXCEPT ![open] = got[open] \o m.data]
  <2>1. got' = [got EXCEPT ![o] = b \o d]
    BY <1>5, <1>7, <1>8, <1>11
  <2>2. b \o d \in Seq(Unit) /\ Len(b \o d) = k + Len(d) /\ Run(o, 0, b \o d)
    <3>1. Run(o, 0, b) /\ Run(o, 0 + Len(b), d) /\ 0 \in Nat
      <4>1. 0 + Len(b) = k
        BY <1>8
      <4> QED BY <1>8, <1>9, <4>1 DEF FlowInv, FileInv
    <3> QED BY <1>8, <3>1, RunGoesOn
  <2>3. PICK n \in 0..Size[o] : n = k + Len(d) /\ Len(got[o]) < n
    <3>1. Len(d) \in Nat \ {0} /\ Size[o] \in Nat /\ k + Len(d) <= Size[o]
      BY <1>6, <1>9, SizeAssumption DEF Run
    <3> QED BY <1>8, <3>1
  <2>4. n <= read[o]
    <3>1. Len(d) \in 1..Len(d)
      BY <1>6
    <3>2. d[Len(d)] = <<o, n>>
      BY <1>9, <2>3, <3>1 DEF Run
    <3>3. Within(read, m)
      BY <1>3 DEF BoundInv
    <3>4. Len(d) \in DOMAIN d
      BY <3>1
    <3>5. d[Len(d)][2] <= read[d[Len(d)][1]]
      BY <1>3, <1>5, <3>3, <3>4 DEF Within
    <3> QED BY <3>2, <3>5
  <2>5. got' = [got EXCEPT ![o] = Transfer!Beginning(o, n)]
    <3>1. b \o d = Transfer!Beginning(o, n)
      <4>1. PICK c \in Seq(Unit) : c = b \o d
        BY <2>2
      <4>2. Len(c) = n /\ Run(o, 0, c) /\ n \in Nat
        BY <2>2, <2>3, <4>1
      <4>3. c = Transfer!Beginning(o, n)
        BY <4>2, IsBeginning
      <4> QED BY <4>1, <4>3
    <3> QED BY <2>1, <3>1
  <2>6. o \in Accepted /\ answer[o] = "none"
    <3>1. o \in given \cap fileMap /\ ~(answer[o] # "none")
      BY <1>7, <1>9 DEF FlowInv, FileInv
    <3> QED BY <3>1 DEF Accepted
  <2>7. Transfer!Deliver(o, n)
    BY <1>0, <1>1, <2>3, <2>4, <2>5, <2>6 DEF Transfer!Deliver
  <2> QED BY <2>3, <2>7 DEF Seen, Transfer!TransferNext
<1> QED BY <1>2, <1>10, <1>11 DEF ReceiveBinary

\* The answer to the list: nothing has been given to the sender yet.
LEMMA ResponseSeen == ASSUME FlowInv, HandleFileListResponse, Listed' = Listed PROVE Seen
<1>1. pc["S"] = "selection"
  BY DEF HandleFileListResponse, Ended, Receives
<1>2. UNCHANGED <<pin, expect, typed, selected, given, cur, read, got, answer>>
  BY DEF HandleFileListResponse, config, pins, receiver
<1>3. given = {}
  BY <1>1 DEF FlowInv, PhaseInv
<1>4. Accepted' = Accepted
  BY <1>2, <1>3 DEF Accepted
<1> QED BY <1>2, <1>4, LocksStay DEF Seen, Transfer!transferVars

\* The users do not see how nonces, tokens and answers are exchanged, nor how a
\* task or a connection ends.
LEMMA OthersUnseen ==
    ASSUME \/ SendNonce \/ SendToken \/ HandleTokenResponse \/ HandlePinReceivingResponse \/ SendEnd
           \/ AwaitStatus \/ ReceiveNonce \/ HandleTokenRequest \/ Decline \/ DropSelection
           \/ \E p \in Peers : ReceiveChunk(p) \/ VerifyPin(p) \/ DropPinRequest(p) \/ Disconnect(p)
           \/ UNCHANGED vars,
           Listed' = Listed
    PROVE  Seen
<1>1. UNCHANGED <<pin, expect, typed, sender, receiver>>
  BY DEF SendNonce, SendToken, HandleTokenResponse, HandlePinReceivingResponse, SendEnd, AwaitStatus,
     ReceiveNonce, HandleTokenRequest, Decline, DropSelection, ReceiveChunk, VerifyPin, DropPinRequest,
     Disconnect, vars, config, pins
<1>2. Accepted' = Accepted
  BY <1>1 DEF Accepted, sender
<1> QED BY <1>1, <1>2, LocksStay DEF Seen, Transfer!transferVars, sender, receiver

\* Every step is one that the users see or do not.
LEMMA StepSeen == ASSUME AllInv, FlowInv, ViewInv, BoundInv, [Next]_vars PROVE Seen
<1>0. TaskTypes /\ FileTypes /\ GateInv /\ FlowInv'
  BY StepFlow DEF AllInv
<1>1. CASE SendTask \/ PinTask("S")
  <2>1. Listed' = Listed
    BY <1>0, <1>1, SenderShowsNothing
  <2>2. CASE SendTask
    BY <1>0, <2>1, <2>2, ResponseSeen, HeaderSeen, ChunksSeen, RestSeen, OthersUnseen DEF SendTask
  <2>3. CASE PinTask("S")
    BY <1>0, <2>1, <2>3, TwoPeers, EnterPinSeen, OthersUnseen DEF PinTask
  <2> QED BY <1>1, <2>2, <2>3
<1>2. CASE ReceiveTask \/ PinTask("R")
  <2>1. CASE HandlePinSendingResponse
    BY <1>0, <2>1, ListSeen
  <2>2. CASE ~HandlePinSendingResponse
    <3>1. Listed' = Listed
      BY <1>0, <1>2, <2>2, ReceiverShowsNothing
    <3>2. CASE ReceiveTask
      BY <1>0, <2>2, <3>1, <3>2, SelectSeen, EndSeen, BinarySeen, OthersUnseen DEF ReceiveTask
    <3>3. CASE PinTask("R")
      BY <1>0, <3>1, <3>3, TwoPeers, EnterPinSeen, OthersUnseen DEF PinTask
    <3> QED BY <1>2, <3>2, <3>3
  <2> QED BY <2>1, <2>2
<1>3. ASSUME NEW p \in Peers, Disconnect(p) PROVE Seen
  BY <1>0, <1>3, DisconnectShowsNothing, OthersUnseen
<1>4. CASE UNCHANGED vars
  <2>1. Listed' = Listed
    BY <1>4 DEF vars, control, Listed
  <2> QED BY <1>4, <2>1, OthersUnseen
<1> QED BY <1>1, <1>2, <1>3, <1>4 DEF Next, Peers

\* The two invariants hold.
LEMMA ViewInvariance == Spec => [](ViewInv /\ BoundInv)
<1>1. Init => ViewInv /\ BoundInv
  BY TwoPeers DEF Init, ViewInv, BoundInv
<1>2. AllInv /\ FlowInv /\ (ViewInv /\ BoundInv) /\ [Next]_vars => (ViewInv /\ BoundInv)'
  BY StepView, StepBound
<1> QED BY <1>1, <1>2, Invariance, FlowInvariance, PTL DEF Spec

\* The transfer over the data channel does what a transfer promises its users:
\* whatever is lost, cut into chunks or given up, every step of the two peers is
\* one that FileTransfer allows or that leaves everything it speaks of unchanged.
THEOREM TransferImplemented == Spec => ImplementsTransfer
<1>1. Init => Transfer!TransferInit
  <2> SUFFICES ASSUME Init PROVE Transfer!TransferInit
    OBVIOUS
  <2>1. Locked \subseteq Peers /\ KeysRight \in BOOLEAN /\ Accepted = {}
    BY DEF Init, Locked, KeysRight, Accepted
  <2>2. Listed = FALSE
    BY TwoPeers DEF Init, Listed
  <2> QED BY <2>1, <2>2 DEF Init, Transfer!TransferInit
<1>2. AllInv /\ FlowInv /\ (ViewInv /\ BoundInv) /\ [Next]_vars => [Transfer!TransferNext]_(Transfer!transferVars)
  BY StepSeen DEF Seen
<1> QED BY <1>1, <1>2, Invariance, FlowInvariance, ViewInvariance, PTL
    DEF Spec, ImplementsTransfer, Transfer!TransferSpec
=============================================================================
