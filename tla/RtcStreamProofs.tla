-------------------------- MODULE RtcStreamProofs --------------------------
(***************************************************************************)
(* The stream of files of a transfer: what the receiver passes to its app  *)
(* is what the sender's app produced, for any files and sizes of chunks,   *)
(* although the messages with the content name no file, whatever the apps  *)
(* do and whenever the connection is lost; and the status that the sender  *)
(* waits for is the receiver's result of a file.                           *)
(***************************************************************************)
EXTENDS RtcTransferProofs, FiniteSetTheorems

----------------------------------------------------------------------------
(* The invariants *)

\* The sender has not sent its file list, the receiver has not seen it, the
\* receiver's user has not chosen from it.
Unlisted == pc["S"] \notin {"selection", "sending", "status", "dead"}
Unseen == pc["R"] \notin {"select", "files", "dead"}
Unchosen == pc["R"] \notin {"files", "dead"}

\* How far the two tasks can be apart.
PhaseInv ==
    /\ pc["S"] \in {"sending", "status"} => ~Unchosen
    /\ pc["R"] \in {"select", "files"} => ~Unlisted
    /\ Unchosen \/ pc["S"] \notin {"sending", "status", "dead"} => given = {} /\ fileMap = {}
    /\ Unchosen => selected = {}
    /\ pc["R"] = "select" \/ (pc["R"] = "files" /\ pc["S"] = "selection") => q["R"] = <<>>
    /\ pc["R"] \notin {"list", "pinRes", "dead"} => buf["R"] = <<>>

\* The unit u is a part of a string of kind k; one of the units of d is.
IsPart(k, u) == u[1] \in Strings /\ u[1].k = k
HasPart(k, d) == \E i \in DOMAIN d : IsPart(k, d[i])

\* Parts of an answer that are around tell what was selected.
OkParts(d) ==
    \A i \in DOMAIN d : IsPart("ok", d[i]) => ~Unchosen /\ d[i][1].files \subseteq selected

\* A text that ends a string of kind k ends everything; b was received before s.
Ends(k, d) == d # <<>> /\ IsPart(k, d[Len(d)])
TextLast(k, b, s) ==
    \A i \in 1..Len(s) :
        IsString(s[i]) /\ Ends(k, IF i = 1 THEN b ELSE s[i - 1].data) => i = Len(s)

NoPart(k, s) == \A i \in 1..Len(s) : ~HasPart(k, s[i].data)
NoEmpty(s) == \A i \in 1..Len(s) : ~IsString(s[i]) => s[i].data # <<>>

StringInv ==
    /\ OkParts(buf["S"]) /\ \A i \in DOMAIN q["S"] : OkParts(q["S"][i].data)
    /\ Unlisted => ~HasPart("list", buf["R"]) /\ NoPart("list", q["R"])
    /\ Unseen => TextLast("list", buf["R"], q["R"])
    /\ NoEmpty(q["R"])

\* d is the content of f behind its first n units.
Run(f, n, d) == n + Len(d) <= Size[f] /\ \A j \in 1..Len(d) : d[j] = <<f, n + j>>

\* What the loops of the two peers know of the files.
FileInv ==
    /\ fileMap \subseteq selected
    /\ cur # None => cur \in given
    /\ open # None => open \in given \cap fileMap
    /\ \A f \in Files \ given : read[f] = 0
    /\ cur = None => sbuf = <<>>
    /\ cur # None => Len(sbuf) <= read[cur] /\ Run(cur, read[cur] - Len(sbuf), sbuf)
    /\ got \in [Files -> Seq(Unit)]
    /\ \A f \in Files :
          /\ Run(f, 0, got[f])
          /\ got[f] # <<>> => f \in given \cap selected
          /\ answer[f] # "none" => f \in given \cap fileMap /\ f # cur /\ f # open /\ Len(got[f]) = read[f]
    /\ fileErrors = {}

\* A place in the stream: behind so many units of a file.  A message leads from a
\* place to the next one.
Nowhere == <<None, 0>>
After(m) ==
    IF m.k = "bin" THEN m.data[Len(m.data)] ELSE IF m.k = "header" THEN <<m.v, 0>> ELSE Nowhere
At(P, s, i) == IF i = 1 THEN P ELSE After(s[i - 1])
Received == IF open = None THEN Nowhere ELSE <<open, Len(got[open])>>

\* All that will be sent of a file.
Settled(P) == P[1] # None => P[1] \in given /\ P[1] # cur /\ P[2] = read[P[1]]

\* The content of a file goes on; a text comes when a file is settled.
Follows(P, m) ==
    IF m.k = "bin" THEN P[1] \in Files /\ m.data # <<>> /\ Run(P[1], P[2], m.data) ELSE Settled(P)
Chain(P, s) == \A i \in 1..Len(s) : Follows(At(P, s, i), s[i])

\* A header opens a file that is not known to the receiver's app, and only once.
Fresh(f) == f \in given \cap fileMap /\ got[f] = <<>> /\ answer[f] = "none" /\ f # open
Headers(s) ==
    /\ \A i \in 1..Len(s) : s[i].k = "header" => Fresh(s[i].v)
    /\ \A i, j \in 1..Len(s) : s[i].k = "header" /\ s[j].k = "header" /\ s[i].v = s[j].v => i = j

\* Where the sender goes on.
Live == Running("S") /\ Running("R")
SendingAt(P) ==
    Live /\ pc["S"] = "sending" =>
        /\ cur = None => Settled(P)
        /\ cur # None => P = <<cur, read[cur] - Len(sbuf)>>

StreamInv ==
    pc["R"] = "files" =>
        /\ Chain(Received, q["R"]) /\ Headers(q["R"])
        /\ SendingAt(At(Received, q["R"], Len(q["R"]) + 1))

\* What is on its way to the sender: before the file loop nothing follows the answer
\* to the list, in it there are only results, and a result was given.
IsResult(m) == m.k \in {"success", "failure"}
OnlyResults(s) == \A i \in 1..Len(s) : IsResult(s[i])
Answered(s) == \A i \in 1..Len(s) : IsResult(s[i]) => answer[s[i].v] # "none"

StatusInv ==
    /\ pc["S"] \notin {"selection", "dead"} => buf["S"] = <<>>
    /\ pc["S"] \notin {"sending", "status", "dead"} => TextLast("ok", buf["S"], q["S"])
    /\ pc["S"] \in {"sending", "status"} => OnlyResults(q["S"])
    /\ NoEmpty(q["S"]) /\ Answered(q["S"])

FlowInv == PhaseInv /\ StringInv /\ FileInv /\ StreamInv /\ StatusInv

\* A sender that is done has the result of a file, or had none to send.
DoneInv ==
    outcome["S"] = "completed" =>
        /\ pc["S"] = "dead"
        /\ fileMap \cap given # {} => \E f \in fileMap \cap given : answer[f] # "none"

----------------------------------------------------------------------------
(* Parts of sequences *)

\* The first k elements.
LEMMA FirstIs ==
    ASSUME NEW S, NEW s \in Seq(S), NEW k \in 0..Len(s)
    PROVE  /\ SubSeq(s, 1, k) \in Seq(S) /\ Len(SubSeq(s, 1, k)) = k
           /\ \A i \in 1..k : SubSeq(s, 1, k)[i] = s[i]
  OBVIOUS

\* All but the first element.
LEMMA RestIs ==
    ASSUME NEW S, NEW s \in Seq(S), s # <<>>
    PROVE  /\ SubSeq(s, 2, Len(s)) \in Seq(S) /\ Len(SubSeq(s, 2, Len(s))) = Len(s) - 1
           /\ \A i \in 1 .. (Len(s) - 1) : SubSeq(s, 2, Len(s))[i] = s[i + 1]
  OBVIOUS

\* One sequence and another.
LEMMA BothAre ==
    ASSUME NEW S, NEW s \in Seq(S), NEW t \in Seq(S)
    PROVE  /\ s \o t \in Seq(S) /\ Len(s \o t) = Len(s) + Len(t)
           /\ \A i \in 1..Len(s) : (s \o t)[i] = s[i]
           /\ \A i \in (Len(s) + 1) .. (Len(s) + Len(t)) : (s \o t)[i] = t[i - Len(s)]
  OBVIOUS

\* All of a sequence.
LEMMA AllOf == ASSUME NEW S, NEW s \in Seq(S) PROVE SubSeq(s, 1, Len(s)) = s
  OBVIOUS

----------------------------------------------------------------------------
(* Parts of the stream *)

\* t is the first part of s; all of s but its first element; r is s and then t.
IsFirst(t, s) == Len(t) <= Len(s) /\ \A i \in 1..Len(t) : t[i] = s[i]
IsRest(t, s) == Len(t) = Len(s) - 1 /\ \A i \in 1..Len(t) : t[i] = s[i + 1]
IsBoth(r, s, t) ==
    /\ Len(r) = Len(s) + Len(t)
    /\ \A i \in 1..Len(s) : r[i] = s[i]
    /\ \A i \in (Len(s) + 1) .. Len(r) : r[i] = t[i - Len(s)]

\* What the operators on sequences yield.
LEMMA PartsAre ==
    ASSUME NEW S, NEW s \in Seq(S)
    PROVE  /\ \A k \in 0..Len(s) : SubSeq(s, 1, k) \in Seq(S) /\ IsFirst(SubSeq(s, 1, k), s)
           /\ s # <<>> => SubSeq(s, 2, Len(s)) \in Seq(S) /\ IsRest(SubSeq(s, 2, Len(s)), s)
           /\ \A t \in Seq(S) : s \o t \in Seq(S) /\ IsBoth(s \o t, s, t)
<1>0. Len(s) \in Nat
  OBVIOUS
<1>1. ASSUME NEW k \in 0..Len(s)
      PROVE  SubSeq(s, 1, k) \in Seq(S) /\ IsFirst(SubSeq(s, 1, k), s)
  <2>1. PICK t : t = SubSeq(s, 1, k)
    OBVIOUS
  <2>2. t \in Seq(S) /\ Len(t) = k /\ \A i \in 1..k : t[i] = s[i]
    BY <2>1, FirstIs
  <2>3. IsFirst(t, s)
    BY <1>0, <2>2 DEF IsFirst
  <2> QED BY <2>1, <2>2, <2>3
<1>2. ASSUME s # <<>>
      PROVE  SubSeq(s, 2, Len(s)) \in Seq(S) /\ IsRest(SubSeq(s, 2, Len(s)), s)
  <2>1. PICK t : t = SubSeq(s, 2, Len(s))
    OBVIOUS
  <2>2. t \in Seq(S) /\ Len(t) = Len(s) - 1 /\ \A i \in 1 .. (Len(s) - 1) : t[i] = s[i + 1]
    BY <1>2, <2>1, RestIs
  <2>3. IsRest(t, s)
    BY <1>0, <2>2 DEF IsRest
  <2> QED BY <2>1, <2>2, <2>3
<1>3. ASSUME NEW t \in Seq(S) PROVE s \o t \in Seq(S) /\ IsBoth(s \o t, s, t)
  <2>1. PICK r : r = s \o t
    OBVIOUS
  <2>2. /\ r \in Seq(S) /\ Len(r) = Len(s) + Len(t)
        /\ \A i \in 1..Len(s) : r[i] = s[i]
        /\ \A i \in (Len(s) + 1) .. (Len(s) + Len(t)) : r[i] = t[i - Len(s)]
    BY <2>1, BothAre
  <2>3. IsBoth(r, s, t)
    BY <2>2 DEF IsBoth
  <2> QED BY <2>1, <2>2, <2>3
<1> QED BY <1>1, <1>2, <1>3

\* The part of a string that ends d is in d.
LEMMA EndsIn == ASSUME NEW k, NEW d \in Seq(Unit), Ends(k, d) PROVE HasPart(k, d)
<1>1. Len(d) \in DOMAIN d
  BY DEF Ends
<1> QED BY <1>1 DEF Ends, HasPart

\* Nothing is no part of a string.
LEMMA EndsNothing == \A k : ~Ends(k, <<>>) /\ ~HasPart(k, <<>>)
  BY DEF Ends, HasPart

\* What holds of messages holds of a part of them.
LEMMA FirstKeeps ==
    ASSUME NEW s \in Seq(Msg), NEW t \in Seq(Msg), IsFirst(t, s)
    PROVE  /\ \A k : NoPart(k, s) => NoPart(k, t)
           /\ NoEmpty(s) => NoEmpty(t)
           /\ \A k, b : TextLast(k, b, s) => TextLast(k, b, t)
           /\ \A P : Chain(P, s) => Chain(P, t)
           /\ Headers(s) => Headers(t)
<1>0. Len(s) \in Nat /\ Len(t) \in Nat /\ Len(t) <= Len(s) /\ \A i \in 1..Len(t) : t[i] = s[i]
  BY DEF IsFirst
<1>1. \A i \in 1..Len(t) : i \in 1..Len(s)
  BY <1>0
<1>2. \A i \in 1..Len(t) : i # 1 => i - 1 \in 1..Len(t)
  BY <1>0
<1>3. \A k : NoPart(k, s) => NoPart(k, t)
  BY <1>0, <1>1 DEF NoPart
<1>4. NoEmpty(s) => NoEmpty(t)
  BY <1>0, <1>1 DEF NoEmpty
<1>5. ASSUME NEW k, NEW b, TextLast(k, b, s) PROVE TextLast(k, b, t)
  <2> SUFFICES ASSUME NEW i \in 1..Len(t), IsString(t[i]),
                      Ends(k, IF i = 1 THEN b ELSE t[i - 1].data)
               PROVE  i = Len(t)
    BY DEF TextLast
  <2>1. (IF i = 1 THEN b ELSE t[i - 1].data) = (IF i = 1 THEN b ELSE s[i - 1].data)
    BY <1>0, <1>2
  <2>2. i = Len(s)
    BY <1>0, <1>1, <1>5, <2>1 DEF TextLast
  <2> QED BY <1>0, <2>2
<1>6. ASSUME NEW P, Chain(P, s) PROVE Chain(P, t)
  <2> SUFFICES ASSUME NEW i \in 1..Len(t) PROVE Follows(At(P, t, i), t[i])
    BY DEF Chain
  <2>1. At(P, t, i) = At(P, s, i) /\ t[i] = s[i]
    BY <1>0, <1>2 DEF At
  <2>2. Follows(At(P, s, i), s[i])
    BY <1>1, <1>6 DEF Chain
  <2> QED BY <2>1, <2>2
<1>7. Headers(s) => Headers(t)
  BY <1>0, <1>1 DEF Headers
<1> QED BY <1>3, <1>4, <1>5, <1>6, <1>7

\* What holds of messages when the first one is taken.
LEMMA RestKeeps ==
    ASSUME NEW s \in Seq(Msg), NEW t \in Seq(Msg), s # <<>>, IsRest(t, s)
    PROVE  /\ \A k : NoPart(k, s) => NoPart(k, t)
           /\ NoEmpty(s) => NoEmpty(t)
           /\ \A k, b : TextLast(k, b, s) => TextLast(k, <<>>, t)
           /\ \A P : Chain(P, s) => Follows(P, s[1]) /\ Chain(After(s[1]), t)
           /\ \A P : At(P, s, Len(s) + 1) = At(After(s[1]), t, Len(t) + 1)
           /\ Headers(s) =>
                /\ Headers(t)
                /\ s[1].k = "header" =>
                     Fresh(s[1].v) /\ \A i \in 1..Len(t) : t[i].k = "header" => t[i].v # s[1].v
<1>0. /\ Len(s) \in Nat \ {0} /\ Len(t) \in Nat /\ Len(t) = Len(s) - 1
      /\ \A i \in 1..Len(t) : t[i] = s[i + 1]
  BY DEF IsRest
<1>1. 1 \in 1..Len(s) /\ \A i \in 1..Len(t) : i + 1 \in 1..Len(s) /\ i + 1 # 1
  BY <1>0
<1>2. \A i \in 1..Len(t) : i # 1 => t[i - 1] = s[i]
  BY <1>0
<1>3. \A k : NoPart(k, s) => NoPart(k, t)
  BY <1>0, <1>1 DEF NoPart
<1>4. NoEmpty(s) => NoEmpty(t)
  BY <1>0, <1>1 DEF NoEmpty
<1>5. ASSUME NEW k, NEW b, TextLast(k, b, s) PROVE TextLast(k, <<>>, t)
  <2> SUFFICES ASSUME NEW i \in 1..Len(t), IsString(t[i]),
                      Ends(k, IF i = 1 THEN <<>> ELSE t[i - 1].data)
               PROVE  i = Len(t)
    BY DEF TextLast
  <2>1. i # 1 /\ Ends(k, s[i].data)
    BY <1>2, EndsNothing
  <2>2. i + 1 = Len(s)
    <3>1. PICK j : j = i + 1
      OBVIOUS
    <3>2. j \in 1..Len(s) /\ j # 1 /\ j - 1 = i /\ IsString(s[j])
      BY <1>0, <1>1, <3>1
    <3>3. Ends(k, IF j = 1 THEN b ELSE s[j - 1].data)
      BY <2>1, <3>2
    <3> QED BY <1>5, <3>1, <3>2, <3>3 DEF TextLast
  <2> QED BY <1>0, <2>2
<1>6. ASSUME NEW P, Chain(P, s) PROVE Follows(P, s[1]) /\ Chain(After(s[1]), t)
  <2>1. Follows(P, s[1])
    BY <1>1, <1>6 DEF Chain, At
  <2>2. ASSUME NEW i \in 1..Len(t) PROVE Follows(At(After(s[1]), t, i), t[i])
    <3>1. At(After(s[1]), t, i) = After(s[i])
      BY <1>2 DEF At
    <3>2. Follows(At(P, s, i + 1), s[i + 1]) /\ At(P, s, i + 1) = After(s[i])
      BY <1>1, <1>6 DEF Chain, At
    <3> QED BY <1>0, <3>1, <3>2
  <2> QED BY <2>1, <2>2 DEF Chain
<1>7. ASSUME NEW P PROVE At(P, s, Len(s) + 1) = At(After(s[1]), t, Len(t) + 1)
  BY <1>0 DEF At
<1>8. ASSUME Headers(s)
      PROVE  /\ Headers(t)
             /\ s[1].k = "header" =>
                  Fresh(s[1].v) /\ \A i \in 1..Len(t) : t[i].k = "header" => t[i].v # s[1].v
  <2>1. \A i \in 1..Len(t) : t[i].k = "header" => Fresh(t[i].v)
    BY <1>0, <1>1, <1>8 DEF Headers
  <2>2. ASSUME NEW i \in 1..Len(t), NEW j \in 1..Len(t), t[i].k = "header", t[j].k = "header",
               t[i].v = t[j].v
        PROVE  i = j
    <3>1. i + 1 = j + 1
      BY <1>0, <1>1, <1>8, <2>2 DEF Headers
    <3> QED BY <1>0, <3>1
  <2>3. s[1].k = "header" =>
           Fresh(s[1].v) /\ \A i \in 1..Len(t) : t[i].k = "header" => t[i].v # s[1].v
    BY <1>0, <1>1, <1>8 DEF Headers
  <2> QED BY <2>1, <2>2, <2>3 DEF Headers
<1> QED BY <1>3, <1>4, <1>5, <1>6, <1>7, <1>8

\* What holds of strings and of those that follow them.
LEMMA BothTalk ==
    ASSUME NEW s \in Seq(Msg), NEW t \in Seq(Msg), NEW r \in Seq(Msg), IsBoth(r, s, t)
    PROVE  /\ \A k : NoPart(k, s) /\ NoPart(k, t) => NoPart(k, r)
           /\ NoEmpty(s) /\ NoEmpty(t) => NoEmpty(r)
           /\ \A k : \A b \in Seq(Unit) :
                 ~HasPart(k, b) /\ NoPart(k, s) /\ TextLast(k, <<>>, t) => TextLast(k, b, r)
<1>0. /\ Len(s) \in Nat /\ Len(t) \in Nat /\ Len(r) = Len(s) + Len(t)
      /\ \A i \in 1..Len(s) : r[i] = s[i]
      /\ \A i \in (Len(s) + 1) .. Len(r) : r[i] = t[i - Len(s)]
  BY DEF IsBoth
<1>1. \A i \in 1..Len(r) :
          i \in 1..Len(s) \/ (i \in (Len(s) + 1) .. Len(r) /\ i - Len(s) \in 1..Len(t))
  BY <1>0
<1>2. \A k : NoPart(k, s) /\ NoPart(k, t) => NoPart(k, r)
  BY <1>0, <1>1 DEF NoPart
<1>3. NoEmpty(s) /\ NoEmpty(t) => NoEmpty(r)
  BY <1>0, <1>1 DEF NoEmpty
<1>4. ASSUME NEW k, NEW b \in Seq(Unit), ~HasPart(k, b), NoPart(k, s), TextLast(k, <<>>, t)
      PROVE  TextLast(k, b, r)
  <2> SUFFICES ASSUME NEW i \in 1..Len(r), IsString(r[i]),
                      Ends(k, IF i = 1 THEN b ELSE r[i - 1].data)
               PROVE  i = Len(r)
    BY DEF TextLast
  <2>1. CASE i = 1
    BY <1>4, <2>1, EndsIn
  <2>2. CASE i # 1 /\ i - 1 \in 1..Len(s)
    <3>1. s[i - 1] \in Msg /\ r[i - 1] = s[i - 1]
      BY <1>0, <2>2
    <3>2. s[i - 1].data \in Seq(Unit)
      BY <3>1, MsgIs
    <3>3. HasPart(k, s[i - 1].data)
      BY <2>2, <3>1, <3>2, EndsIn
    <3> QED BY <1>4, <2>2, <3>3 DEF NoPart
  <2>3. CASE i # 1 /\ i - 1 \notin 1..Len(s)
    <3>1. PICK j : j = i - Len(s)
      OBVIOUS
    <3>2. /\ j \in 1..Len(t) /\ j # 1 /\ r[i] = t[j] /\ r[i - 1] = t[j - 1]
      BY <1>0, <2>3, <3>1
    <3>3. Ends(k, IF j = 1 THEN <<>> ELSE t[j - 1].data) /\ IsString(t[j])
      BY <2>3, <3>2
    <3>4. j = Len(t)
      BY <1>4, <3>2, <3>3 DEF TextLast
    <3> QED BY <1>0, <3>1, <3>4
  <2> QED BY <2>1, <2>2, <2>3
<1> QED BY <1>2, <1>3, <1>4

\* The stream goes on where it was.
LEMMA BothChain ==
    ASSUME NEW s \in Seq(Msg), NEW t \in Seq(Msg), NEW r \in Seq(Msg), IsBoth(r, s, t)
    PROVE  /\ \A P : Chain(P, s) /\ Chain(At(P, s, Len(s) + 1), t) => Chain(P, r)
           /\ \A P : At(P, r, Len(r) + 1) = At(At(P, s, Len(s) + 1), t, Len(t) + 1)
<1>0. /\ Len(s) \in Nat /\ Len(t) \in Nat /\ Len(r) = Len(s) + Len(t)
      /\ \A i \in 1..Len(s) : r[i] = s[i]
      /\ \A i \in (Len(s) + 1) .. Len(r) : r[i] = t[i - Len(s)]
  BY DEF IsBoth
<1>1. \A i \in 1..Len(r) :
          i \in 1..Len(s) \/ (i \in (Len(s) + 1) .. Len(r) /\ i - Len(s) \in 1..Len(t))
  BY <1>0
<1>5. ASSUME NEW P PROVE At(P, r, Len(r) + 1) = At(At(P, s, Len(s) + 1), t, Len(t) + 1)
  <2>1. CASE Len(t) = 0
    <3>1. Len(r) = Len(s) /\ Len(t) + 1 = 1
      BY <1>0, <2>1
    <3>2. CASE Len(s) = 0
      BY <3>1, <3>2 DEF At
    <3>3. CASE Len(s) # 0
      <4>1. Len(s) + 1 # 1 /\ Len(s) + 1 - 1 = Len(s) /\ r[Len(s)] = s[Len(s)]
        BY <1>0, <3>3
      <4> QED BY <3>1, <4>1 DEF At
    <3> QED BY <3>2, <3>3
  <2>2. CASE Len(t) # 0
    <3>1. /\ Len(r) + 1 # 1 /\ Len(r) + 1 - 1 = Len(r) /\ Len(t) + 1 # 1 /\ Len(t) + 1 - 1 = Len(t)
          /\ r[Len(r)] = t[Len(t)]
      BY <1>0, <2>2
    <3> QED BY <3>1 DEF At
  <2> QED BY <2>1, <2>2
<1>6. ASSUME NEW P, Chain(P, s), Chain(At(P, s, Len(s) + 1), t) PROVE Chain(P, r)
  <2> DEFINE Q == At(P, s, Len(s) + 1)
  <2> SUFFICES ASSUME NEW i \in 1..Len(r) PROVE Follows(At(P, r, i), r[i])
    BY DEF Chain
  <2>1. CASE i \in 1..Len(s)
    <3>1. At(P, r, i) = At(P, s, i) /\ r[i] = s[i]
      BY <1>0, <2>1 DEF At
    <3>2. Follows(At(P, s, i), s[i])
      BY <1>6, <2>1 DEF Chain
    <3> QED BY <3>1, <3>2
  <2>2. CASE i \notin 1..Len(s)
    <3>1. PICK j : j = i - Len(s)
      OBVIOUS
    <3>2. j \in 1..Len(t) /\ r[i] = t[j] /\ i = Len(s) + j
      <4>1. i \in (Len(s) + 1) .. Len(r)
        BY <1>1, <2>2
      <4>2. i \in Nat /\ j \in 1..Len(t) /\ i = Len(s) + j
        BY <1>0, <3>1, <4>1
      <4> QED BY <1>0, <3>1, <4>1, <4>2
    <3>3. At(P, r, i) = At(Q, t, j)
      <4>1. CASE j = 1
        <5>1. i = Len(s) + 1
          BY <3>2, <4>1
        <5>2. CASE Len(s) = 0
          BY <4>1, <5>1, <5>2 DEF At
        <5>3. CASE Len(s) # 0
          <6>0. Len(s) \in 1..Len(s) /\ Len(s) + 1 - 1 = Len(s) /\ Len(s) + 1 # 1
            BY <1>0, <5>3
          <6>1. i # 1 /\ i - 1 = Len(s) /\ r[i - 1] = s[Len(s)] /\ Len(s) + 1 - 1 = Len(s)
            BY <1>0, <5>1, <6>0
          <6> QED BY <4>1, <5>1, <6>1 DEF At
        <5> QED BY <5>2, <5>3
      <4>2. CASE j # 1
        <5>1. i # 1 /\ i - 1 \in (Len(s) + 1) .. Len(r) /\ i - 1 - Len(s) = j - 1
          BY <1>0, <3>2, <4>2
        <5>2. r[i - 1] = t[j - 1]
          BY <1>0, <5>1
        <5> QED BY <4>2, <5>1, <5>2 DEF At
      <4> QED BY <4>1, <4>2
    <3>4. Follows(At(Q, t, j), t[j])
      <4> HIDE DEF Q
      <4>1. Chain(Q, t)
        BY <1>6 DEF Q
      <4> QED BY <3>2, <4>1 DEF Chain
    <3> QED BY <3>2, <3>3, <3>4
  <2> QED BY <2>1, <2>2
<1> QED BY <1>5, <1>6

----------------------------------------------------------------------------
(* Steps of a task, in order *)

\* The task of p takes n messages, or it returns; msgs, or the first of them, are
\* queued for the other peer, all of them if the connection stays.
Passed(p, n, msgs, nexts) ==
    /\ q' \in [Peers -> Seq(Msg)]
    /\ pc' = [pc EXCEPT ![p] = pc'[p]] /\ pc'[p] \in nexts
    /\ From(q'[p], q[p])
    /\ pc'[p] = "dead" \/ q'[p] = SubSeq(q[p], n + 1, Len(q[p]))
    /\ IsFirst(q'[Other(p)], Sent(p, msgs))
    /\ Live' => Live /\ q'[Other(p)] = Sent(p, msgs)

\* Both peers run.
LEMMA LiveIs == ASSUME NEW p \in Peers PROVE Live <=> (Running(p) /\ Running(Other(p)))
  BY DEF Live, Peers, Other

\* The beginning of the beginning, and all, is the beginning.
LEMMA FirstOf ==
    ASSUME NEW S, NEW s \in Seq(S)
    PROVE  /\ IsFirst(s, s)
           /\ \A t \in Seq(S) : IsFirst(s, s \o t)
           /\ s \o <<>> = s
<1>1. IsFirst(s, s)
  BY DEF IsFirst
<1>2. ASSUME NEW t \in Seq(S) PROVE IsFirst(s, s \o t)
  BY PartsAre DEF IsFirst, IsBoth
<1> QED BY <1>1, <1>2

\* What was queued comes first.
LEMMA SentFirst ==
    ASSUME TaskTypes, NEW p \in Peers, NEW msgs \in Seq(Msg)
    PROVE  /\ q[Other(p)] \in Seq(Msg) /\ Sent(p, msgs) \in Seq(Msg)
           /\ Sent(p, msgs) = IF Live THEN q[Other(p)] \o msgs ELSE q[Other(p)]
           /\ IsFirst(q[Other(p)], Sent(p, msgs))
           /\ Sent(p, <<>>) = q[Other(p)]
<1>1. q[Other(p)] \in Seq(Msg)
  BY PeersAre DEF TaskTypes
<1>2. Sent(p, msgs) = IF Live THEN q[Other(p)] \o msgs ELSE q[Other(p)]
  BY LiveIs DEF Sent
<1>3. Sent(p, <<>>) = q[Other(p)]
  BY <1>1, FirstOf DEF Sent
<1>4. IsFirst(q[Other(p)], q[Other(p)]) /\ IsFirst(q[Other(p)], q[Other(p)] \o msgs)
  BY <1>1, FirstOf
<1> QED BY <1>1, <1>2, <1>3, <1>4, SentType

\* A task that returns an error.
LEMMA FailPasses ==
    ASSUME TaskTypes, NEW p \in Peers, NEW msgs \in Seq(Msg), NEW sts, NEW why,
           Fail(p, msgs, sts, why), NEW n
    PROVE  Passed(p, n, msgs, {"dead"})
<1>1. Moved(p, msgs, sts, {"dead"}, {why})
  BY FailMoves
<1>2. q'[Other(p)] = Sent(p, msgs)
  BY PeersAre DEF Fail, TaskTypes
<1>3. ~Live'
  <2>1. ~Running(p)'
    BY DEF Fail, TaskTypes, Running
  <2> QED BY <2>1, LiveIs DEF Live, Peers
<1>4. IsFirst(q'[Other(p)], Sent(p, msgs))
  BY <1>2, SentType, FirstOf
<1> QED BY <1>1, <1>3, <1>4 DEF Moved, Passed

\* A send that fails.
LEMMA SendFailPasses ==
    ASSUME TaskTypes, NEW p \in Peers, NEW msgs \in Seq(Msg), NEW sts, Fail(p, <<>>, sts, "send"),
           NEW nexts, "dead" \in nexts, NEW n
    PROVE  Passed(p, n, msgs, nexts)
<1>1. <<>> \in Seq(Msg)
  OBVIOUS
<1>2. Passed(p, n, <<>>, {"dead"})
  BY <1>1, FailPasses
<1>3. q'[Other(p)] = q[Other(p)]
  <2>1. q'[Other(p)] = Sent(p, <<>>)
    BY PeersAre DEF Fail, TaskTypes
  <2> QED BY <1>1, <2>1, SentFirst
<1>4. IsFirst(q'[Other(p)], Sent(p, msgs))
  BY <1>3, SentFirst
<1>5. ~Live'
  <2>1. ~Running(p)'
    BY DEF Fail, TaskTypes, Running
  <2> QED BY <2>1 DEF Live, Peers
<1> QED BY <1>2, <1>4, <1>5 DEF Passed

\* A task that goes on.
LEMMA ProceedPasses ==
    ASSUME TaskTypes, NEW p \in Peers, NEW n \in Nat, NEW msgs \in Seq(Msg), NEW sts, NEW next,
           Proceed(p, n, msgs, sts, next)
    PROVE  Passed(p, n, msgs, {next, "dead"})
<1>1. Moved(p, msgs, sts, {next, "dead"}, {"send"})
  BY ProceedMoves
<1>2. CASE Fail(p, <<>>, sts, "send")
  BY <1>2, SendFailPasses
<1>3. CASE /\ q' = [q EXCEPT ![p] = SubSeq(q[p], n + 1, Len(q[p])), ![Other(p)] = Sent(p, msgs)]
           /\ UNCHANGED end
  <2>1. q'[p] = SubSeq(q[p], n + 1, Len(q[p])) /\ q'[Other(p)] = Sent(p, msgs)
    BY <1>3, PeersAre DEF TaskTypes
  <2>2. IsFirst(q'[Other(p)], Sent(p, msgs))
    BY <2>1, SentType, FirstOf
  <2>3. Live' => Live
    BY <1>3 DEF Live, Running
  <2> QED BY <1>1, <2>1, <2>2, <2>3 DEF Moved, Passed
<1> QED BY <1>2, <1>3 DEF Proceed

\* A task that is done.
LEMMA CompletePasses ==
    ASSUME TaskTypes, NEW p \in Peers, NEW msgs \in Seq(Msg), NEW sts, Complete(p, msgs, sts), NEW n
    PROVE  Passed(p, n, msgs, {"dead"})
<1>1. Moved(p, msgs, sts, {"dead"}, {"send", "completed"})
  BY CompleteMoves
<1>2. CASE Fail(p, <<>>, sts, "send")
  BY <1>2, SendFailPasses
<1>3. CASE /\ end' = [end EXCEPT ![p] = "finished"]
           /\ \E k \in 0..Len(Sent(p, msgs)) :
                 q' = [q EXCEPT ![p] = <<>>, ![Other(p)] = SubSeq(Sent(p, msgs), 1, k)]
  <2>1. PICK k \in 0..Len(Sent(p, msgs)) : q'[Other(p)] = SubSeq(Sent(p, msgs), 1, k)
    BY <1>3, PeersAre DEF TaskTypes
  <2>2. IsFirst(q'[Other(p)], Sent(p, msgs))
    BY <2>1, SentType, PartsAre
  <2>3. ~Live'
    <3>1. ~Running(p)'
      BY <1>3 DEF TaskTypes, Running
    <3> QED BY <3>1 DEF Live, Peers
  <2> QED BY <1>1, <2>2, <2>3 DEF Moved, Passed
<1> QED BY <1>2, <1>3 DEF Complete

\* A write of the file loop.
LEMMA WritePasses ==
    ASSUME TaskTypes, NEW msgs \in Seq(Msg), Write(msgs)
    PROVE  Passed("S", 0, msgs, {pc["S"]})
<1>1. Moved("S", msgs, {}, {pc["S"]}, {})
  BY WriteMoves
<1>2. q'["S"] = q["S"] /\ q'[Other("S")] = Sent("S", msgs) /\ q["S"] \in Seq(Msg)
  BY TwoPeers DEF TaskTypes, Write
<1>3. q'["S"] = SubSeq(q["S"], 0 + 1, Len(q["S"]))
  BY <1>2, AllOf
<1>4. IsFirst(q'[Other("S")], Sent("S", msgs))
  BY <1>2, TwoPeers, SentType, FirstOf
<1>5. Live' => Live
  BY DEF Live, Running, Write
<1> QED BY <1>1, <1>2, <1>3, <1>4, <1>5 DEF Moved, Passed

----------------------------------------------------------------------------
(* What is on its way to the sender *)

\* Messages without a part of the string.
LEMMA NoPartLast ==
    ASSUME NEW k, NEW b \in Seq(Unit), ~HasPart(k, b), NEW s \in Seq(Msg), NoPart(k, s)
    PROVE  TextLast(k, b, s)
<1> SUFFICES ASSUME NEW i \in 1..Len(s), Ends(k, IF i = 1 THEN b ELSE s[i - 1].data)
             PROVE  FALSE
  BY DEF TextLast
<1>1. CASE i = 1
  BY <1>1, EndsIn
<1>2. CASE i # 1
  <2>1. i - 1 \in 1..Len(s)
    BY <1>2
  <2>2. s[i - 1] \in Msg
    BY <2>1
  <2>3. s[i - 1].data \in Seq(Unit)
    BY <2>2, MsgIs
  <2>4. HasPart(k, s[i - 1].data)
    BY <1>2, <2>3, EndsIn
  <2> QED BY <2>1, <2>4 DEF NoPart
<1> QED BY <1>1, <1>2

\* No message or one is taken, with an empty buffer.
LEMMA TakenKeeps ==
    ASSUME NEW k, NEW s \in Seq(Msg), TextLast(k, <<>>, s), NEW n \in {0, 1},
           NEW t, t = SubSeq(s, n + 1, Len(s))
    PROVE  TextLast(k, <<>>, t)
<1>1. CASE n = 0
  <2>1. t = SubSeq(s, 1, Len(s))
    BY <1>1
  <2> QED BY <2>1, AllOf
<1>2. CASE n = 1 /\ s # <<>>
  <2>1. t = SubSeq(s, 2, Len(s))
    BY <1>2
  <2>2. t \in Seq(Msg) /\ IsRest(t, s)
    BY <1>2, <2>1, PartsAre
  <2> QED BY <1>2, <2>2, RestKeeps
<1>3. CASE n = 1 /\ s = <<>>
  <2>1. t = <<>>
    BY <1>3
  <2> QED BY <2>1 DEF TextLast
<1> QED BY <1>1, <1>2, <1>3

\* Nobody takes a result back.
AnswersStay == \A f \in Files : answer[f] # "none" => answer'[f] # "none"

\* Some of the messages.
LEMMA ResultsFrom ==
    ASSUME NEW s \in Seq(Msg), NEW t \in Seq(Msg), From(t, s), AnswersStay
    PROVE  /\ NoEmpty(s) => NoEmpty(t)
           /\ Answered(s) => Answered(t)'
           /\ OnlyResults(s) => OnlyResults(t)
<1>1. DOMAIN s = 1..Len(s) /\ DOMAIN t = 1..Len(t)
  OBVIOUS
<1>2. \A i \in 1..Len(s) : IsResult(s[i]) => s[i].v \in Files
  <2> TAKE i \in 1..Len(s)
  <2>1. s[i] \in Msg
    OBVIOUS
  <2> QED BY <2>1 DEF IsResult, Msg
<1>3. ASSUME Answered(s), NEW i \in 1..Len(t), IsResult(t[i]) PROVE answer'[t[i].v] # "none"
  <2>1. PICK j \in 1..Len(s) : t[i] = s[j]
    BY <1>1 DEF From
  <2>2. s[j].v \in Files /\ answer[s[j].v] # "none"
    BY <1>2, <1>3, <2>1 DEF Answered
  <2> QED BY <2>1, <2>2 DEF AnswersStay
<1>4. Answered(s) => Answered(t)'
  BY <1>3 DEF Answered
<1>5. NoEmpty(s) => NoEmpty(t)
  BY <1>1 DEF From, NoEmpty
<1>6. OnlyResults(s) => OnlyResults(t)
  BY <1>1 DEF From, OnlyResults
<1> QED BY <1>4, <1>5, <1>6

\* The sender takes messages, or returns.
LEMMA StatusHeard ==
    ASSUME TaskTypes, StatusInv, AnswersStay, q' \in [Peers -> Seq(Msg)], From(q'["S"], q["S"]),
           pc'["S"] \notin {"selection", "dead"} => buf'["S"] = <<>>,
           pc'["S"] \notin {"sending", "status", "dead"} => TextLast("ok", buf'["S"], q'["S"]),
           pc'["S"] \in {"sending", "status"} => OnlyResults(q["S"]) \/ q'["S"] = <<>>
    PROVE  StatusInv'
<1>1. PICK s \in Seq(Msg), t \in Seq(Msg) : s = q["S"] /\ t = q'["S"]
  BY TwoPeers DEF TaskTypes
<1>2. NoEmpty(t) /\ Answered(t)' /\ (OnlyResults(s) => OnlyResults(t))
  BY <1>1, ResultsFrom DEF StatusInv
<1>3. pc'["S"] \in {"sending", "status"} => OnlyResults(t)
  BY <1>1, <1>2 DEF OnlyResults
<1>4. NoEmpty(q["S"])' /\ Answered(q["S"])' /\ (pc'["S"] \in {"sending", "status"} => OnlyResults(q["S"])')
  BY <1>1, <1>2, <1>3 DEF NoEmpty, OnlyResults
<1>5. pc'["S"] \notin {"sending", "status", "dead"} => TextLast("ok", buf["S"], q["S"])'
  BY DEF TextLast
<1> QED BY <1>4, <1>5 DEF StatusInv

\* The receiver says something.
LEMMA StatusSaid ==
    ASSUME TaskTypes, StatusInv, AnswersStay, NEW n, NEW msgs \in Seq(Msg), NEW nexts,
           Passed("R", n, msgs, nexts), buf'["S"] = buf["S"], NoEmpty(msgs), Answered(msgs)',
           pc["S"] \notin {"sending", "status", "dead"} =>
               /\ ~HasPart("ok", buf["S"]) /\ NoPart("ok", q["S"])
               /\ TextLast("ok", <<>>, msgs),
           pc["S"] \in {"sending", "status"} => OnlyResults(msgs)
    PROVE  StatusInv'
<1>0. pc'["S"] = pc["S"] /\ buf["S"] \in Seq(Unit)
  BY TwoPeers DEF Passed, TaskTypes
<1>1. PICK s \in Seq(Msg), t \in Seq(Msg) : s = q["S"] /\ t = q'["S"]
  BY TwoPeers DEF Passed, TaskTypes
<1>2. PICK r \in Seq(Msg) : r = s \o msgs /\ IsBoth(r, s, msgs)
  BY PartsAre
<1>3. IsFirst(t, r) \/ IsFirst(t, s)
  BY <1>1, <1>2, TwoPeers, SentFirst DEF Passed
<1>4. NoEmpty(s) /\ Answered(s) /\ (pc["S"] \in {"sending", "status"} => OnlyResults(s))
  BY <1>1 DEF StatusInv
<1>5. NoEmpty(t)
  <2>1. NoEmpty(r)
    BY <1>2, <1>4, BothTalk
  <2> QED BY <1>3, <1>4, <2>1, FirstKeeps
<1>6. /\ Len(s) \in Nat /\ Len(t) \in Nat
      /\ \A i \in 1..Len(t) : (\E j \in 1..Len(s) : t[i] = s[j]) \/ (\E j \in 1..Len(msgs) : t[i] = msgs[j])
  <2>1. ASSUME NEW i \in 1..Len(t)
        PROVE  (\E j \in 1..Len(s) : t[i] = s[j]) \/ (\E j \in 1..Len(msgs) : t[i] = msgs[j])
    <3>1. CASE IsFirst(t, s)
      BY <3>1 DEF IsFirst
    <3>2. CASE IsFirst(t, r)
      <4>1. i \in 1..Len(r) /\ t[i] = r[i] /\ Len(r) = Len(s) + Len(msgs)
        BY <1>2, <3>2 DEF IsFirst, IsBoth
      <4>2. CASE i \in 1..Len(s)
        BY <1>2, <4>1, <4>2 DEF IsBoth
      <4>3. CASE i \notin 1..Len(s)
        <5>1. i - Len(s) \in 1..Len(msgs) /\ i \in (Len(s) + 1) .. Len(r)
          BY <4>1, <4>3
        <5>2. r[i] = msgs[i - Len(s)]
          BY <1>2, <5>1 DEF IsBoth
        <5> QED BY <4>1, <5>1, <5>2
      <4> QED BY <4>2, <4>3
    <3> QED BY <1>3, <3>1, <3>2
  <2> QED BY <2>1
<1>7. Answered(t)'
  <2>1. Answered(s)'
    <3>1. From(s, s)
      BY FromSame
    <3> QED BY <1>4, <3>1, ResultsFrom
  <2> QED BY <1>6, <2>1 DEF Answered
<1>8. pc["S"] \in {"sending", "status"} => OnlyResults(t)
  BY <1>4, <1>6 DEF OnlyResults
<1>9. ASSUME pc["S"] \notin {"sending", "status", "dead"} PROVE TextLast("ok", buf["S"], t)
  <2>1. ~HasPart("ok", buf["S"]) /\ NoPart("ok", s) /\ TextLast("ok", <<>>, msgs)
    BY <1>1, <1>9
  <2>2. TextLast("ok", buf["S"], s)
    BY <1>0, <2>1, NoPartLast
  <2>3. TextLast("ok", buf["S"], r)
    BY <1>0, <1>2, <2>1, BothTalk
  <2> QED BY <1>3, <2>2, <2>3, FirstKeeps
<1>10. /\ NoEmpty(q["S"])' /\ Answered(q["S"])'
       /\ (pc'["S"] \in {"sending", "status"} => OnlyResults(q["S"])')
  BY <1>0, <1>1, <1>5, <1>7, <1>8 DEF NoEmpty, OnlyResults
<1>11. pc'["S"] \notin {"sending", "status", "dead"} => TextLast("ok", buf["S"], q["S"])'
  BY <1>0, <1>1, <1>9 DEF TextLast
<1>12. pc'["S"] \notin {"selection", "dead"} => buf'["S"] = <<>>
  BY <1>0 DEF StatusInv
<1> QED BY <1>10, <1>11, <1>12 DEF StatusInv

----------------------------------------------------------------------------
(* The sender before its file list *)

\* Who has chosen has chosen.
LEMMA OkStable ==
    ASSUME Unchosen' => Unchosen, selected \subseteq selected'
    PROVE  \A d : OkParts(d) => OkParts(d)'
  BY DEF OkParts

\* The answers on their way to the sender, when nothing is added to them.
LEMMA AnswersKept ==
    ASSUME StringInv, Unchosen' => Unchosen, selected \subseteq selected', From(q'["S"], q["S"])
    PROVE  \A i \in DOMAIN q'["S"] : OkParts(q["S"][i].data)'
<1>1. ASSUME NEW i \in DOMAIN q'["S"], NEW d, d = q'["S"][i].data PROVE OkParts(d)'
  <2>1. PICK j \in DOMAIN q["S"] : q'["S"][i] = q["S"][j]
    BY DEF From
  <2>2. OkParts(q["S"][j].data)
    BY DEF StringInv
  <2>3. OkParts(d)
    BY <1>1, <2>1, <2>2
  <2> QED BY <2>3, OkStable
<1> QED BY <1>1

\* The file loops do not move.
LEMMA FileSame == ASSUME FileInv, UNCHANGED <<sender, receiver>> PROVE FileInv'
  BY DEF FileInv, Run, sender, receiver

\* A sender that has not sent its list sends something, perhaps the list.
LEMMA SenderTalks ==
    ASSUME TaskTypes, FlowInv, Unlisted, UNCHANGED <<buf, sender, receiver>>,
           NEW n \in {0, 1}, NEW msgs \in Seq(Msg), NEW nexts \in SUBSET (SPcs \ {"sending", "status"}),
           Passed("S", n, msgs, nexts), NoEmpty(msgs), TextLast("list", <<>>, msgs),
           \A x \in nexts \ {"selection", "dead"} : NoPart("list", msgs)
    PROVE  FlowInv'
<1>0. /\ pc'["R"] = pc["R"] /\ pc'["S"] \in nexts /\ pc["R"] \notin {"select", "files"}
      /\ UNCHANGED <<buf, given, selected>> /\ pc'["S"] \notin {"sending", "status"}
  BY TwoPeers DEF Passed, TaskTypes, FlowInv, PhaseInv, sender, receiver
<1>1. /\ q["R"] \in Seq(Msg) /\ Sent("S", msgs) \in Seq(Msg) /\ q'["R"] \in Seq(Msg)
      /\ Sent("S", msgs) = (IF Live THEN q["R"] \o msgs ELSE q["R"])
      /\ IsFirst(q'["R"], Sent("S", msgs)) /\ buf["R"] \in Seq(Unit)
  BY TwoPeers, SentFirst DEF Passed, TaskTypes
<1>2. NoPart("list", q["R"]) /\ ~HasPart("list", buf["R"]) /\ NoEmpty(q["R"])
      /\ (Unseen => TextLast("list", buf["R"], q["R"]))
  BY DEF FlowInv, StringInv
<1>3. PICK r \in Seq(Msg) : r = q["R"] \o msgs /\ IsBoth(r, q["R"], msgs)
  BY <1>1, PartsAre
<1>4. /\ NoEmpty(r) /\ TextLast("list", buf["R"], r) /\ (NoPart("list", msgs) => NoPart("list", r))
  <2>1. /\ NoPart("list", q["R"]) /\ NoPart("list", msgs) => NoPart("list", r)
        /\ NoEmpty(q["R"]) /\ NoEmpty(msgs) => NoEmpty(r)
        /\ \A b \in Seq(Unit) :
              ~HasPart("list", b) /\ NoPart("list", q["R"]) /\ TextLast("list", <<>>, msgs) => TextLast("list", b, r)
    BY <1>1, <1>3, BothTalk
  <2> QED BY <1>1, <1>2, <2>1
<1>5. PICK s \in Seq(Msg) : s = Sent("S", msgs)
  BY <1>1
<1>6. NoEmpty(s) /\ (Unseen => TextLast("list", buf["R"], s)) /\ (NoPart("list", msgs) => NoPart("list", s))
  BY <1>1, <1>2, <1>3, <1>4, <1>5
<1>7. /\ NoEmpty(q'["R"]) /\ (Unseen => TextLast("list", buf["R"], q'["R"]))
      /\ (NoPart("list", msgs) => NoPart("list", q'["R"]))
  BY <1>1, <1>5, <1>6, FirstKeeps
<1>8. PhaseInv'
  <2>1. PhaseInv /\ given = {} /\ fileMap = {} /\ fileMap' = fileMap
    BY DEF FlowInv, PhaseInv, Unlisted, sender
  <2>2. Unchosen' => selected' = {}
    BY <1>0, <2>1 DEF PhaseInv, Unchosen
  <2>3. pc'["R"] \notin {"list", "pinRes", "dead"} => buf'["R"] = <<>>
    BY <1>0, <2>1 DEF PhaseInv
  <2> QED BY <1>0, <2>1, <2>2, <2>3 DEF PhaseInv
<1>9. StringInv'
  <2>1. (Unchosen' => Unchosen) /\ selected \subseteq selected' /\ (Unseen' => Unseen)
    BY <1>0 DEF Unchosen, Unseen
  <2>2. \A i \in DOMAIN q'["S"] : OkParts(q["S"][i].data)'
    BY <2>1, AnswersKept DEF FlowInv, Passed
  <2>3. OkParts(buf["S"])'
    <3>1. \A d : d = buf["S"] => OkParts(d)'
      BY <2>1, OkStable DEF FlowInv, StringInv
    <3> QED BY <1>0, <3>1
  <2>4. Unlisted' => NoPart("list", msgs)
    BY <1>0 DEF Unlisted
  <2>5. /\ (Unlisted' => ~HasPart("list", buf["R"])' /\ NoPart("list", q["R"])')
        /\ (Unseen' => TextLast("list", buf["R"], q["R"])') /\ NoEmpty(q["R"])'
    BY <1>0, <1>2, <1>7, <2>1, <2>4 DEF HasPart, NoPart, NoEmpty, TextLast, Ends
  <2> QED BY <2>2, <2>3, <2>5 DEF StringInv
<1>10. FileInv'
  BY FileSame DEF FlowInv
<1>11. StreamInv'
  BY <1>0 DEF StreamInv
<1>12. StatusInv'
  <2>1. buf["S"] = <<>> /\ TextLast("ok", <<>>, q["S"]) /\ q["S"] \in Seq(Msg)
    BY TwoPeers DEF FlowInv, StatusInv, Unlisted, TaskTypes
  <2>2. pc'["S"] # "dead" => TextLast("ok", <<>>, q'["S"])
    BY <2>1, TakenKeeps DEF Passed
  <2>3. AnswersStay /\ StatusInv
    BY DEF AnswersStay, receiver, FlowInv
  <2> QED BY <1>0, <2>1, <2>2, <2>3, StatusHeard DEF Passed
<1> QED BY <1>8, <1>9, <1>10, <1>11, <1>12 DEF FlowInv

\* Messages a sender may send before its list, and with it.
Talk(msgs) == msgs \in Seq(Msg) /\ NoEmpty(msgs) /\ \A k : TextLast(k, <<>>, msgs)

\* No message.
LEMMA TalkNone == Talk(<<>>) /\ NoPart("list", <<>>)
  BY DEF Talk, NoEmpty, TextLast, NoPart

\* A text.
LEMMA TalkText ==
    ASSUME NEW m \in Msg, m.k # "bin", m.data = <<>> PROVE Talk(<<m>>) /\ NoPart("list", <<m>>)
<1>1. <<m>> \in Seq(Msg) /\ Len(<<m>>) = 1 /\ <<m>>[1] = m
  OBVIOUS
<1>2. NoEmpty(<<m>>) /\ \A k : TextLast(k, <<>>, <<m>>)
  BY <1>1 DEF NoEmpty, TextLast, IsString
<1>3. NoPart("list", <<m>>)
  BY <1>1, EndsNothing DEF NoPart
<1> QED BY <1>1, <1>2, <1>3 DEF Talk

\* The chunks of a string.
LEMMA ChunksAre ==
    ASSUME NEW s \in Strings
    PROVE  /\ InChunks(s) \in Seq(Msg) /\ Len(InChunks(s)) = StrChunks + 1
           /\ InChunks(s)[StrChunks + 1] = Delimiter
           /\ \A i \in 1..StrChunks : InChunks(s)[i] = Bin(<<<<s, i>>>>)
<1> DEFINE t == [i \in 1..StrChunks |-> Bin(<<<<s, i>>>>)]
<1>1. StrChunks \in Nat
  BY StrChunksAssumption
<1>2. ASSUME NEW i \in 1..StrChunks PROVE Bin(<<<<s, i>>>>) \in Msg
  <2>1. <<s, i>> \in Unit
    BY <1>1 DEF Unit
  <2>2. \A u \in Unit : <<u>> \in Seq(Unit)
    OBVIOUS
  <2>3. PICK d \in Seq(Unit) : d = <<<<s, i>>>>
    BY <2>1, <2>2
  <2>4. Bin(d) \in Msg
    BY DEF Bin, Msg
  <2> QED BY <2>3, <2>4
<1>3. t \in Seq(Msg) /\ Len(t) = StrChunks
  BY <1>1, <1>2, IsASeq
<1>4. \A i \in 1..StrChunks : t[i] = Bin(<<<<s, i>>>>)
  OBVIOUS
<1>5. Delimiter \in Msg
  BY TwoPeers, DelimiterTo
<1>6. InChunks(s) = Append(t, Delimiter)
  BY DEF InChunks
<1> HIDE DEF t
<1>7. /\ Append(t, Delimiter) \in Seq(Msg) /\ Len(Append(t, Delimiter)) = StrChunks + 1
      /\ Append(t, Delimiter)[StrChunks + 1] = Delimiter
      /\ \A i \in 1..StrChunks : Append(t, Delimiter)[i] = t[i]
  BY <1>1, <1>3, <1>5
<1> QED BY <1>4, <1>6, <1>7

\* The delimiter carries nothing, and a chunk one part of its string.
IsChunk(m, s) ==
    m.k = "bin" /\ m.data # <<>> /\ DOMAIN m.data = {1} /\ m.data[1][1] = s

\* So it is with the delimiter and the chunks.
LEMMA ChunkData ==
    /\ Delimiter.k = "delimiter" /\ Delimiter.data = <<>>
    /\ \A s, i, m : m = Bin(<<<<s, i>>>>) => IsChunk(m, s)
<1>1. Delimiter.k = "delimiter" /\ Delimiter.data = <<>>
  BY DEF Delimiter, Text
<1>2. ASSUME NEW s, NEW i, NEW m, m = Bin(<<<<s, i>>>>) PROVE IsChunk(m, s)
  <2>1. PICK u : u = <<s, i>>
    OBVIOUS
  <2>2. u[1] = s /\ m.k = "bin" /\ m.data = <<u>>
    BY <1>2, <2>1 DEF Bin
  <2>3. <<u>> # <<>> /\ DOMAIN <<u>> = {1} /\ <<u>>[1] = u
    OBVIOUS
  <2> QED BY <2>2, <2>3 DEF IsChunk
<1> QED BY <1>1, <1>2

\* They may be sent.
LEMMA TalkChunks ==
    ASSUME NEW s \in Strings
    PROVE  Talk(InChunks(s)) /\ (s.k # "list" => NoPart("list", InChunks(s)))
<1>1. PICK c : c = InChunks(s)
  OBVIOUS
<1>2. /\ c \in Seq(Msg) /\ Len(c) = StrChunks + 1 /\ c[StrChunks + 1] = Delimiter
      /\ \A i \in 1..StrChunks : c[i] = Bin(<<<<s, i>>>>)
  BY <1>1, ChunksAre
<1>3. \A i \in 1..Len(c) : i = Len(c) \/ i \in 1..StrChunks
  BY <1>2, StrChunksAssumption
<1>0. /\ c[Len(c)].k = "delimiter" /\ c[Len(c)].data = <<>>
      /\ \A i \in 1..StrChunks : IsChunk(c[i], s)
  BY <1>2, ChunkData
<1>4. NoEmpty(c)
  <2> SUFFICES ASSUME NEW i \in 1..Len(c), ~IsString(c[i]) PROVE c[i].data # <<>>
    BY DEF NoEmpty
  <2>1. i \in 1..StrChunks
    BY <1>0, <1>3 DEF IsString
  <2> QED BY <1>0, <2>1 DEF IsChunk
<1>5. ASSUME NEW k PROVE TextLast(k, <<>>, c)
  <2> SUFFICES ASSUME NEW i \in 1..Len(c), IsString(c[i]) PROVE i = Len(c)
    BY DEF TextLast
  <2> QED BY <1>0, <1>3 DEF IsString, IsChunk
<1>6. ASSUME s.k # "list" PROVE NoPart("list", c)
  <2> SUFFICES ASSUME NEW i \in 1..Len(c) PROVE ~HasPart("list", c[i].data)
    BY DEF NoPart
  <2>1. CASE i = Len(c)
    BY <1>0, <2>1, EndsNothing
  <2>2. CASE i \in 1..StrChunks
    BY <1>0, <1>6, <2>2 DEF IsChunk, HasPart, IsPart
  <2> QED BY <1>3, <2>1, <2>2
<1> QED BY <1>1, <1>2, <1>4, <1>5, <1>6 DEF Talk

\* Nothing before it.
LEMMA NothingBefore == ASSUME NEW s \in Seq(Msg) PROVE <<>> \o s = s
  OBVIOUS

\* A sender that fails.
LEMMA SenderFails ==
    ASSUME TaskTypes, FlowInv, Unlisted, UNCHANGED <<buf, sender, receiver>>,
           NEW msgs, Talk(msgs), NEW sts, NEW why, Fail("S", msgs, sts, why)
    PROVE  FlowInv'
<1>1. Passed("S", 0, msgs, {"dead"})
  BY TwoPeers, FailPasses DEF Talk
<1>2. {"dead"} \in SUBSET (SPcs \ {"sending", "status"}) /\ {"dead"} \ {"selection", "dead"} = {}
  BY DEF SPcs
<1> QED BY <1>1, <1>2, SenderTalks DEF Talk

\* A sender that goes on.
LEMMA SenderProceeds ==
    ASSUME TaskTypes, FlowInv, Unlisted, UNCHANGED <<buf, sender, receiver>>,
           NEW n \in {0, 1}, NEW msgs, Talk(msgs), NEW sts, NEW next \in SPcs \ {"sending", "status"},
           next # "selection" => NoPart("list", msgs), Proceed("S", n, msgs, sts, next)
    PROVE  FlowInv'
<1>1. Passed("S", n, msgs, {next, "dead"})
  BY TwoPeers, ProceedPasses DEF Talk
<1>2. PICK nexts : nexts = {next, "dead"}
  OBVIOUS
<1>3. /\ nexts \in SUBSET (SPcs \ {"sending", "status"})
      /\ \A x \in nexts \ {"selection", "dead"} : NoPart("list", msgs)
  BY <1>2 DEF SPcs
<1> QED BY <1>1, <1>2, <1>3, SenderTalks DEF Talk

\* The list.
LEMMA SenderLists ==
    ASSUME TaskTypes, FlowInv, Unlisted, UNCHANGED <<buf, sender, receiver>>,
           NEW sts, AfterPass("S", <<>>, sts)
    PROVE  FlowInv'
<1>1. Str("list", Files) \in Strings
  BY StringsAre
<1>2. PICK c : c = InChunks(Str("list", Files)) /\ Talk(c)
  BY <1>1, TalkChunks
<1>3. <<>> \o c = c
  BY <1>2, NothingBefore DEF Talk
<1>4. Proceed("S", 1, c, sts \cup {"Connected"}, "selection")
  BY <1>2, <1>3 DEF AfterPass
<1>5. "selection" \in SPcs \ {"sending", "status"}
  BY DEF SPcs
<1> QED BY <1>2, <1>4, <1>5, TwoPeers, SenderProceeds

\* A round of the sender's verify_pin.
LEMMA SenderChallenges ==
    ASSUME TaskTypes, FlowInv, Unlisted, UNCHANGED <<buf, sender, receiver>>,
           NEW guess, NEW n, NEW notice, NEW sts, verify_pin("S", guess, n, notice, <<>>, sts)
    PROVE  FlowInv'
<1>1. \A k \in {"pinRequired", "tooMany"} :
         /\ <<>> \o Notice("S", k) = Notice("S", k)
         /\ Talk(Notice("S", k)) /\ NoPart("list", Notice("S", k))
  <2> SUFFICES ASSUME NEW k \in {"pinRequired", "tooMany"}
               PROVE  /\ <<>> \o Notice("S", k) = Notice("S", k)
                      /\ Talk(Notice("S", k)) /\ NoPart("list", Notice("S", k))
    OBVIOUS
  <2>1. Str(k, {}) \in Strings /\ Str(k, {}).k # "list"
    BY StringsAre
  <2>2. PICK c : c = InChunks(Str(k, {})) /\ Talk(c) /\ NoPart("list", c)
    BY <2>1, TalkChunks
  <2>3. Notice("S", k) = c
    BY <2>2 DEF Notice
  <2>4. <<>> \o c = c
    BY <2>2, NothingBefore DEF Talk
  <2> QED BY <2>2, <2>3, <2>4
<1>2. CASE AfterPass("S", <<>>, sts)
  BY <1>2, SenderLists
<1>3. CASE Fail("S", <<>> \o Notice("S", "tooMany"), sts \cup {"TooManyAttempts"}, "tooMany")
  <2>1. PICK msgs : msgs = <<>> \o Notice("S", "tooMany") /\ Talk(msgs)
    BY <1>1
  <2> QED BY <1>3, <2>1, SenderFails
<1>4. CASE Proceed("S", 1, <<>> \o (IF notice THEN Notice("S", "pinRequired") ELSE <<>>), sts,
                   "verify")
  <2>1. <<>> \o <<>> = <<>>
    OBVIOUS
  <2>2. PICK msgs : /\ msgs = <<>> \o (IF notice THEN Notice("S", "pinRequired") ELSE <<>>)
                    /\ Talk(msgs) /\ NoPart("list", msgs)
    <3>1. CASE notice
      BY <1>1, <3>1
    <3>2. CASE ~notice
      BY <2>1, <3>2, TalkNone
    <3> QED BY <3>1, <3>2
  <2>3. "verify" \in SPcs \ {"sending", "status"}
    BY DEF SPcs
  <2> QED BY <1>4, <2>2, <2>3, TwoPeers, SenderProceeds
<1> QED BY <1>2, <1>3, <1>4 DEF verify_pin

\* The sender's own challenge, or the list.
LEMMA SenderOffers ==
    ASSUME TaskTypes, FlowInv, Unlisted, UNCHANGED <<buf, sender, receiver>>, OfferFiles
    PROVE  FlowInv'
<1>1. CASE Challenge("S", <<>>)
  <2>1. PICK n, notice, sts : n = 0 /\ notice = ("S" = "S") /\ sts = {"PinRequired"}
    OBVIOUS
  <2>2. verify_pin("S", EmptyPin, n, notice, <<>>, sts)
    BY <1>1, <2>1 DEF Challenge
  <2> QED BY <2>2, SenderChallenges
<1>2. CASE AfterPass("S", <<>>, {})
  BY <1>2, SenderLists
<1> QED BY <1>1, <1>2 DEF OfferFiles

\* A sender that sends a text and goes on.
LEMMA SenderTexts ==
    ASSUME TaskTypes, FlowInv, Unlisted, UNCHANGED <<buf, sender, receiver>>,
           NEW n \in {0, 1}, NEW m \in Msg, m.k # "bin", m.data = <<>>, NEW sts,
           NEW next \in SPcs \ {"sending", "status"}, Proceed("S", n, <<m>>, sts, next)
    PROVE  FlowInv'
  BY TalkText, SenderProceeds

\* A sender that goes on without a word.
LEMMA SenderSilent ==
    ASSUME TaskTypes, FlowInv, Unlisted, UNCHANGED <<buf, sender, receiver>>,
           NEW n \in {0, 1}, NEW sts, NEW next \in SPcs \ {"sending", "status"},
           Proceed("S", n, <<>>, sts, next)
    PROVE  FlowInv'
  BY TalkNone, SenderProceeds

\* The sender's nonce.
LEMMA SendNonceFlow == ASSUME TaskTypes, FlowInv, SendNonce PROVE FlowInv'
<1>0. pc["S"] = "start" /\ UNCHANGED <<buf, sender, receiver>> /\ Unlisted
  BY DEF SendNonce, Unlisted
<1>1. nonce'["S"] = GS
  BY TwoPeers DEF SendNonce, GS, TaskTypes
<1>2. PICK m : m = Text("nonce", GS)
  OBVIOUS
<1>3. Proceed("S", 0, <<m>>, {}, "nonce")
  BY <1>1, <1>2 DEF SendNonce
<1>4. m \in Msg /\ m.k # "bin" /\ m.data = <<>> /\ "nonce" \in SPcs \ {"sending", "status"}
  BY <1>2 DEF Text, Msg, SPcs
<1> QED BY <1>0, <1>3, <1>4, TwoPeers, SenderTexts

\* The sender's token.
LEMMA SendTokenFlow == ASSUME TaskTypes, GateInv, FlowInv, SendToken PROVE FlowInv'
<1>0. /\ pc["S"] = "nonce" /\ q["S"] # <<>> /\ UNCHANGED <<buf, sender, receiver>> /\ Unlisted
  BY DEF SendToken, Receives, Unlisted
<1>1. Arrived("S") \in Msg /\ ToOk("S", Arrived("S")) /\ nonce["S"] = GS
  <2>1. ControlOk("S", pc["S"], nonce["S"])
    BY TwoPeers DEF GateInv
  <2> QED BY <1>0, <2>1, TwoPeers, ArrivedIs DEF ControlOk
<1>2. CASE NonceArrives("S")
  <2>1. Arrived("S").v = GR
    BY <1>1, <1>2, TwoPeers DEF NonceArrives, ToOk, GR
  <2>2. nonce'["S"] = Full
    BY <1>1, <1>2, <2>1, SameNonce, TwoPeers DEF SendToken, TaskTypes
  <2>3. PICK m : m = Text("token", Token("S", Full))
    OBVIOUS
  <2>4. Proceed("S", 1, <<m>>, {}, "token")
    BY <1>2, <2>2, <2>3 DEF SendToken
  <2>5. m \in Msg /\ m.k # "bin" /\ m.data = <<>> /\ "token" \in SPcs \ {"sending", "status"}
    BY <2>3 DEF Text, Msg, SPcs
  <2> QED BY <1>0, <2>4, <2>5, TwoPeers, SenderTexts
<1>3. CASE ~NonceArrives("S")
  BY <1>0, <1>3, TalkNone, SenderFails DEF SendToken
<1> QED BY <1>2, <1>3

\* The answers to the sender's token and to its PIN.
LEMMA HandleResponsesFlow ==
    ASSUME TaskTypes, FlowInv, HandleTokenResponse \/ HandlePinReceivingResponse PROVE FlowInv'
<1>0. UNCHANGED <<buf, sender, receiver>> /\ Unlisted
  BY DEF HandleTokenResponse, HandlePinReceivingResponse, Receives, Unlisted
<1>1. ASSUME NEW sts, NEW why, Fail("S", <<>>, sts, why) PROVE FlowInv'
  BY <1>0, <1>1, TalkNone, SenderFails
<1>2. CASE Proceed("S", 1, <<>>, {"PinRequired"}, "askPin")
  <2>1. "askPin" \in SPcs \ {"sending", "status"}
    BY DEF SPcs
  <2> QED BY <1>0, <1>2, <2>1, TwoPeers, SenderSilent
<1>3. CASE OfferFiles
  BY <1>0, <1>3, SenderOffers
<1> QED BY <1>1, <1>2, <1>3 DEF HandleTokenResponse, HandlePinReceivingResponse

\* The PIN challenges of the sender.
LEMMA SenderPinFlow ==
    ASSUME TaskTypes, FlowInv, VerifyPin("S") \/ EnterPin("S") \/ DropPinRequest("S") PROVE FlowInv'
<1>0. UNCHANGED <<buf, sender, receiver>> /\ Unlisted
  BY DEF VerifyPin, EnterPin, DropPinRequest, Receives, Unlisted
<1>1. ASSUME NEW sts, NEW why, Fail("S", <<>>, sts, why) PROVE FlowInv'
  BY <1>0, <1>1, TalkNone, SenderFails
<1>2. CASE VerifyPin("S")
  <2>1. CASE verify_pin("S", Arrived("S").v, tries["S"] + 1, TRUE, <<>>, {})
    <3>1. PICK guess, n, yes : guess = Arrived("S").v /\ n = tries["S"] + 1 /\ yes = TRUE
      OBVIOUS
    <3>2. verify_pin("S", guess, n, yes, <<>>, {})
      BY <2>1, <3>1
    <3> QED BY <1>0, <3>2, SenderChallenges
  <2> QED BY <1>1, <1>2, <2>1 DEF VerifyPin
<1>3. CASE EnterPin("S")
  <2>1. PICK g \in Guesses : Proceed("S", 0, <<Text("pin", g)>>, {}, "pinRes")
    BY <1>3 DEF EnterPin
  <2>2. PICK m : m = Text("pin", g)
    OBVIOUS
  <2>3. m \in Msg /\ m.k # "bin" /\ m.data = <<>> /\ "pinRes" \in SPcs \ {"sending", "status"}
    BY <2>2 DEF Text, Msg, SPcs
  <2> QED BY <1>0, <2>1, <2>2, <2>3, TwoPeers, SenderTexts
<1>4. CASE DropPinRequest("S")
  BY <1>1, <1>4 DEF DropPinRequest
<1> QED BY <1>2, <1>3, <1>4

----------------------------------------------------------------------------
(* The receiver before its files *)

\* Messages that are around were.
LEMMA FromKeeps ==
    ASSUME NEW s \in Seq(Msg), NEW t \in Seq(Msg), From(t, s)
    PROVE  (NoPart("list", s) => NoPart("list", t)) /\ (NoEmpty(s) => NoEmpty(t))
<1>1. DOMAIN s = 1..Len(s) /\ DOMAIN t = 1..Len(t)
  OBVIOUS
<1> QED BY <1>1 DEF From, NoPart, NoEmpty

\* The answers on their way to the sender, when some are added.
LEMMA AnswersAdded ==
    ASSUME TaskTypes, StringInv, Unchosen' => Unchosen, selected \subseteq selected',
           NEW n, NEW nexts, NEW msgs \in Seq(Msg), Passed("R", n, msgs, nexts),
           \A d : \A i \in 1..Len(msgs) : d = msgs[i].data => OkParts(d)'
    PROVE  \A i \in DOMAIN q'["S"] : OkParts(q["S"][i].data)'
<1>1. /\ q["S"] \in Seq(Msg) /\ q'["S"] \in Seq(Msg) /\ IsFirst(q'["S"], Sent("R", msgs))
      /\ Sent("R", msgs) = (IF Live THEN q["S"] \o msgs ELSE q["S"])
  BY TwoPeers, SentFirst DEF Passed, TaskTypes
<1>2. IsBoth(q["S"] \o msgs, q["S"], msgs)
  BY <1>1, PartsAre
<1>3. ASSUME NEW i \in DOMAIN q'["S"], NEW d, d = q'["S"][i].data PROVE OkParts(d)'
  <2>1. i \in 1..Len(q'["S"]) /\ Len(q["S"]) \in Nat
    BY <1>1
  <2>2. ASSUME i \in 1..Len(q["S"]), q'["S"][i] = q["S"][i] PROVE OkParts(d)'
    <3>1. i \in DOMAIN q["S"]
      BY <1>1, <2>2
    <3>2. OkParts(q["S"][i].data)
      BY <3>1 DEF StringInv
    <3>3. OkParts(d)
      BY <1>3, <2>2, <3>2
    <3> QED BY <3>3, OkStable
  <2>3. CASE ~Live
    <3>1. i \in 1..Len(q["S"]) /\ q'["S"][i] = q["S"][i]
      BY <1>1, <2>1, <2>3 DEF IsFirst
    <3> QED BY <2>2, <3>1
  <2>4. CASE Live
    <3>1. PICK r : r = q["S"] \o msgs
      OBVIOUS
    <3>2. IsBoth(r, q["S"], msgs) /\ IsFirst(q'["S"], r)
      BY <1>1, <1>2, <2>4, <3>1
    <3>3. Len(r) = Len(q["S"]) + Len(msgs) /\ Len(msgs) \in Nat /\ i \in 1..Len(r)
          /\ q'["S"][i] = r[i]
      BY <2>1, <3>2 DEF IsBoth, IsFirst
    <3>4. CASE i \in 1..Len(q["S"])
      BY <2>2, <3>2, <3>3, <3>4 DEF IsBoth
    <3>5. CASE i \notin 1..Len(q["S"])
      <4>1. PICK j : j = i - Len(q["S"])
        OBVIOUS
      <4>2. j \in 1..Len(msgs) /\ i \in (Len(q["S"]) + 1) .. Len(r)
        BY <2>1, <3>3, <3>5, <4>1
      <4>3. r[i] = msgs[j]
        BY <3>2, <4>1, <4>2 DEF IsBoth
      <4>4. d = msgs[j].data
        BY <1>3, <3>3, <4>3
      <4> QED BY <4>2, <4>4
    <3> QED BY <3>4, <3>5
  <2> QED BY <2>3, <2>4
<1> QED BY <1>3

\* Messages a receiver may send before its answer to the list.
Reply(msgs) ==
    /\ msgs \in Seq(Msg) /\ NoEmpty(msgs)
    /\ \A i \in 1..Len(msgs) : ~IsResult(msgs[i]) /\ ~HasPart("ok", msgs[i].data)

\* A receiver that has not chosen takes a message or not, and says something.
LEMMA ReceiverTalks ==
    ASSUME TaskTypes, FlowInv, Unchosen, UNCHANGED <<sender, receiver>>,
           NEW n, NEW msgs, Reply(msgs), NEW nexts \in SUBSET (RPcs \ {"files"}),
           Passed("R", n, msgs, nexts),
           NEW b, buf' = [buf EXCEPT !["R"] = b], Unlisted => ~HasPart("list", b),
           Unseen' => TextLast("list", b, q'["R"]),
           pc'["R"] \notin {"list", "pinRes", "dead"} => b = <<>>,
           pc'["R"] = "select" => ~Unlisted /\ q'["R"] = <<>>
    PROVE  FlowInv'
<1>0. /\ pc'["S"] = pc["S"] /\ pc'["R"] \in nexts /\ pc["S"] \notin {"sending", "status"}
      /\ UNCHANGED <<given, selected>> /\ pc'["R"] # "files" /\ given = {} /\ selected = {}
      /\ fileMap = {} /\ fileMap' = {} /\ buf'["S"] = buf["S"] /\ buf'["R"] = b
  BY TwoPeers DEF Passed, TaskTypes, FlowInv, PhaseInv, sender, receiver
<1>1. /\ q["R"] \in Seq(Msg) /\ q'["R"] \in Seq(Msg) /\ From(q'["R"], q["R"])
  BY TwoPeers DEF Passed, TaskTypes
<1>2. PhaseInv'
  <2>1. (pc'["R"] \in {"select", "files"} => ~Unlisted')
    BY <1>0 DEF Unlisted
  <2> QED BY <1>0, <2>1 DEF PhaseInv
<1>3. StringInv'
  <2>1. (Unchosen' => Unchosen) /\ selected \subseteq selected' /\ (Unlisted' => Unlisted)
    BY <1>0 DEF Unlisted
  <2>2. \A d : \A i \in 1..Len(msgs) : d = msgs[i].data => OkParts(d)'
    BY DEF OkParts, HasPart, Reply
  <2>3. \A i \in DOMAIN q'["S"] : OkParts(q["S"][i].data)'
    BY <2>1, <2>2, AnswersAdded DEF FlowInv, Reply
  <2>4. OkParts(buf["S"])'
    <3>1. \A d : d = buf["S"] => OkParts(d)'
      BY <2>1, OkStable DEF FlowInv, StringInv
    <3> QED BY <1>0, <3>1
  <2>5. (Unlisted => NoPart("list", q'["R"])) /\ NoEmpty(q'["R"])
    BY <1>1, FromKeeps DEF FlowInv, StringInv
  <2>6. /\ (Unlisted' => ~HasPart("list", buf["R"])' /\ NoPart("list", q["R"])')
        /\ (Unseen' => TextLast("list", buf["R"], q["R"])') /\ NoEmpty(q["R"])'
    BY <1>0, <2>1, <2>5 DEF HasPart, NoPart, NoEmpty, TextLast, Ends
  <2> QED BY <2>3, <2>4, <2>6 DEF StringInv
<1>4. FileInv'
  BY FileSame DEF FlowInv
<1>5. StreamInv'
  BY <1>0 DEF StreamInv
<1>6. StatusInv'
  <2>1. /\ buf["S"] \in Seq(Unit) /\ q["S"] \in Seq(Msg) /\ DOMAIN q["S"] = 1..Len(q["S"])
    BY TwoPeers DEF TaskTypes
  <2>2. ~HasPart("ok", buf["S"]) /\ NoPart("ok", q["S"])
    BY <2>1 DEF FlowInv, StringInv, OkParts, HasPart, NoPart
  <2>3. msgs \in Seq(Msg) /\ NoEmpty(msgs) /\ Answered(msgs)'
    BY DEF Reply, Answered
  <2>4. TextLast("ok", <<>>, msgs)
    <3>1. NoPart("ok", msgs) /\ <<>> \in Seq(Unit)
      BY DEF Reply, NoPart
    <3> QED BY <2>3, <3>1, EndsNothing, NoPartLast
  <2>5. AnswersStay /\ StatusInv
    BY DEF AnswersStay, receiver, FlowInv
  <2> QED BY <1>0, <2>2, <2>3, <2>4, <2>5, StatusSaid
<1> QED BY <1>2, <1>3, <1>4, <1>5, <1>6 DEF FlowInv

\* No message.
LEMMA ReplyNone == Reply(<<>>)
  BY DEF Reply, NoEmpty

\* A text of the PIN challenges.
IsTalk(m) == m \in Msg /\ m.data = <<>> /\ m.k \in {"nonce", "tokenRes", "pin", "pinRes"}

\* It may be sent.
LEMMA ReplyText == ASSUME NEW m, IsTalk(m) PROVE Reply(<<m>>)
<1>1. <<m>> \in Seq(Msg) /\ Len(<<m>>) = 1 /\ <<m>>[1] = m
  BY DEF IsTalk
<1> QED BY <1>1, EndsNothing DEF Reply, NoEmpty, IsTalk, IsResult, IsString

\* A text after others.
LEMMA ReplyMore ==
    ASSUME NEW msgs, Reply(msgs), NEW m, IsTalk(m)
    PROVE  /\ Reply(Append(msgs, m)) /\ Reply(msgs \o <<m>>)
           /\ Reply(msgs \o <<>>)
<1>1. msgs \in Seq(Msg) /\ Len(msgs) \in Nat /\ m \in Msg
  BY DEF Reply, IsTalk
<1>2. PICK r : r = Append(msgs, m)
  OBVIOUS
<1>3. msgs \o <<m>> = r /\ msgs \o <<>> = msgs
  BY <1>1, <1>2
<1>4. /\ r \in Seq(Msg) /\ Len(r) = Len(msgs) + 1 /\ r[Len(msgs) + 1] = m
      /\ \A i \in 1..Len(msgs) : r[i] = msgs[i]
  BY <1>1, <1>2
<1>5. Reply(r)
  <2> SUFFICES ASSUME NEW i \in 1..Len(r)
               PROVE  /\ ~IsString(r[i]) => r[i].data # <<>>
                      /\ ~IsResult(r[i]) /\ ~HasPart("ok", r[i].data)
    BY <1>4 DEF Reply, NoEmpty
  <2>1. CASE i = Len(msgs) + 1
    BY <1>4, <2>1, EndsNothing DEF IsTalk, IsString, IsResult
  <2>2. CASE i \in 1..Len(msgs)
    BY <1>4, <2>2 DEF Reply, NoEmpty
  <2> QED BY <1>1, <1>4, <2>1, <2>2
<1> QED BY <1>2, <1>3, <1>5

\* The chunks of another string.
LEMMA ReplyChunks == ASSUME NEW s \in Strings, s.k # "ok" PROVE Reply(InChunks(s))
<1>1. PICK c : c = InChunks(s)
  OBVIOUS
<1>2. /\ c \in Seq(Msg) /\ Len(c) = StrChunks + 1 /\ c[StrChunks + 1] = Delimiter
      /\ \A i \in 1..StrChunks : c[i] = Bin(<<<<s, i>>>>)
  BY <1>1, ChunksAre
<1>3. /\ c[Len(c)].data = <<>> /\ c[Len(c)].k = "delimiter" /\ \A i \in 1..StrChunks : IsChunk(c[i], s)
  BY <1>2, ChunkData
<1>4. ASSUME NEW i \in 1..Len(c)
      PROVE  /\ ~IsString(c[i]) => c[i].data # <<>>
             /\ ~IsResult(c[i]) /\ ~HasPart("ok", c[i].data)
  <2>1. i = Len(c) \/ i \in 1..StrChunks
    BY <1>2, StrChunksAssumption
  <2>2. CASE i = Len(c)
    BY <1>3, <2>2, EndsNothing DEF IsString, IsResult
  <2>3. CASE i \in 1..StrChunks
    BY <1>3, <2>3 DEF IsChunk, HasPart, IsPart, IsResult
  <2> QED BY <2>1, <2>2, <2>3
<1> QED BY <1>1, <1>2, <1>4 DEF Reply, NoEmpty

\* The buffer of the receiver, left alone or emptied.
KeepsBuffer == UNCHANGED buf \/ buf' = [buf EXCEPT !["R"] = <<>>]

\* What it then tells.
LEMMA BufferKept ==
    ASSUME TaskTypes, FlowInv, KeepsBuffer
    PROVE  \E b : /\ buf' = [buf EXCEPT !["R"] = b] /\ (Unlisted => ~HasPart("list", b))
                  /\ b = <<>> \/ (b = buf["R"] /\ UNCHANGED buf)
<1>1. CASE UNCHANGED buf
  <2>1. buf' = [buf EXCEPT !["R"] = buf["R"]]
    BY <1>1 DEF TaskTypes
  <2> QED BY <1>1, <2>1 DEF FlowInv, StringInv
<1>2. CASE buf' = [buf EXCEPT !["R"] = <<>>]
  BY <1>2, EndsNothing
<1> QED BY <1>1, <1>2 DEF KeepsBuffer

\* A receiver that returns.
LEMMA ReceiverEnds ==
    ASSUME TaskTypes, FlowInv, Unchosen, UNCHANGED <<sender, receiver>>, KeepsBuffer,
           NEW n, NEW msgs, Reply(msgs), Passed("R", n, msgs, {"dead"})
    PROVE  FlowInv'
<1>1. PICK b : buf' = [buf EXCEPT !["R"] = b] /\ (Unlisted => ~HasPart("list", b))
  BY BufferKept
<1>2. {"dead"} \in SUBSET (RPcs \ {"files"}) /\ pc'["R"] = "dead"
  BY DEF RPcs, Passed
<1>3. ~Unseen'
  BY <1>2 DEF Unseen
<1> QED BY <1>1, <1>2, <1>3, ReceiverTalks

\* A receiver that fails.
LEMMA ReceiverFails ==
    ASSUME TaskTypes, FlowInv, Unchosen, UNCHANGED <<sender, receiver>>, KeepsBuffer,
           NEW msgs, Reply(msgs), NEW sts, NEW why, Fail("R", msgs, sts, why)
    PROVE  FlowInv'
<1>1. Passed("R", 0, msgs, {"dead"})
  BY TwoPeers, FailPasses DEF Reply
<1> QED BY <1>1, ReceiverEnds

\* A receiver that is done before any file.
LEMMA ReceiverCompletes ==
    ASSUME TaskTypes, FlowInv, Unchosen, UNCHANGED <<sender, receiver>>, KeepsBuffer,
           NEW msgs, Reply(msgs), NEW sts, Complete("R", msgs, sts)
    PROVE  FlowInv'
<1>1. Passed("R", 0, msgs, {"dead"})
  BY TwoPeers, CompletePasses DEF Reply
<1> QED BY <1>1, ReceiverEnds

\* A receiver that takes a message, replies and goes on, with an empty buffer.
LEMMA ReceiverProceeds ==
    ASSUME TaskTypes, FlowInv, Unseen, UNCHANGED <<sender, receiver>>, q["R"] # <<>>,
           KeepsBuffer, buf'["R"] = <<>>, NEW msgs, Reply(msgs), NEW sts,
           NEW next \in RPcs \ {"files", "select"}, Proceed("R", 1, msgs, sts, next)
    PROVE  FlowInv'
<1>1. Passed("R", 1, msgs, {next, "dead"}) /\ Unchosen
  BY TwoPeers, ProceedPasses DEF Reply, Unseen, Unchosen
<1>2. PICK nexts : nexts = {next, "dead"} /\ nexts \in SUBSET (RPcs \ {"files"}) /\ pc'["R"] \in nexts
  BY <1>1 DEF RPcs, Passed
<1>3. PICK b : buf' = [buf EXCEPT !["R"] = b] /\ (Unlisted => ~HasPart("list", b))
  BY BufferKept
<1>4. b = <<>>
  BY <1>3, TwoPeers DEF TaskTypes
<1>5. ASSUME Unseen' PROVE TextLast("list", <<>>, q'["R"])
  <2>1. pc'["R"] # "dead"
    BY <1>5 DEF Unseen
  <2>2. q["R"] \in Seq(Msg) /\ q'["R"] = SubSeq(q["R"], 1 + 1, Len(q["R"]))
    BY <1>1, <2>1, TwoPeers DEF Passed, TaskTypes
  <2>3. PICK t : t = q'["R"]
    OBVIOUS
  <2>4. t \in Seq(Msg) /\ IsRest(t, q["R"])
    <3>1. 1 + 1 = 2
      OBVIOUS
    <3> QED BY <2>2, <2>3, <3>1, PartsAre
  <2>5. TextLast("list", buf["R"], q["R"])
    BY DEF FlowInv, StringInv
  <2> QED BY <2>2, <2>3, <2>4, <2>5, RestKeeps
<1>6. pc'["R"] # "select"
  BY <1>2
<1> QED BY <1>1, <1>2, <1>3, <1>4, <1>5, <1>6, ReceiverTalks

\* A round of the receiver's verify_pin.
LEMMA ReceiverChallenges ==
    ASSUME TaskTypes, FlowInv, Unseen, UNCHANGED <<buf, sender, receiver>>, q["R"] # <<>>,
           buf["R"] = <<>>, NEW guess, NEW n, NEW notice, NEW msgs, Reply(msgs), NEW sts,
           verify_pin("R", guess, n, notice, msgs, sts)
    PROVE  FlowInv'
<1>0. KeepsBuffer /\ buf'["R"] = <<>> /\ Unchosen
  BY DEF KeepsBuffer, Unseen, Unchosen
<1>1. ASSUME NEW k \in {"ok", "pinRequired", "tooMany"}
      PROVE  IsTalk(Text("pinRes", k))
  BY DEF Text, Msg, IsTalk
<1>2. ASSUME NEW next \in {"list", "verify"}, NEW all, Reply(all), Proceed("R", 1, all, sts, next)
      PROVE  FlowInv'
  <2>1. next \in RPcs \ {"files", "select"}
    BY <1>2 DEF RPcs
  <2> QED BY <1>0, <1>2, <2>1, ReceiverProceeds
<1>3. CASE AfterPass("R", msgs, sts)
  <2>1. Reply(Append(msgs, Text("pinRes", "ok")))
    BY <1>1, ReplyMore
  <2>2. Proceed("R", 1, Append(msgs, Text("pinRes", "ok")), sts, "list")
    BY <1>3 DEF AfterPass
  <2> QED BY <1>2, <2>1, <2>2
<1>4. CASE Fail("R", msgs \o Notice("R", "tooMany"), sts \cup {"TooManyAttempts"}, "tooMany")
  <2>1. Reply(msgs \o Notice("R", "tooMany"))
    BY <1>1, ReplyMore DEF Notice
  <2> QED BY <1>0, <1>4, <2>1, ReceiverFails
<1>5. CASE Proceed("R", 1, msgs \o (IF notice THEN Notice("R", "pinRequired") ELSE <<>>), sts,
                   "verify")
  <2>1. Reply(msgs \o (IF notice THEN Notice("R", "pinRequired") ELSE <<>>))
    <3>1. Reply(msgs \o Notice("R", "pinRequired")) /\ Reply(msgs \o <<>>)
      BY <1>1, ReplyMore DEF Notice
    <3> QED BY <3>1
  <2> QED BY <1>2, <1>5, <2>1
<1> QED BY <1>3, <1>4, <1>5 DEF verify_pin

\* The receiver's nonce.
LEMMA ReceiveNonceFlow == ASSUME TaskTypes, FlowInv, ReceiveNonce PROVE FlowInv'
<1>0. /\ pc["R"] = "nonce" /\ q["R"] # <<>> /\ UNCHANGED <<buf, sender, receiver>>
      /\ Unseen /\ Unchosen /\ KeepsBuffer /\ buf'["R"] = <<>>
  BY DEF ReceiveNonce, Receives, Unseen, Unchosen, KeepsBuffer, FlowInv, PhaseInv
<1>1. CASE Proceed("R", 1, <<Text("nonce", generate_nonce("R"))>>, {}, "token")
  <2>1. PICK m : m = Text("nonce", generate_nonce("R"))
    OBVIOUS
  <2>2. IsTalk(m) /\ "token" \in RPcs \ {"files", "select"}
    BY <2>1 DEF Text, Msg, GR, RPcs, IsTalk
  <2>3. Reply(<<m>>)
    BY <2>2, ReplyText
  <2> QED BY <1>0, <1>1, <2>1, <2>2, <2>3, ReceiverProceeds
<1>2. CASE Fail("R", <<>>, {}, "parse")
  BY <1>0, <1>2, ReplyNone, ReceiverFails
<1> QED BY <1>1, <1>2 DEF ReceiveNonce

\* The sender's token.
LEMMA HandleTokenRequestFlow ==
    ASSUME TaskTypes, GateInv, FlowInv, HandleTokenRequest PROVE FlowInv'
<1>0. /\ pc["R"] = "token" /\ q["R"] # <<>> /\ UNCHANGED <<buf, sender, receiver>>
      /\ Unseen /\ Unchosen /\ KeepsBuffer /\ buf'["R"] = <<>> /\ buf["R"] = <<>>
  BY DEF HandleTokenRequest, Receives, Unseen, Unchosen, KeepsBuffer, FlowInv, PhaseInv
<1>1. nonce["R"] = Full
  <2>1. ControlOk("R", pc["R"], nonce["R"])
    BY TwoPeers DEF GateInv
  <2> QED BY <1>0, <2>1 DEF ControlOk
<1>2. ASSUME NEW r \in {"ok", "pinRequired", "invalidSignature"}, NEW t \in {None, Token("R", Full)}
      PROVE  Reply(TokenResponse(r, t))
  <2>1. PICK v : v = [result |-> r, token |-> t]
    OBVIOUS
  <2>2. v \in Responses
    BY <2>1 DEF Responses
  <2>3. IsTalk(Text("tokenRes", v))
    BY <2>2 DEF Text, Msg, IsTalk
  <2>4. Reply(<<Text("tokenRes", v)>>)
    BY <2>3, ReplyText
  <2> QED BY <2>1, <2>4 DEF TokenResponse
<1>3. CASE Fail("R", <<>>, {}, "parse")
  BY <1>0, <1>3, ReplyNone, ReceiverFails
<1>4. CASE Fail("R", TokenResponse("invalidSignature", None), {}, "untrusted")
  <2>1. Reply(TokenResponse("invalidSignature", None))
    BY <1>2
  <2> QED BY <1>0, <1>4, <2>1, ReceiverFails
<1>5. CASE Proceed("R", 1, TokenResponse("ok", Token("R", nonce["R"])), {}, "list")
  <2>1. Reply(TokenResponse("ok", Token("R", nonce["R"])))
    BY <1>1, <1>2
  <2>2. "list" \in RPcs \ {"files", "select"}
    BY DEF RPcs
  <2> QED BY <1>0, <1>5, <2>1, <2>2, ReceiverProceeds
<1>6. CASE Challenge("R", TokenResponse("pinRequired", Token("R", nonce["R"])))
  <2>1. PICK msgs, n, no, sts : /\ msgs = TokenResponse("pinRequired", Token("R", nonce["R"]))
                                /\ n = 0 /\ no = ("R" = "S") /\ sts = {"PinRequired"}
    OBVIOUS
  <2>2. verify_pin("R", EmptyPin, n, no, msgs, sts) /\ Reply(msgs)
    BY <1>1, <1>2, <1>6, <2>1 DEF Challenge
  <2> QED BY <1>0, <2>2, ReceiverChallenges
<1> QED BY <1>3, <1>4, <1>5, <1>6 DEF HandleTokenRequest

\* A PIN arrives, and the request for a PIN is dropped.
LEMMA ReceiverPinFlow ==
    ASSUME TaskTypes, FlowInv, VerifyPin("R") \/ DropPinRequest("R") PROVE FlowInv'
<1>0. /\ UNCHANGED <<buf, sender, receiver>> /\ Unseen /\ Unchosen /\ KeepsBuffer
      /\ buf["R"] = <<>>
  BY DEF VerifyPin, DropPinRequest, Receives, Unseen, Unchosen, KeepsBuffer, FlowInv, PhaseInv
<1>1. ASSUME NEW sts, NEW why, Fail("R", <<>>, sts, why) PROVE FlowInv'
  BY <1>0, <1>1, ReplyNone, ReceiverFails
<1>2. CASE VerifyPin("R") /\ verify_pin("R", Arrived("R").v, tries["R"] + 1, TRUE, <<>>, {})
  <2>1. PICK guess, n, yes : guess = Arrived("R").v /\ n = tries["R"] + 1 /\ yes = TRUE
    OBVIOUS
  <2>2. verify_pin("R", guess, n, yes, <<>>, {}) /\ q["R"] # <<>>
    BY <1>2, <2>1 DEF VerifyPin, Receives
  <2> QED BY <1>0, <2>2, ReplyNone, ReceiverChallenges
<1> QED BY <1>1, <1>2 DEF VerifyPin, DropPinRequest

\* The user of the receiver types a PIN.
LEMMA ReceiverEntersFlow == ASSUME TaskTypes, FlowInv, EnterPin("R") PROVE FlowInv'
<1>0. /\ pc["R"] = "askPin" /\ UNCHANGED <<buf, sender, receiver>> /\ Unseen /\ Unchosen
      /\ buf["R"] = <<>>
  BY DEF EnterPin, Unseen, Unchosen, FlowInv, PhaseInv
<1>1. PICK g \in Guesses : Proceed("R", 0, <<Text("pin", g)>>, {}, "pinRes")
  BY DEF EnterPin
<1>2. PICK m : m = Text("pin", g)
  OBVIOUS
<1>3. IsTalk(m) /\ {"pinRes", "dead"} \in SUBSET (RPcs \ {"files"})
  BY <1>2 DEF Text, Msg, RPcs, IsTalk
<1>4. PICK msgs : msgs = <<m>> /\ Reply(msgs)
  BY <1>3, ReplyText
<1>5. Passed("R", 0, msgs, {"pinRes", "dead"})
  BY <1>1, <1>2, <1>4, TwoPeers, ProceedPasses DEF Reply
<1>6. buf' = [buf EXCEPT !["R"] = <<>>] /\ ~HasPart("list", <<>>)
  BY <1>0, EndsNothing DEF TaskTypes
<1>7. ASSUME Unseen' PROVE TextLast("list", <<>>, q'["R"])
  <2>1. q'["R"] = SubSeq(q["R"], 0 + 1, Len(q["R"])) /\ q["R"] \in Seq(Msg)
    BY <1>5, <1>7, TwoPeers DEF Passed, TaskTypes, Unseen
  <2>2. q'["R"] = q["R"]
    BY <2>1, AllOf
  <2>3. TextLast("list", buf["R"], q["R"])
    BY <1>0 DEF FlowInv, StringInv
  <2> QED BY <1>0, <2>2, <2>3
<1>8. pc'["R"] # "select"
  BY <1>5 DEF Passed
<1> QED BY <1>0, <1>3, <1>4, <1>5, <1>6, <1>7, <1>8, ReceiverTalks

\* The user declines, or nobody asks the user.
LEMMA DeclineFlow == ASSUME TaskTypes, FlowInv, Decline \/ DropSelection PROVE FlowInv'
<1>0. UNCHANGED <<buf, sender, receiver>> /\ Unchosen /\ KeepsBuffer
  BY DEF Decline, DropSelection, Unchosen, KeepsBuffer
<1>1. Str("declined", {}) \in Strings /\ Str("declined", {}).k # "ok"
  BY StringsAre
<1>2. Reply(InChunks(Str("declined", {}))) /\ Reply(<<>>)
  BY <1>1, ReplyChunks, ReplyNone
<1> QED BY <1>0, <1>2, ReceiverCompletes DEF Decline, DropSelection

----------------------------------------------------------------------------
(* The receiver and the file list *)

\* The end and the parts of two sequences.
LEMMA EndsBoth ==
    ASSUME NEW b \in Seq(Unit), NEW d \in Seq(Unit)
    PROVE  /\ \A k : d # <<>> /\ Ends(k, b \o d) => Ends(k, d)
           /\ \A k : HasPart(k, b \o d) => HasPart(k, b) \/ HasPart(k, d)
<1>1. PICK r : r = b \o d
  OBVIOUS
<1>2. r \in Seq(Unit) /\ IsBoth(r, b, d)
  BY <1>1, PartsAre
<1>3. ASSUME NEW k, d # <<>>, Ends(k, r) PROVE Ends(k, d)
  <2>1. /\ Len(r) \in (Len(b) + 1) .. Len(r) /\ Len(r) - Len(b) = Len(d)
    BY <1>2, <1>3 DEF IsBoth
  <2>2. r[Len(r)] = d[Len(d)]
    BY <1>2, <2>1 DEF IsBoth
  <2> QED BY <1>3, <2>2 DEF Ends
<1>4. ASSUME NEW k, HasPart(k, r) PROVE HasPart(k, b) \/ HasPart(k, d)
  BY <1>1, <1>4, FromLonger DEF HasPart
<1> QED BY <1>1, <1>3, <1>4

\* A chunk is taken.
LEMMA ChunkTaken ==
    ASSUME NEW s \in Seq(Msg), NEW t \in Seq(Msg), s # <<>>, IsRest(t, s), NEW b \in Seq(Unit),
           NEW k, TextLast(k, b, s), s[1].data # <<>>
    PROVE  TextLast(k, b \o s[1].data, t)
<1>0. /\ Len(s) \in Nat \ {0} /\ Len(t) \in Nat /\ Len(t) = Len(s) - 1
      /\ \A i \in 1..Len(t) : t[i] = s[i + 1]
  BY DEF IsRest
<1>1. PICK d \in Seq(Unit) : d = s[1].data
  <2>1. s[1] \in Msg
    BY <1>0
  <2> QED BY <2>1, MsgIs
<1> SUFFICES ASSUME NEW i \in 1..Len(t), IsString(t[i]),
                    Ends(k, IF i = 1 THEN b \o d ELSE t[i - 1].data)
             PROVE  i = Len(t)
  BY <1>1 DEF TextLast
<1>2. Ends(k, s[i].data)
  <2>1. CASE i = 1
    BY <1>1, <2>1, EndsBoth
  <2>2. CASE i # 1
    <3>1. i - 1 \in 1..Len(t) /\ i - 1 + 1 = i
      BY <1>0, <2>2
    <3> QED BY <1>0, <2>2, <3>1
  <2> QED BY <2>1, <2>2
<1>3. PICK j : j = i + 1
  OBVIOUS
<1>4. j \in 1..Len(s) /\ j # 1 /\ j - 1 = i /\ IsString(s[j])
  BY <1>0, <1>3
<1>5. j = Len(s)
  BY <1>2, <1>4 DEF TextLast
<1> QED BY <1>0, <1>3, <1>5

\* The receiver takes one message and stays with its string.
LEMMA ReceiverCollects == ASSUME TaskTypes, FlowInv, ReceiveChunk("R") PROVE FlowInv'
<1>0. /\ pc["R"] \in {"list", "pinRes"} /\ q["R"] # <<>> /\ UNCHANGED <<sender, receiver>>
      /\ Unseen /\ Unchosen /\ ~IsString(Arrived("R"))
  BY DEF ReceiveChunk, ChunkStates, Unseen, Unchosen
<1>1. /\ q["R"] \in Seq(Msg) /\ Arrived("R") = q["R"][1] /\ q["R"][1] \in Msg
      /\ 1 \in 1..Len(q["R"]) /\ buf["R"] \in Seq(Unit)
  BY <1>0, TwoPeers DEF TaskTypes, Arrived
<1>2. PICK d \in Seq(Unit) : d = q["R"][1].data
  BY <1>1, MsgIs
<1>3. d # <<>>
  BY <1>0, <1>1, <1>2 DEF FlowInv, StringInv, NoEmpty
<1>4. PICK b : b = buf["R"] \o d
  OBVIOUS
<1>5. buf' = [buf EXCEPT !["R"] = b]
  BY <1>1, <1>2, <1>4 DEF ReceiveChunk
<1>6. Passed("R", 1, <<>>, {pc["R"], "dead"})
  BY TwoPeers, ProceedPasses, TalkNone DEF ReceiveChunk, Talk
<1>7. Unlisted => ~HasPart("list", b)
  <2>1. Unlisted => ~HasPart("list", buf["R"]) /\ ~HasPart("list", d)
    BY <1>1, <1>2 DEF FlowInv, StringInv, NoPart
  <2> QED BY <1>1, <1>4, <2>1, EndsBoth
<1>8. ASSUME Unseen' PROVE TextLast("list", b, q'["R"])
  <2>1. q'["R"] = SubSeq(q["R"], 1 + 1, Len(q["R"])) /\ 1 + 1 = 2
    BY <1>6, <1>8 DEF Passed, Unseen
  <2>2. PICK t : t = q'["R"]
    OBVIOUS
  <2>3. t \in Seq(Msg) /\ IsRest(t, q["R"])
    BY <1>0, <1>1, <2>1, <2>2, PartsAre
  <2>4. TextLast("list", buf["R"], q["R"])
    BY <1>0 DEF FlowInv, StringInv
  <2>5. TextLast("list", buf["R"] \o q["R"][1].data, t)
    BY <1>0, <1>1, <1>2, <1>3, <2>3, <2>4, ChunkTaken
  <2> QED BY <1>2, <1>4, <2>2, <2>5
<1>9. PICK nexts : nexts = {pc["R"], "dead"} /\ nexts \in SUBSET (RPcs \ {"files"})
  BY <1>0 DEF RPcs
<1>10. pc'["R"] \in {"list", "pinRes", "dead"}
  BY <1>0, <1>6 DEF Passed
<1> QED BY <1>0, <1>5, <1>6, <1>7, <1>8, <1>9, <1>10, ReplyNone, ReceiverTalks

\* A string that is complete was sent, and its text is the last message.
LEMMA StringEnds ==
    ASSUME NEW k, NEW b \in Seq(Unit), Parses(b, k), NEW t \in Seq(Msg), TextLast(k, b, t),
           t # <<>>, IsString(t[1])
    PROVE  HasPart(k, b) /\ Len(t) = 1
<1>1. PICK s \in Strings : s.k = k /\ b = Pieces(s)
  BY DEF Parses
<1>3. b = [i \in 1..StrChunks |-> <<s, i>>]
  BY <1>1 DEF Pieces
<1>4. StrChunks \in Nat \ {0} /\ DOMAIN b = 1..StrChunks /\ DOMAIN b = 1..Len(b) /\ Len(b) \in Nat
  BY <1>3, StrChunksAssumption
<1>5. Len(b) = StrChunks
  BY <1>4
<1>6. b[Len(b)] = <<s, StrChunks>> /\ b # <<>>
  BY <1>3, <1>4, <1>5
<1>7. Ends(k, b)
  <2>1. PICK u : u = b[Len(b)]
    OBVIOUS
  <2>2. u[1] = s
    BY <1>6, <2>1
  <2> QED BY <1>1, <1>6, <2>1, <2>2 DEF Ends, IsPart
<1>8. HasPart(k, b)
  BY <1>7, EndsIn
<1>9. 1 \in 1..Len(t)
  OBVIOUS
<1>10. 1 = Len(t)
  BY <1>7, <1>9 DEF TextLast
<1> QED BY <1>8, <1>10

\* A file list that has arrived was sent, and nothing follows it.
LEMMA ListEnds ==
    ASSUME TaskTypes, FlowInv, Unseen, q["R"] # <<>>, IsString(q["R"][1]), Parses(buf["R"], "list")
    PROVE  ~Unlisted /\ Len(q["R"]) = 1
<1>1. PICK b \in Seq(Unit), t \in Seq(Msg) : b = buf["R"] /\ t = q["R"]
  BY TwoPeers DEF TaskTypes
<1>2. TextLast("list", b, t)
  BY <1>1 DEF FlowInv, StringInv
<1>3. HasPart("list", b) /\ Len(t) = 1
  BY <1>1, <1>2, StringEnds
<1> QED BY <1>1, <1>3 DEF FlowInv, StringInv

\* The receiver shows the files to its app.
LEMMA ReceiverShows ==
    ASSUME TaskTypes, FlowInv, Unseen, UNCHANGED <<sender, receiver>>, q["R"] # <<>>,
           ~Unlisted, Len(q["R"]) = 1, buf' = [buf EXCEPT !["R"] = <<>>], NEW sts,
           Proceed("R", 1, <<>>, sts, "select")
    PROVE  FlowInv'
<1>1. Passed("R", 1, <<>>, {"select", "dead"}) /\ Unchosen
  BY TwoPeers, ProceedPasses, TalkNone DEF Talk, Unseen, Unchosen
<1>2. {"select", "dead"} \in SUBSET (RPcs \ {"files"}) /\ ~Unseen'
  BY <1>1 DEF RPcs, Passed, Unseen
<1>3. ASSUME pc'["R"] = "select" PROVE q'["R"] = <<>>
  <2>1. q["R"] \in Seq(Msg) /\ q'["R"] = SubSeq(q["R"], 1 + 1, Len(q["R"])) /\ 1 + 1 = 2
    BY <1>1, <1>3, TwoPeers DEF Passed, TaskTypes
  <2>2. PICK t : t = q'["R"]
    OBVIOUS
  <2>3. t \in Seq(Msg) /\ IsRest(t, q["R"])
    BY <2>1, <2>2, PartsAre
  <2>4. Len(t) = 0
    BY <2>3 DEF IsRest
  <2> QED BY <2>2, <2>3, <2>4
<1> QED BY <1>1, <1>2, <1>3, ReplyNone, ReceiverTalks

\* The sender's answer is complete.
LEMMA HandlePinSendingResponseFlow ==
    ASSUME TaskTypes, FlowInv, HandlePinSendingResponse PROVE FlowInv'
<1>0. /\ q["R"] # <<>> /\ IsString(Arrived("R")) /\ UNCHANGED <<sender, receiver>>
      /\ Unseen /\ Unchosen /\ buf' = [buf EXCEPT !["R"] = <<>>]
  BY DEF HandlePinSendingResponse, Ended, Receives, Unseen, Unchosen
<1>1. KeepsBuffer /\ buf'["R"] = <<>> /\ Arrived("R") = q["R"][1]
  BY <1>0, TwoPeers DEF KeepsBuffer, TaskTypes, Arrived
<1>2. ASSUME NEW sts, NEW why, Fail("R", <<>>, sts, why) PROVE FlowInv'
  BY <1>0, <1>1, <1>2, ReplyNone, ReceiverFails
<1>3. CASE Parses(buf["R"], "list") /\ Proceed("R", 1, <<>>, {"Connected"}, "select")
  <2>1. ~Unlisted /\ Len(q["R"]) = 1
    BY <1>0, <1>1, <1>3, ListEnds
  <2> QED BY <1>0, <1>3, <2>1, ReceiverShows
<1>4. CASE Proceed("R", 1, <<>>, {"PinRequired"}, "askPin")
  <2>1. "askPin" \in RPcs \ {"files", "select"}
    BY DEF RPcs
  <2> QED BY <1>0, <1>1, <1>4, <2>1, ReplyNone, ReceiverProceeds
<1> QED BY <1>2, <1>3, <1>4 DEF HandlePinSendingResponse, ShowFiles

----------------------------------------------------------------------------
(* The selection *)

\* An answer with the selected files.
LEMMA OkChunks ==
    ASSUME NEW fs \in SUBSET Files, ~Unchosen', selected' = fs
    PROVE  \A d : \A i \in 1..Len(InChunks(Str("ok", fs))) :
              d = InChunks(Str("ok", fs))[i].data => OkParts(d)'
<1>1. PICK s : s = Str("ok", fs)
  OBVIOUS
<1>2. s \in Strings /\ s.files = fs
  BY <1>1, StringsAre DEF Str
<1>3. PICK c : c = InChunks(s)
  OBVIOUS
<1>4. /\ c \in Seq(Msg) /\ Len(c) = StrChunks + 1 /\ c[StrChunks + 1] = Delimiter
      /\ \A i \in 1..StrChunks : c[i] = Bin(<<<<s, i>>>>)
  BY <1>2, <1>3, ChunksAre
<1>5. /\ c[Len(c)].data = <<>> /\ \A i \in 1..StrChunks : IsChunk(c[i], s)
  BY <1>4, ChunkData
<1>6. ASSUME NEW i \in 1..Len(c), NEW d, d = c[i].data PROVE OkParts(d)'
  <2>1. i = Len(c) \/ i \in 1..StrChunks
    BY <1>4, StrChunksAssumption
  <2>2. CASE i = Len(c)
    BY <1>5, <1>6, <2>2 DEF OkParts
  <2>3. CASE i \in 1..StrChunks
    <3>1. DOMAIN d = {1} /\ d[1][1] = s
      BY <1>5, <1>6, <2>3 DEF IsChunk
    <3> QED BY <1>2, <3>1 DEF OkParts
  <2> QED BY <2>1, <2>2, <2>3
<1> QED BY <1>1, <1>3, <1>6

\* It holds no result.
LEMMA OkTalk ==
    ASSUME NEW fs \in SUBSET Files
    PROVE  /\ Talk(InChunks(Str("ok", fs)))
           /\ \A i \in 1..Len(InChunks(Str("ok", fs))) : ~IsResult(InChunks(Str("ok", fs))[i])
<1>1. PICK s \in Strings : s = Str("ok", fs)
  BY StringsAre
<1>2. PICK c : c = InChunks(s)
  OBVIOUS
<1>3. /\ c \in Seq(Msg) /\ Len(c) = StrChunks + 1 /\ c[StrChunks + 1] = Delimiter
      /\ \A i \in 1..StrChunks : c[i] = Bin(<<<<s, i>>>>)
  BY <1>2, ChunksAre
<1>4. /\ c[StrChunks + 1].k = "delimiter" /\ \A i \in 1..StrChunks : IsChunk(c[i], s)
  BY <1>3, ChunkData
<1>5. \A i \in 1..Len(c) : i = StrChunks + 1 \/ i \in 1..StrChunks
  BY <1>3, StrChunksAssumption
<1>6. \A i \in 1..Len(c) : ~IsResult(c[i])
  BY <1>4, <1>5 DEF IsChunk, IsResult
<1> QED BY <1>1, <1>2, <1>6, TalkChunks

\* The user of the receiver selects files.
LEMMA SelectFlow == ASSUME TaskTypes, FlowInv, Select PROVE FlowInv'
<1>0. /\ pc["R"] = "select" /\ UNCHANGED <<buf, sender, open, got, answer, fileErrors>>
      /\ given = {} /\ fileMap = {} /\ selected = {} /\ Unchosen /\ q["R"] = <<>> /\ buf["R"] = <<>> /\ ~Unlisted
      /\ pc["S"] \notin {"sending", "status"}
  BY DEF Select, FlowInv, PhaseInv, Unchosen
<1>1. PICK fs \in Selections :
          selected' = fs /\ Proceed("R", 0, InChunks(Str("ok", fs)), {}, "files")
  BY DEF Select
<1>2. fs \in SUBSET Files
  BY SelectionsAssumption
<1>3. PICK c \in Seq(Msg) : c = InChunks(Str("ok", fs))
  BY <1>2, StringsAre, ChunksAre
<1>4. Passed("R", 0, c, {"files", "dead"})
  BY <1>1, <1>3, TwoPeers, ProceedPasses
<1>5. /\ pc'["R"] \in {"files", "dead"} /\ pc'["S"] = pc["S"] /\ q'["R"] \in Seq(Msg)
      /\ From(q'["R"], q["R"])
  BY <1>4, TwoPeers DEF Passed, TaskTypes
<1>6. q'["R"] = <<>>
  <2>1. PICK s \in Seq(Msg) : s = q'["R"]
    BY <1>5
  <2>2. DOMAIN s = {}
    BY <1>0, <1>5, <2>1 DEF From
  <2>3. s = <<>>
    BY <2>2
  <2> QED BY <2>1, <2>3
<1>7. ~Unchosen' /\ ~Unseen' /\ ~Unlisted' /\ selected \subseteq selected' /\ (Unchosen' => Unchosen)
  BY <1>0, <1>5 DEF Unchosen, Unseen, Unlisted
<1>8. PhaseInv'
  BY <1>0, <1>5, <1>6, <1>7 DEF PhaseInv, sender
<1>9. StringInv'
  <2>1. \A d : \A i \in 1..Len(c) : d = c[i].data => OkParts(d)'
    BY <1>1, <1>2, <1>3, <1>7, OkChunks
  <2>2. \A i \in DOMAIN q'["S"] : OkParts(q["S"][i].data)'
    BY <1>3, <1>4, <1>7, <2>1, AnswersAdded DEF FlowInv
  <2>3. OkParts(buf["S"])'
    <3>1. \A d : d = buf["S"] => OkParts(d)'
      BY <1>7, OkStable DEF FlowInv, StringInv
    <3> QED BY <1>0, <3>1
  <2>4. NoEmpty(q["R"])'
    BY <1>6 DEF NoEmpty
  <2> QED BY <1>7, <2>2, <2>3, <2>4 DEF StringInv
<1>10. FileInv'
  BY <1>0, <1>7 DEF FlowInv, FileInv, Run, sender
<1>11. StreamInv'
  <2>1. Chain(Received, q["R"])' /\ Headers(q["R"])'
    BY <1>6 DEF Chain, Headers
  <2>2. SendingAt(At(Received, q["R"], Len(q["R"]) + 1))'
    BY <1>0, <1>5 DEF SendingAt
  <2> QED BY <2>1, <2>2 DEF StreamInv
<1>12. StatusInv'
  <2>1. /\ buf["S"] \in Seq(Unit) /\ q["S"] \in Seq(Msg) /\ DOMAIN q["S"] = 1..Len(q["S"])
    BY TwoPeers DEF TaskTypes
  <2>2. ~HasPart("ok", buf["S"]) /\ NoPart("ok", q["S"])
    BY <1>0, <2>1 DEF FlowInv, StringInv, OkParts, HasPart, NoPart
  <2>3. NoEmpty(c) /\ TextLast("ok", <<>>, c) /\ \A i \in 1..Len(c) : ~IsResult(c[i])
    BY <1>2, <1>3, OkTalk DEF Talk
  <2>4. Answered(c)'
    BY <2>3 DEF Answered
  <2>5. AnswersStay /\ StatusInv /\ buf'["S"] = buf["S"]
    BY <1>0 DEF AnswersStay, FlowInv
  <2> QED BY <1>0, <1>4, <2>2, <2>3, <2>4, <2>5, StatusSaid
<1> QED BY <1>8, <1>9, <1>10, <1>11, <1>12 DEF FlowInv

----------------------------------------------------------------------------
(* The sender with its selection *)

\* A sender that goes on leaves what was settled.
Keeps ==
    /\ UNCHANGED receiver /\ given \subseteq given' /\ fileMap \subseteq fileMap'
    /\ \A f \in given : f # cur => f # cur' /\ read'[f] = read[f]

\* The stream that is on its way keeps its shape.
LEMMA StreamKept ==
    ASSUME Keeps
    PROVE  /\ Received' = Received
           /\ \A P : Settled(P) => Settled(P)'
           /\ \A P, s : Chain(P, s) => Chain(P, s)'
           /\ \A s : Headers(s) => Headers(s)'
<1>1. Received' = Received
  BY DEF Keeps, receiver, Received
<1>2. ASSUME NEW P, Settled(P) PROVE Settled(P)'
  BY <1>2 DEF Keeps, Settled
<1>3. ASSUME NEW P, NEW m, Follows(P, m) PROVE Follows(P, m)'
  BY <1>2, <1>3 DEF Follows, Run
<1>4. ASSUME NEW P, NEW s, Chain(P, s) PROVE Chain(P, s)'
  <2>1. ASSUME NEW i \in 1..Len(s), NEW Q, Q = At(P, s, i) PROVE Follows(Q, s[i])'
    BY <1>3, <1>4, <2>1 DEF Chain
  <2> QED BY <2>1 DEF Chain, At, After
<1>5. ASSUME NEW s, Headers(s) PROVE Headers(s)'
  BY <1>5 DEF Headers, Fresh, Keeps, receiver
<1> QED BY <1>1, <1>2, <1>4, <1>5

\* A sender behind its list hears of the receiver.
LEMMA SenderHears ==
    ASSUME TaskTypes, FlowInv, ~Unlisted, UNCHANGED <<given, cur, read, sbuf, receiver>>,
           fileMap' \subseteq selected, NEW n, NEW nexts \in SUBSET {"selection", "sending", "dead"},
           Passed("S", n, <<>>, nexts), NEW b, buf' = [buf EXCEPT !["S"] = b], OkParts(b),
           pc'["S"] \in {"selection", "sending"} => pc["S"] = "selection",
           UNCHANGED fileMap \/ (pc["S"] = "selection" /\ pc'["S"] # "selection" /\ ~Unchosen),
           pc'["S"] = "selection" => TextLast("ok", b, q'["S"]),
           pc'["S"] = "sending" => ~Unchosen /\ b = <<>> /\ q'["S"] = <<>>
    PROVE  FlowInv'
<1>0. /\ pc'["R"] = pc["R"] /\ pc'["S"] \in {"selection", "sending", "dead"}
      /\ UNCHANGED <<given, selected>> /\ buf'["R"] = buf["R"] /\ buf'["S"] = b
  BY TwoPeers DEF Passed, TaskTypes, receiver
<1>1. /\ q["R"] \in Seq(Msg) /\ q'["R"] \in Seq(Msg) /\ IsFirst(q'["R"], q["R"])
      /\ (Live' => Live /\ q'["R"] = q["R"])
  BY TwoPeers, SentFirst, TalkNone DEF Passed, TaskTypes, Talk
<1>2. q["R"] = <<>> => q'["R"] = <<>>
  <2>1. PICK s \in Seq(Msg) : s = q'["R"]
    BY <1>1
  <2>2. q["R"] = <<>> => Len(s) = 0
    BY <1>1, <2>1 DEF IsFirst
  <2> QED BY <2>1, <2>2
<1>3. (Unchosen' <=> Unchosen) /\ (Unseen' <=> Unseen) /\ ~Unlisted'
  BY <1>0 DEF Unchosen, Unseen, Unlisted
<1>4. PhaseInv'
  <2>1. Unchosen' \/ pc'["S"] \notin {"sending", "status", "dead"} => given' = {} /\ fileMap' = {}
    BY <1>0, <1>3 DEF FlowInv, PhaseInv
  <2> QED BY <1>0, <1>2, <1>3, <2>1 DEF FlowInv, PhaseInv
<1>5. StringInv'
  <2>1. selected \subseteq selected'
    BY <1>0
  <2>2. \A i \in DOMAIN q'["S"] : OkParts(q["S"][i].data)'
    BY <1>3, <2>1, AnswersKept DEF FlowInv, Passed
  <2>3. OkParts(buf["S"])'
    <3>1. \A d : d = b => OkParts(d)'
      BY <1>3, <2>1, OkStable
    <3> QED BY <1>0, <3>1
  <2>4. (Unseen => TextLast("list", buf["R"], q'["R"])) /\ NoEmpty(q'["R"])
    BY <1>1, FirstKeeps DEF FlowInv, StringInv
  <2>5. (Unseen' => TextLast("list", buf["R"], q["R"])') /\ NoEmpty(q["R"])'
    BY <1>0, <1>3, <2>4 DEF NoEmpty, TextLast, Ends
  <2> QED BY <1>3, <2>2, <2>3, <2>5 DEF StringInv
<1>6. FileInv'
  <2>1. CASE UNCHANGED fileMap
    BY <1>0, <2>1 DEF FlowInv, FileInv, Run, receiver
  <2>2. CASE pc["S"] = "selection"
    <3>1. given = {}
      BY <2>2 DEF FlowInv, PhaseInv
    <3> QED BY <1>0, <3>1 DEF FlowInv, FileInv, Run, receiver
  <2> QED BY <2>1, <2>2
<1>7. StreamInv'
  <2> SUFFICES ASSUME pc["R"] = "files" PROVE (Chain(Received, q["R"]) /\ Headers(q["R"]))'
                                              /\ SendingAt(At(Received, q["R"], Len(q["R"]) + 1))'
    BY <1>0 DEF StreamInv
  <2>1. Keeps
    BY DEF Keeps, FlowInv, PhaseInv
  <2>2. Chain(Received, q'["R"]) /\ Headers(q'["R"])
    BY <1>1, FirstKeeps DEF FlowInv, StreamInv
  <2>3. Chain(Received, q["R"])' /\ Headers(q["R"])'
    <3>1. ASSUME NEW P, NEW s, P = Received, s = q'["R"] PROVE Chain(P, s)' /\ Headers(s)'
      BY <2>1, <2>2, <3>1, StreamKept
    <3> QED BY <2>1, <3>1, StreamKept
  <2>4. ASSUME pc'["S"] = "sending"
        PROVE  SendingAt(At(Received, q["R"], Len(q["R"]) + 1))'
    <3>1. q'["R"] = <<>> /\ cur' = None /\ open' = None
      BY <1>0, <1>2, <2>4 DEF FlowInv, PhaseInv, FileInv, receiver
    <3>2. Received' = Nowhere
      BY <3>1 DEF Received
    <3>3. At(Received, q["R"], Len(q["R"]) + 1)' = Nowhere
      BY <3>1, <3>2 DEF At
    <3>4. Settled(Nowhere)'
      BY DEF Settled, Nowhere
    <3> QED BY <3>1, <3>3, <3>4 DEF SendingAt
  <2>5. CASE pc'["S"] # "sending"
    BY <2>3, <2>5 DEF SendingAt
  <2> QED BY <2>3, <2>4, <2>5
<1>8. StatusInv'
  <2>1. AnswersStay /\ StatusInv
    BY DEF AnswersStay, receiver, FlowInv
  <2> QED BY <1>0, <2>1, StatusHeard DEF Passed
<1> QED BY <1>4, <1>5, <1>6, <1>7, <1>8 DEF FlowInv

\* A part of the selection.
LEMMA SenderCollects == ASSUME TaskTypes, FlowInv, ReceiveChunk("S") PROVE FlowInv'
<1>0. /\ pc["S"] = "selection" /\ q["S"] # <<>> /\ UNCHANGED <<sender, receiver>> /\ ~Unlisted
  BY DEF ReceiveChunk, ChunkStates, Unlisted
<1>1. /\ q["S"] \in Seq(Msg) /\ Arrived("S") = q["S"][1] /\ q["S"][1] \in Msg
      /\ 1 \in DOMAIN q["S"] /\ buf["S"] \in Seq(Unit)
  BY <1>0, TwoPeers DEF TaskTypes, Arrived
<1>2. PICK d \in Seq(Unit) : d = q["S"][1].data
  BY <1>1, MsgIs
<1>3. PICK b : b = buf["S"] \o d
  OBVIOUS
<1>4. buf' = [buf EXCEPT !["S"] = b]
  BY <1>1, <1>2, <1>3 DEF ReceiveChunk
<1>5. OkParts(b)
  <2>1. OkParts(buf["S"]) /\ OkParts(d)
    BY <1>1, <1>2 DEF FlowInv, StringInv
  <2>2. \A i \in DOMAIN b : (\E j \in DOMAIN buf["S"] : b[i] = buf["S"][j])
                            \/ (\E j \in DOMAIN d : b[i] = d[j])
    <3>1. PICK a \in Seq(Unit) : a = buf["S"]
      BY <1>1
    <3>2. \A i \in DOMAIN (a \o d) : (\E j \in DOMAIN a : (a \o d)[i] = a[j])
                                     \/ (\E j \in DOMAIN d : (a \o d)[i] = d[j])
      BY FromLonger
    <3> QED BY <1>3, <3>1, <3>2
  <2>3. ASSUME NEW i \in DOMAIN b, IsPart("ok", b[i])
        PROVE  ~Unchosen /\ b[i][1].files \subseteq selected
    <3>1. CASE \E j \in DOMAIN buf["S"] : b[i] = buf["S"][j]
      BY <2>1, <2>3, <3>1 DEF OkParts
    <3>2. CASE \E j \in DOMAIN d : b[i] = d[j]
      BY <2>1, <2>3, <3>2 DEF OkParts
    <3> QED BY <2>2, <3>1, <3>2
  <2> QED BY <2>3 DEF OkParts
<1>6. Passed("S", 1, <<>>, {"selection", "dead"})
  BY <1>0, TwoPeers, ProceedPasses, TalkNone DEF ReceiveChunk, Talk
<1>7. /\ pc'["S"] \in {"selection", "dead"}
      /\ {"selection", "dead"} \in SUBSET {"selection", "sending", "dead"}
  BY <1>6 DEF Passed
<1>8. fileMap' \subseteq selected /\ UNCHANGED <<fileMap, given, cur, read, sbuf>>
  BY <1>0 DEF FlowInv, FileInv, sender
<1>9. ASSUME pc'["S"] = "selection" PROVE TextLast("ok", b, q'["S"])
  <2>1. q'["S"] = SubSeq(q["S"], 1 + 1, Len(q["S"])) /\ 1 + 1 = 2
    BY <1>6, <1>9 DEF Passed
  <2>2. PICK t : t = q'["S"]
    OBVIOUS
  <2>3. t \in Seq(Msg) /\ IsRest(t, q["S"])
    BY <1>0, <1>1, <2>1, <2>2, PartsAre
  <2>4. TextLast("ok", buf["S"], q["S"]) /\ q["S"][1].data # <<>>
    <3>1. 1 \in 1..Len(q["S"]) /\ ~IsString(q["S"][1])
      BY <1>0, <1>1 DEF ReceiveChunk
    <3> QED BY <1>0, <3>1 DEF FlowInv, StatusInv, NoEmpty
  <2>5. TextLast("ok", buf["S"] \o q["S"][1].data, t)
    BY <1>0, <1>1, <2>3, <2>4, ChunkTaken
  <2> QED BY <1>2, <1>3, <2>2, <2>5
<1> QED BY <1>0, <1>4, <1>5, <1>6, <1>7, <1>8, <1>9, SenderHears

\* A string is what its parts say.
LEMMA OkParsed ==
    ASSUME Parses(buf["S"], "ok"), OkParts(buf["S"])
    PROVE  Parsed(buf["S"], "ok").files \subseteq selected /\ ~Unchosen
<1>1. PICK s : s = Parsed(buf["S"], "ok")
  OBVIOUS
<1>2. s \in Strings /\ s.k = "ok" /\ buf["S"] = Pieces(s)
  BY <1>1 DEF Parses, Parsed
<1>3. PICK b : b = [i \in 1..StrChunks |-> <<s, i>>] /\ b = buf["S"]
  BY <1>2 DEF Pieces
<1>4. 1 \in DOMAIN b /\ b[1] = <<s, 1>>
  BY <1>3, StrChunksAssumption
<1>5. PICK u : u = b[1] /\ u[1] = s
  BY <1>4
<1>6. IsPart("ok", u)
  BY <1>2, <1>5 DEF IsPart
<1> QED BY <1>1, <1>3, <1>4, <1>5, <1>6 DEF OkParts

\* The selection is complete.
LEMMA HandleFileListResponseFlow ==
    ASSUME TaskTypes, FlowInv, HandleFileListResponse PROVE FlowInv'
<1>0. /\ pc["S"] = "selection" /\ ~Unlisted /\ UNCHANGED <<given, cur, read, sbuf, receiver>>
      /\ buf' = [buf EXCEPT !["S"] = <<>>] /\ OkParts(<<>>) /\ OkParts(buf["S"])
      /\ fileMap \subseteq selected /\ q["S"] # <<>> /\ IsString(Arrived("S"))
  BY DEF HandleFileListResponse, Ended, Receives, Unlisted, OkParts, FlowInv, StringInv, FileInv
<1>1. ASSUME NEW n, Passed("S", n, <<>>, {"dead"}), fileMap' \subseteq selected,
             UNCHANGED fileMap \/ ~Unchosen
      PROVE  FlowInv'
  <2>1. {"dead"} \in SUBSET {"selection", "sending", "dead"} /\ pc'["S"] = "dead"
    BY <1>1 DEF Passed
  <2> QED BY <1>0, <1>1, <2>1, SenderHears
<1>2. <<>> \in Seq(Msg)
  OBVIOUS
<1>3. ASSUME NEW sts, NEW why, Fail("S", <<>>, sts, why) PROVE Passed("S", 0, <<>>, {"dead"})
  BY <1>2, <1>3, TwoPeers, FailPasses
<1>4. CASE /\ Parses(buf["S"], "ok") /\ fileMap' = Parsed(buf["S"], "ok").files
           /\ Proceed("S", 1, <<>>, {}, "sending") \/ Fail("S", <<>>, {}, "app")
  <2>1. fileMap' \subseteq selected /\ ~Unchosen
    BY <1>0, <1>4, OkParsed
  <2>2. CASE Proceed("S", 1, <<>>, {}, "sending")
    <3>1. Passed("S", 1, <<>>, {"sending", "dead"})
      BY <1>2, <2>2, TwoPeers, ProceedPasses
    <3>2. /\ {"sending", "dead"} \in SUBSET {"selection", "sending", "dead"}
          /\ pc'["S"] \in {"sending", "dead"}
      BY <3>1 DEF Passed
    <3>3. ASSUME pc'["S"] = "sending" PROVE q'["S"] = <<>>
      <4>1. PICK b \in Seq(Unit), t \in Seq(Msg) : b = buf["S"] /\ t = q["S"]
        BY TwoPeers DEF TaskTypes
      <4>2. TextLast("ok", b, t) /\ IsString(t[1]) /\ t # <<>>
        BY <1>0, <4>1 DEF FlowInv, StatusInv, Arrived
      <4>3. Len(t) = 1
        BY <1>4, <4>1, <4>2, StringEnds
      <4>4. q'["S"] = SubSeq(t, 2, Len(t))
        BY <3>1, <3>3, <4>1 DEF Passed
      <4> QED BY <4>3, <4>4
    <3> QED BY <1>0, <2>1, <3>1, <3>2, <3>3, SenderHears
  <2>3. CASE Fail("S", <<>>, {}, "app")
    BY <1>1, <1>3, <2>1, <2>3
  <2> QED BY <1>4, <2>2, <2>3
<1>5. CASE Complete("S", <<>>, {"Declined"}) /\ UNCHANGED fileMap
  <2>1. Passed("S", 0, <<>>, {"dead"})
    BY <1>2, <1>5, TwoPeers, CompletePasses
  <2> QED BY <1>0, <1>1, <1>5, <2>1
<1>6. CASE Fail("S", <<>>, {}, "parse") /\ UNCHANGED fileMap
  BY <1>0, <1>1, <1>3, <1>6
<1> QED BY <1>4, <1>5, <1>6 DEF HandleFileListResponse

\* The last status.
LEMMA AwaitStatusFlow == ASSUME TaskTypes, FlowInv, AwaitStatus PROVE FlowInv'
<1>0. /\ pc["S"] = "status" /\ ~Unlisted /\ UNCHANGED <<buf, sender, receiver>> /\ OkParts(buf["S"])
  BY DEF AwaitStatus, Receives, Unlisted, FlowInv, StringInv
<1>1. Passed("S", 0, <<>>, {"dead"})
  BY TwoPeers, CompletePasses, TalkNone DEF AwaitStatus, Talk
<1>2. {"dead"} \in SUBSET {"selection", "sending", "dead"} /\ pc'["S"] = "dead"
  BY <1>1 DEF Passed
<1>3. buf' = [buf EXCEPT !["S"] = buf["S"]]
  BY <1>0 DEF TaskTypes
<1>4. fileMap' \subseteq selected /\ UNCHANGED <<fileMap, given, cur, read, sbuf>>
  BY <1>0 DEF FlowInv, FileInv, sender
<1> QED BY <1>0, <1>1, <1>2, <1>3, <1>4, SenderHears

\* A sender that is sending files sends something more of the stream.
LEMMA SenderStreams ==
    ASSUME TaskTypes, FlowInv, pc["S"] = "sending", UNCHANGED <<buf, receiver>>, Keeps, FileInv',
           NEW msgs \in Seq(Msg), NEW nexts \in SUBSET {"sending", "status", "dead"},
           Passed("S", 0, msgs, nexts), NoEmpty(msgs),
           NEW P, P = At(Received, q["R"], Len(q["R"]) + 1),
           pc["R"] = "files" /\ Live => Chain(P, msgs),
           pc["R"] = "files" => Headers(q["R"])' /\ SendingAt(At(P, msgs, Len(msgs) + 1))'
    PROVE  FlowInv'
<1>0. /\ pc'["R"] = pc["R"] /\ pc'["S"] \in {"sending", "status", "dead"} /\ ~Unchosen
      /\ UNCHANGED <<buf, selected>> /\ pc["R"] \in {"files", "dead"}
  BY TwoPeers DEF Passed, TaskTypes, FlowInv, PhaseInv, receiver, Unchosen
<1>1. /\ q["R"] \in Seq(Msg) /\ q'["R"] \in Seq(Msg) /\ IsFirst(q'["R"], Sent("S", msgs))
      /\ (Live' => Live /\ q'["R"] = Sent("S", msgs))
      /\ Sent("S", msgs) = (IF Live THEN q["R"] \o msgs ELSE q["R"])
  <2>1. q["R"] \in Seq(Msg) /\ Sent("S", msgs) = (IF Live THEN q["R"] \o msgs ELSE q["R"])
    BY TwoPeers, SentFirst
  <2> QED BY <2>1, TwoPeers DEF Passed
<1>2. PICK r \in Seq(Msg) : r = q["R"] \o msgs /\ IsBoth(r, q["R"], msgs)
  BY <1>1, PartsAre
<1>3. PICK s \in Seq(Msg) : s = Sent("S", msgs) /\ s = (IF Live THEN r ELSE q["R"])
  BY <1>1, <1>2
<1>4. ~Unchosen' /\ ~Unseen' /\ ~Unlisted' /\ (Unchosen' => Unchosen) /\ selected \subseteq selected'
  BY <1>0 DEF Unchosen, Unseen, Unlisted
<1>5. PhaseInv'
  BY <1>0, <1>4 DEF FlowInv, PhaseInv
<1>6. StringInv'
  <2>1. \A i \in DOMAIN q'["S"] : OkParts(q["S"][i].data)'
    BY <1>4, AnswersKept DEF FlowInv, Passed
  <2>2. OkParts(buf["S"])'
    <3>1. \A d : d = buf["S"] => OkParts(d)'
      BY <1>4, OkStable DEF FlowInv, StringInv
    <3> QED BY <1>0, <3>1
  <2>3. NoEmpty(q["R"]) /\ NoEmpty(r)
    <3>1. NoEmpty(q["R"])
      BY DEF FlowInv, StringInv
    <3> QED BY <1>1, <1>2, <3>1, BothTalk
  <2>4. NoEmpty(q'["R"])
    BY <1>1, <1>3, <2>3, FirstKeeps
  <2>5. NoEmpty(q["R"])'
    BY <2>4 DEF NoEmpty
  <2> QED BY <1>4, <2>1, <2>2, <2>5 DEF StringInv
<1>7. StreamInv'
  <2> SUFFICES ASSUME pc["R"] = "files"
               PROVE  /\ Chain(Received, q["R"])' /\ Headers(q["R"])'
                      /\ SendingAt(At(Received, q["R"], Len(q["R"]) + 1))'
    BY <1>0 DEF StreamInv
  <2>1. Chain(Received, q["R"])
    BY DEF FlowInv, StreamInv
  <2>2. PICK Z : Z = Received
    OBVIOUS
  <2>3. (Live => Chain(Z, r)) /\ At(Z, r, Len(r) + 1) = At(P, msgs, Len(msgs) + 1)
    <3>1. PICK o \in Seq(Msg) : o = q["R"]
      BY <1>1
    <3>2. IsBoth(r, o, msgs) /\ P = At(Z, o, Len(o) + 1) /\ Chain(Z, o)
      BY <1>2, <2>1, <2>2, <3>1
    <3>3. /\ Chain(Z, o) /\ Chain(At(Z, o, Len(o) + 1), msgs) => Chain(Z, r)
          /\ At(Z, r, Len(r) + 1) = At(At(Z, o, Len(o) + 1), msgs, Len(msgs) + 1)
      BY <3>2, BothChain
    <3> QED BY <3>2, <3>3
  <2>4. Chain(Z, q'["R"])
    BY <1>1, <1>3, <2>1, <2>2, <2>3, FirstKeeps
  <2>5. Chain(Received, q["R"])'
    <3>1. ASSUME NEW t, t = q'["R"] PROVE Chain(Z, t)'
      BY <2>4, <3>1, StreamKept
    <3>2. Received' = Z
      BY <2>2, StreamKept
    <3> QED BY <3>1, <3>2
  <2>6. ASSUME Live' PROVE SendingAt(At(Received, q["R"], Len(q["R"]) + 1))'
    <3>1. q'["R"] = r /\ Received' = Z
      BY <1>1, <1>3, <2>2, <2>6, StreamKept
    <3>2. At(Z, r, Len(r) + 1) = At(P, msgs, Len(msgs) + 1)
      BY <2>3
    <3>3. PICK E : E = At(P, msgs, Len(msgs) + 1)
      OBVIOUS
    <3>4. SendingAt(E)'
      BY <3>3
    <3>5. At(Received, q["R"], Len(q["R"]) + 1)' = E
      BY <3>1, <3>2, <3>3 DEF At, After
    <3> QED BY <3>4, <3>5
  <2>7. SendingAt(At(Received, q["R"], Len(q["R"]) + 1))'
    BY <2>6 DEF SendingAt
  <2> QED BY <2>5, <2>7
<1>8. StatusInv'
  <2>1. AnswersStay /\ StatusInv
    BY DEF AnswersStay, receiver, FlowInv
  <2>2. OnlyResults(q["S"]) /\ buf["S"] = <<>>
    BY <2>1 DEF StatusInv
  <2> QED BY <1>0, <2>1, <2>2, StatusHeard DEF Passed
<1> QED BY <1>5, <1>6, <1>7, <1>8 DEF FlowInv

\* Messages without a header.
LEMMA HeadersSame ==
    ASSUME TaskTypes, Keeps, Headers(q["R"]), NEW msgs \in Seq(Msg), NEW n, NEW nexts,
           Passed("S", n, msgs, nexts), \A i \in 1..Len(msgs) : msgs[i].k # "header"
    PROVE  Headers(q["R"])'
<1>1. /\ q["R"] \in Seq(Msg) /\ q'["R"] \in Seq(Msg) /\ IsFirst(q'["R"], Sent("S", msgs))
      /\ Sent("S", msgs) = (IF Live THEN q["R"] \o msgs ELSE q["R"])
  BY TwoPeers, SentFirst DEF Passed, TaskTypes
<1>2. PICK r \in Seq(Msg) : r = q["R"] \o msgs /\ IsBoth(r, q["R"], msgs)
  BY <1>1, PartsAre
<1>3. Headers(r)
  <2>1. ASSUME NEW i \in 1..Len(r), r[i].k = "header" PROVE i \in 1..Len(q["R"]) /\ r[i] = q["R"][i]
    <3>1. CASE i \in 1..Len(q["R"])
      BY <1>2, <3>1 DEF IsBoth
    <3>2. CASE i \notin 1..Len(q["R"])
      <4>1. i - Len(q["R"]) \in 1..Len(msgs) /\ i \in (Len(q["R"]) + 1) .. Len(r)
        BY <1>1, <1>2, <3>2 DEF IsBoth
      <4>2. r[i] = msgs[i - Len(q["R"])]
        BY <1>2, <4>1 DEF IsBoth
      <4> QED BY <2>1, <4>1, <4>2
    <3> QED BY <3>1, <3>2
  <2> QED BY <2>1 DEF Headers
<1>4. PICK s \in Seq(Msg) : s = Sent("S", msgs) /\ Headers(s)
  BY <1>1, <1>2, <1>3
<1>5. Headers(q'["R"])
  BY <1>1, <1>4, FirstKeeps
<1>6. ASSUME NEW t, t = q'["R"] PROVE Headers(t)'
  BY <1>5, <1>6, StreamKept
<1> QED BY <1>6

\* A header for a file that was not given before.
LEMMA HeaderAdded ==
    ASSUME NEW s \in Seq(Msg), NEW r \in Seq(Msg), NEW m, IsBoth(r, s, <<m>>),
           Headers(s)', Fresh(m.v)', \A i \in 1..Len(s) : s[i].k = "header" => s[i].v # m.v
    PROVE  Headers(r)'
<1>1. /\ Len(s) \in Nat /\ Len(r) = Len(s) + 1 /\ \A i \in 1..Len(s) : r[i] = s[i]
      /\ r[Len(s) + 1] = m
  <2>1. Len(<<m>>) = 1 /\ <<m>>[1] = m /\ Len(s) \in Nat
    OBVIOUS
  <2>2. Len(r) = Len(s) + 1 /\ \A i \in 1..Len(s) : r[i] = s[i]
    BY <2>1 DEF IsBoth
  <2>3. Len(s) + 1 \in (Len(s) + 1) .. Len(r) /\ Len(s) + 1 - Len(s) = 1
    BY <2>1, <2>2
  <2> QED BY <2>1, <2>2, <2>3 DEF IsBoth
<1>2. \A i \in 1..Len(r) : i \in 1..Len(s) \/ i = Len(s) + 1
  BY <1>1
<1>3. ASSUME NEW i \in 1..Len(r), r[i].k = "header" PROVE Fresh(r[i].v)'
  <2>1. CASE i \in 1..Len(s)
    BY <1>1, <1>3, <2>1 DEF Headers
  <2>2. CASE i = Len(s) + 1
    BY <1>1, <2>2
  <2> QED BY <1>2, <2>1, <2>2
<1>4. ASSUME NEW i \in 1..Len(r), NEW j \in 1..Len(r), r[i].k = "header", r[j].k = "header",
             r[i].v = r[j].v
      PROVE  i = j
  <2>1. CASE i \in 1..Len(s) /\ j \in 1..Len(s)
    BY <1>1, <1>4, <2>1 DEF Headers
  <2>2. CASE i \in 1..Len(s) /\ j = Len(s) + 1
    BY <1>1, <1>4, <2>2
  <2>3. CASE i = Len(s) + 1 /\ j \in 1..Len(s)
    BY <1>1, <1>4, <2>3
  <2> QED BY <1>2, <2>1, <2>2, <2>3
<1> QED BY <1>3, <1>4 DEF Headers

----------------------------------------------------------------------------
(* The chunks of a file *)

\* The units of b behind the first x, up to the y-th.
IsCut(d, b, x, y) ==
    b \in Seq(Unit) /\ x \in Nat /\ y \in Nat /\ x <= y /\ y <= Len(b) /\ d = SubSeq(b, x + 1, y)

\* A part of a run is a run.
LEMMA PartRuns ==
    ASSUME NEW f \in Files, NEW a \in Nat, NEW b, Run(f, a, b), NEW x, NEW y, NEW d,
           IsCut(d, b, x, y)
    PROVE  /\ d \in Seq(Unit) /\ Len(d) = y - x /\ Run(f, a + x, d)
           /\ x < y => d # <<>> /\ d[Len(d)] = <<f, a + y>>
<1> USE DEF IsCut
<1>0. Size[f] \in Nat /\ Len(b) \in Nat
  BY SizeAssumption
<1>1. d \in Seq(Unit) /\ Len(d) = y - x /\ \A j \in 1 .. (y - x) : d[j] = b[x + j]
  <2>1. CASE x = y
    <3>1. SubSeq(b, x + 1, y) = <<>>
      BY <2>1
    <3> QED BY <2>1, <3>1
  <2>2. CASE x < y
    <3>1. /\ SubSeq(b, x + 1, y) \in Seq(Unit) /\ Len(SubSeq(b, x + 1, y)) = y - (x + 1) + 1
          /\ \A j \in 1 .. (y - (x + 1) + 1) : SubSeq(b, x + 1, y)[j] = b[x + 1 + j - 1]
      BY <1>0, <2>2
    <3>2. y - (x + 1) + 1 = y - x /\ \A j \in 1 .. (y - x) : x + 1 + j - 1 = x + j
      OBVIOUS
    <3> QED BY <3>1, <3>2
  <2> QED BY <2>1, <2>2
<1>2. ASSUME NEW j \in 1 .. (y - x) PROVE d[j] = <<f, a + x + j>>
  <2>1. x + j \in 1..Len(b) /\ a + (x + j) = a + x + j
    BY <1>0
  <2>2. b[x + j] = <<f, a + (x + j)>>
    BY <2>1 DEF Run
  <2> QED BY <1>1, <2>1, <2>2
<1>3. a + Len(b) <= Size[f]
  BY DEF Run
<1>4. Run(f, a + x, d)
  <2>1. a + x + Len(d) <= Size[f]
    BY <1>0, <1>1, <1>3
  <2> QED BY <1>1, <1>2, <2>1 DEF Run
<1>5. ASSUME x < y PROVE d # <<>> /\ d[Len(d)] = <<f, a + y>>
  <2>1. Len(d) \in 1 .. (y - x) /\ a + x + Len(d) = a + y
    BY <1>1, <1>5
  <2>2. d[Len(d)] = <<f, a + x + Len(d)>>
    BY <1>2, <2>1
  <2> QED BY <1>1, <2>1, <2>2
<1> QED BY <1>1, <1>4, <1>5

\* Units that are added to a run.
LEMMA RunGoesOn ==
    ASSUME NEW f \in Files, NEW a \in Nat, NEW b \in Seq(Unit), NEW d \in Seq(Unit),
           Run(f, a, b), Run(f, a + Len(b), d)
    PROVE  b \o d \in Seq(Unit) /\ Len(b \o d) = Len(b) + Len(d) /\ Run(f, a, b \o d)
<1>0. Len(b) \in Nat /\ Len(d) \in Nat /\ Size[f] \in Nat
  BY SizeAssumption
<1>1. PICK r \in Seq(Unit) : r = b \o d /\ IsBoth(r, b, d)
  BY PartsAre
<1>2. Len(r) = Len(b) + Len(d) /\ a + Len(r) <= Size[f]
  BY <1>0, <1>1 DEF IsBoth, Run
<1>3. ASSUME NEW j \in 1..Len(r) PROVE r[j] = <<f, a + j>>
  <2>1. CASE j \in 1..Len(b)
    BY <1>1, <2>1 DEF IsBoth, Run
  <2>2. CASE j \notin 1..Len(b)
    <3>1. PICK k : k = j - Len(b)
      OBVIOUS
    <3>2. k \in 1..Len(d) /\ j \in (Len(b) + 1) .. Len(r) /\ a + Len(b) + k = a + j
      BY <1>0, <1>2, <2>2, <3>1
    <3>3. r[j] = d[k]
      BY <1>1, <3>1, <3>2 DEF IsBoth
    <3>4. d[k] = <<f, a + Len(b) + k>>
      BY <3>2 DEF Run
    <3> QED BY <3>2, <3>3, <3>4
  <2> QED BY <2>1, <2>2
<1> QED BY <1>1, <1>2, <1>3 DEF Run

\* Where the i-th chunk begins and ends.
LEMMA ChunkEnds ==
    ASSUME NEW i \in Nat \ {0}, NEW c \in Nat \ {0}
    PROVE  (i - 1) * c \in Nat /\ i * c \in Nat /\ i * c = (i - 1) * c + c
<1>1. i - 1 \in Nat
  OBVIOUS
<1>2. \A e \in Nat : e * c \in Nat /\ (e + 1) * c = e * c + c
  OBVIOUS
<1>3. i - 1 + 1 = i
  OBVIOUS
<1> QED BY <1>1, <1>2, <1>3

\* The full chunks of a run, and what is left of it.
LEMMA ChunkStream ==
    ASSUME NEW f \in Files, NEW a \in Nat, NEW b \in Seq(Unit), Run(f, a, b), NEW t, t = FullChunks(b)
    PROVE  /\ t \in Seq(Msg) /\ NoEmpty(t) /\ Chain(<<f, a>>, t)
           /\ \A i \in 1..Len(t) : t[i].k # "header"
           /\ Leftover(b) \in Seq(Unit) /\ Len(Leftover(b)) <= Len(b)
           /\ Run(f, a + Len(b) - Len(Leftover(b)), Leftover(b))
           /\ At(<<f, a>>, t, Len(t) + 1) = <<f, a + Len(b) - Len(Leftover(b))>>
<1>0. Len(b) \in Nat /\ ChunkSize \in Nat \ {0}
  BY SizeAssumption
<1>1. PICK n \in Nat : n = Len(b) \div ChunkSize
  BY <1>0, ChunkBounds
<1>2. n * ChunkSize <= Len(b) /\ n * ChunkSize \in Nat /\ \A i \in 1..n : i * ChunkSize <= Len(b)
  BY <1>0, <1>1, ChunkBounds
<1>3. t = [i \in 1..n |-> Bin(SubSeq(b, (i - 1) * ChunkSize + 1, i * ChunkSize))]
  BY <1>1 DEF FullChunks
<1>4. ASSUME NEW i \in 1..n
      PROVE  \E d \in Seq(Unit) :
                /\ d # <<>> /\ d[Len(d)] = <<f, a + i * ChunkSize>> /\ t[i] = Bin(d)
                /\ Run(f, a + (i - 1) * ChunkSize, d)
  <2>1. PICK x, y : x = (i - 1) * ChunkSize /\ y = i * ChunkSize
    OBVIOUS
  <2>2. x \in Nat /\ y \in Nat /\ y = x + ChunkSize
    BY <1>0, <2>1, ChunkEnds
  <2>3. x < y /\ x <= y /\ y <= Len(b)
    BY <1>0, <1>2, <2>1, <2>2
  <2>4. PICK d : d = SubSeq(b, x + 1, y)
    OBVIOUS
  <2>5. d \in Seq(Unit) /\ Run(f, a + x, d) /\ d # <<>> /\ d[Len(d)] = <<f, a + y>>
    <3>1. IsCut(d, b, x, y)
      BY <2>2, <2>3, <2>4 DEF IsCut
    <3> QED BY <2>3, <3>1, PartRuns
  <2>6. t[i] = Bin(d)
    BY <1>3, <2>1, <2>4
  <2> QED BY <2>1, <2>5, <2>6
<1>5. \A i \in 1..n : /\ t[i] \in Msg /\ t[i].k = "bin" /\ t[i].data # <<>>
                      /\ After(t[i]) = <<f, a + i * ChunkSize>>
                      /\ Run(f, a + (i - 1) * ChunkSize, t[i].data)
  <2> SUFFICES ASSUME NEW i \in 1..n
               PROVE  /\ t[i] \in Msg /\ t[i].k = "bin" /\ t[i].data # <<>>
                      /\ After(t[i]) = <<f, a + i * ChunkSize>>
                      /\ Run(f, a + (i - 1) * ChunkSize, t[i].data)
    OBVIOUS
  <2>1. PICK d \in Seq(Unit) :
                /\ d # <<>> /\ d[Len(d)] = <<f, a + i * ChunkSize>> /\ t[i] = Bin(d)
                /\ Run(f, a + (i - 1) * ChunkSize, d)
    BY <1>4
  <2>2. Bin(d) \in Msg /\ Bin(d).k = "bin" /\ Bin(d).data = d
    BY DEF Bin, Msg
  <2>3. PICK m : m = t[i] /\ m \in Msg /\ m.k = "bin" /\ m.data = d
    BY <2>1, <2>2
  <2>4. After(m) = <<f, a + i * ChunkSize>>
    BY <2>1, <2>3 DEF After
  <2> QED BY <2>1, <2>3, <2>4
<1>6. t \in Seq(Msg) /\ Len(t) = n
  BY <1>3, <1>5, IsASeq
<1>7. NoEmpty(t) /\ \A i \in 1..Len(t) : t[i].k # "header"
  BY <1>5, <1>6 DEF NoEmpty
<1>8. ASSUME NEW i \in 1 .. (n + 1)
      PROVE  At(<<f, a>>, t, i) = <<f, a + (i - 1) * ChunkSize>>
  <2>1. CASE i = 1
    <3>1. (i - 1) * ChunkSize = 0 /\ a + 0 = a
      BY <1>0, <2>1
    <3> QED BY <2>1, <3>1 DEF At
  <2>2. CASE i # 1
    <3>1. i - 1 \in 1..n
      BY <2>2
    <3> QED BY <1>5, <2>2, <3>1 DEF At
  <2> QED BY <2>1, <2>2
<1>9. Chain(<<f, a>>, t)
  <2> SUFFICES ASSUME NEW i \in 1..n PROVE Follows(At(<<f, a>>, t, i), t[i])
    BY <1>6 DEF Chain
  <2>1. PICK P : P = <<f, a + (i - 1) * ChunkSize>>
    OBVIOUS
  <2>2. P[1] = f /\ P[2] = a + (i - 1) * ChunkSize
    BY <2>1
  <2>3. Follows(P, t[i])
    BY <1>5, <2>2 DEF Follows
  <2>4. i \in 1 .. (n + 1)
    OBVIOUS
  <2> QED BY <1>8, <2>1, <2>3, <2>4
<1>10. PICK e \in Nat : e = n * ChunkSize
  BY <1>2
<1>11. /\ Leftover(b) \in Seq(Unit) /\ Len(Leftover(b)) = Len(b) - e /\ Run(f, a + e, Leftover(b))
  <2>1. Leftover(b) = SubSeq(b, e + 1, Len(b))
    BY <1>1, <1>10 DEF Leftover
  <2>2. PICK d : d = SubSeq(b, e + 1, Len(b))
    OBVIOUS
  <2>3. d \in Seq(Unit) /\ Len(d) = Len(b) - e /\ Run(f, a + e, d)
    <3>1. IsCut(d, b, e, Len(b))
      BY <1>0, <1>2, <1>10, <2>2 DEF IsCut
    <3> QED BY <3>1, PartRuns
  <2> QED BY <2>1, <2>2, <2>3
<1>12. a + Len(b) - Len(Leftover(b)) = a + e /\ Len(Leftover(b)) <= Len(b)
  BY <1>0, <1>11
<1>13. At(<<f, a>>, t, Len(t) + 1) = <<f, a + e>>
  <2>1. n + 1 \in 1 .. (n + 1) /\ n + 1 - 1 = n
    OBVIOUS
  <2> QED BY <1>6, <1>8, <1>10, <2>1
<1> QED BY <1>6, <1>7, <1>9, <1>11, <1>12, <1>13

----------------------------------------------------------------------------
(* The sender and its files *)

\* Where the stream to the receiver stands, and what is sent next.
LEMMA NextPlace ==
    ASSUME FlowInv, pc["S"] = "sending", pc["R"] = "files", Live
    PROVE  /\ cur = None => Settled(At(Received, q["R"], Len(q["R"]) + 1))
           /\ cur # None =>
                At(Received, q["R"], Len(q["R"]) + 1) = <<cur, read[cur] - Len(sbuf)>>
  BY DEF FlowInv, StreamInv, SendingAt

\* Nothing is written.
LEMMA NothingPasses ==
    ASSUME TaskTypes, UNCHANGED control PROVE Passed("S", 0, <<>>, {pc["S"]})
<1>1. Sent("S", <<>>) = q["R"] /\ <<>> \in Seq(Msg)
  BY TwoPeers, SentFirst, TalkNone DEF Talk
<1>2. Write(<<>>)
  BY <1>1 DEF Write, control, TaskTypes
<1> QED BY <1>1, <1>2, WritePasses

\* A text as a message of the stream.
LEMMA OneText ==
    ASSUME NEW m, m.k # "bin", NEW P
    PROVE  /\ Chain(P, <<m>>) <=> Settled(P)
           /\ At(P, <<m>>, Len(<<m>>) + 1) = After(m)
           /\ NoEmpty(<<m>>)
<1>1. Len(<<m>>) = 1 /\ <<m>>[1] = m /\ 1..1 = {1} /\ 1 + 1 = 2 /\ 2 # 1 /\ 2 - 1 = 1
  OBVIOUS
<1>2. Chain(P, <<m>>) <=> Follows(P, m)
  BY <1>1 DEF Chain, At
<1>3. Follows(P, m) <=> Settled(P)
  BY DEF Follows
<1>4. At(P, <<m>>, Len(<<m>>) + 1) = After(m)
  BY <1>1 DEF At
<1>5. NoEmpty(<<m>>)
  BY <1>1 DEF NoEmpty, IsString
<1> QED BY <1>2, <1>3, <1>4, <1>5

\* No message leads nowhere else.
LEMMA NoText == ASSUME NEW P PROVE Chain(P, <<>>) /\ At(P, <<>>, Len(<<>>) + 1) = P
  BY DEF Chain, At

\* The files when the sender's app hands over f.
LEMMA FileGiven ==
    ASSUME FileTypes, FileInv, cur = None, NEW f \in Files \ given, given' = given \cup {f},
           cur' \in {None, f}, UNCHANGED <<fileMap, read, sbuf, receiver>>
    PROVE  FileInv' /\ Keeps /\ (f \in fileMap => Fresh(f)') /\ sbuf = <<>> /\ read[f] = 0
<1>0. /\ None \notin Files /\ given \subseteq Files
      /\ UNCHANGED <<selected, open, got, answer, fileErrors>>
  BY NoneAssumption DEF FileTypes, receiver
<1>1. sbuf = <<>> /\ read[f] = 0 /\ Size[f] \in Nat
  BY SizeAssumption DEF FileInv
<1>2. Keeps
  BY <1>0 DEF Keeps
<1>3. Run(f, 0, <<>>) /\ Len(<<>>) = 0 /\ 0 <= 0 /\ 0 - 0 = 0
  BY <1>1 DEF Run
<1>4. cur' # None => Len(sbuf') <= read'[cur'] /\ Run(cur, read[cur] - Len(sbuf), sbuf)'
  BY <1>0, <1>1, <1>3 DEF Run
<1>5. \A g \in Files : /\ Run(g, 0, got[g])' /\ (got'[g] # <<>> => g \in given' \cap selected')
                       /\ (answer'[g] # "none" =>
                             g \in given' \cap fileMap' /\ g # cur' /\ g # open' /\ Len(got'[g]) = read'[g])
  <2> SUFFICES ASSUME NEW g \in Files
               PROVE  /\ Run(g, 0, got[g])' /\ (got'[g] # <<>> => g \in given' \cap selected')
                      /\ (answer'[g] # "none" =>
                            g \in given' \cap fileMap' /\ g # cur' /\ g # open' /\ Len(got'[g]) = read'[g])
    OBVIOUS
  <2>1. /\ Run(g, 0, got[g]) /\ (got[g] # <<>> => g \in given \cap selected)
        /\ (answer[g] # "none" => g \in given \cap fileMap /\ g # open /\ Len(got[g]) = read[g])
    BY DEF FileInv
  <2>2. g \in given => g # cur'
    BY <1>0
  <2> QED BY <1>0, <2>1, <2>2 DEF Run
<1>6. FileInv'
  BY <1>0, <1>1, <1>4, <1>5 DEF FileInv
<1>7. f \in fileMap => Fresh(f)'
  BY <1>0 DEF FileInv, Fresh
<1> QED BY <1>1, <1>2, <1>6, <1>7

\* The app hands over a file.
LEMMA SendHeaderFlow == ASSUME TaskTypes, FileTypes, FlowInv, SendHeader PROVE FlowInv'
<1>0. /\ pc["S"] = "sending" /\ cur = None /\ UNCHANGED <<buf, fileMap, read, sbuf, receiver>>
  BY DEF SendHeader
<1>1. PICK f \in Files \ given :
         /\ given' = given \cup {f}
         /\ \/ f \in fileMap /\ cur' = f /\ Write(<<Text("header", f)>>)
            \/ UNCHANGED <<control, cur>>
  BY DEF SendHeader, HasToken
<1>2. FileInv' /\ Keeps /\ (f \in fileMap => Fresh(f)') /\ sbuf = <<>> /\ read[f] = 0
  BY <1>0, <1>1, FileGiven DEF FlowInv
<1>3. PICK P : P = At(Received, q["R"], Len(q["R"]) + 1)
  OBVIOUS
<1>4. pc["R"] = "files" /\ Live => Settled(P)
  BY <1>0, <1>3, NextPlace
<1>5. {"sending"} \in SUBSET {"sending", "status", "dead"}
  OBVIOUS
<1>6. CASE f \in fileMap /\ cur' = f /\ Write(<<Text("header", f)>>)
  <2>1. PICK m : m = Text("header", f)
    OBVIOUS
  <2>2. m \in Msg /\ m.k = "header" /\ m.v = f /\ <<m>> \in Seq(Msg) /\ After(m) = <<f, 0>>
    <3>1. m \in Msg /\ m.k = "header" /\ m.v = f
      BY <2>1 DEF Text, Msg
    <3>2. After(m) = <<f, 0>>
      BY <3>1 DEF After
    <3> QED BY <3>1, <3>2
  <2>3. /\ (Chain(P, <<m>>) <=> Settled(P)) /\ At(P, <<m>>, Len(<<m>>) + 1) = After(m)
        /\ NoEmpty(<<m>>)
    BY <2>2, OneText
  <2>4. Passed("S", 0, <<m>>, {"sending"}) /\ q'["R"] = Sent("S", <<m>>)
    BY <1>0, <1>6, <2>1, <2>2, TwoPeers, WritePasses DEF Write, TaskTypes
  <2>5. ASSUME pc["R"] = "files" PROVE Headers(q["R"])'
    <3>1. Headers(q["R"]) /\ q["R"] \in Seq(Msg)
      BY <2>5, TwoPeers DEF FlowInv, StreamInv, TaskTypes
    <3>2. PICK s \in Seq(Msg) : s = q["R"]
      BY <3>1
    <3>3. Headers(s)' /\ \A i \in 1..Len(s) : s[i].k = "header" => s[i].v # m.v
      <4>1. Headers(s)'
        BY <1>2, <3>1, <3>2, StreamKept
      <4> QED BY <1>1, <2>2, <3>1, <3>2, <4>1 DEF Headers, Fresh
    <3>4. PICK r \in Seq(Msg) : r = s \o <<m>> /\ IsBoth(r, s, <<m>>)
      BY <2>2, PartsAre
    <3>5. f \in fileMap
      BY <1>6
    <3>6. Headers(r)'
      BY <1>2, <2>2, <3>3, <3>4, <3>5, HeaderAdded
    <3>7. q'["R"] = r \/ q'["R"] = s
      BY <2>2, <2>4, <3>2, <3>4, TwoPeers, SentFirst
    <3>8. ASSUME NEW t, t = q'["R"] PROVE Headers(t)'
      BY <3>3, <3>6, <3>7, <3>8
    <3> QED BY <3>8
  <2>6. SendingAt(After(m))'
    <3>1. cur' = f /\ cur' # None /\ read'[f] = 0 /\ sbuf' = <<>> /\ Len(<<>>) = 0 /\ 0 - 0 = 0
      BY <1>0, <1>2, <1>6, NoneAssumption
    <3>2. \A E : E = <<f, 0>> => SendingAt(E)'
      BY <3>1 DEF SendingAt
    <3> QED BY <2>2, <3>2
  <2>7. SendingAt(At(P, <<m>>, Len(<<m>>) + 1))'
    <3>1. \A E : E = After(m) => SendingAt(E)'
      BY <2>6
    <3> QED BY <2>3, <3>1
  <2> QED BY <1>0, <1>2, <1>3, <1>4, <1>5, <2>2, <2>3, <2>4, <2>5, <2>7, SenderStreams
<1>7. CASE UNCHANGED <<control, cur>>
  <2>1. Passed("S", 0, <<>>, {"sending"}) /\ <<>> \in Seq(Msg) /\ NoEmpty(<<>>)
    BY <1>0, <1>7, NothingPasses, TalkNone DEF Talk
  <2>2. Chain(P, <<>>) /\ At(P, <<>>, Len(<<>>) + 1) = P
    BY NoText
  <2>3. ASSUME pc["R"] = "files" PROVE Headers(q["R"])' /\ SendingAt(P)'
    <3>1. Headers(q["R"]) /\ q'["R"] = q["R"]
      BY <1>7, <2>3 DEF FlowInv, StreamInv, control
    <3>2. ASSUME NEW t, t = q["R"] PROVE Headers(t)'
      BY <1>2, <3>1, <3>2, StreamKept
    <3>3. Live => Settled(P)'
      BY <1>2, <1>4, <2>3, StreamKept
    <3>4. (Live' => Live) /\ cur' = None
      BY <1>0, <1>7 DEF Live, Running, control
    <3> QED BY <3>1, <3>2, <3>3, <3>4 DEF SendingAt
  <2>4. pc["R"] = "files" => SendingAt(At(P, <<>>, Len(<<>>) + 1))'
    <3>1. \A E : E = P /\ pc["R"] = "files" => SendingAt(E)'
      BY <2>3
    <3> QED BY <2>2, <3>1
  <2> QED BY <1>0, <1>2, <1>3, <1>5, <2>1, <2>2, <2>3, <2>4, SenderStreams
<1> QED BY <1>1, <1>6, <1>7

\* A send fails only when a peer is gone.
LEMMA SendsWhenLive == ASSUME Live, NEW msgs PROVE SendResults("S", msgs) = {TRUE}
<1>1. Running("S") /\ Running(Other("S"))
  BY TwoPeers DEF Live
<1> QED BY <1>1 DEF SendResults

\* The files when the sender's app produces units of the open one, or ends it.
LEMMA FileRead ==
    ASSUME FileTypes, FileInv, NEW c \in Files, c = cur, NEW k \in Nat,
           read' = [read EXCEPT ![c] = k], UNCHANGED <<fileMap, given, receiver>>,
           \/ cur' = None /\ sbuf' = <<>>
           \/ cur' = c /\ Len(sbuf') <= k /\ Run(c, k - Len(sbuf'), sbuf')
    PROVE  FileInv' /\ Keeps /\ c \in given'
<1>0. /\ None \notin Files /\ given \subseteq Files
      /\ UNCHANGED <<selected, open, got, answer, fileErrors>>
      /\ c \in given /\ read \in [Files -> Nat]
  BY NoneAssumption DEF FileTypes, receiver, FileInv
<1>1. read'[c] = k /\ \A f \in Files : f # c => read'[f] = read[f]
  BY <1>0
<1>2. Keeps
  BY <1>0, <1>1 DEF Keeps
<1>3. ASSUME cur' # None
      PROVE  Len(sbuf') <= read'[cur'] /\ Run(cur, read[cur] - Len(sbuf), sbuf)'
  <2>1. cur' = c /\ Len(sbuf') <= read'[c] /\ Run(c, read'[c] - Len(sbuf'), sbuf')
    BY <1>1, <1>3
  <2>2. ASSUME NEW f, NEW e, NEW d, f = cur', e = read'[cur'] - Len(sbuf'), d = sbuf', Run(f, e, d)
        PROVE  Run(f, e, d)'
    BY <2>2 DEF Run
  <2>3. Run(cur', read'[cur'] - Len(sbuf'), sbuf')
    BY <2>1
  <2> QED BY <2>1, <2>2, <2>3
<1>4. \A f \in Files \ given' : read'[f] = 0
  BY <1>0, <1>1 DEF FileInv
<1>5. \A g \in Files : /\ Run(g, 0, got[g])' /\ (got'[g] # <<>> => g \in given' \cap selected')
                       /\ (answer'[g] # "none" =>
                             g \in given' \cap fileMap' /\ g # cur' /\ g # open' /\ Len(got'[g]) = read'[g])
  <2> SUFFICES ASSUME NEW g \in Files
               PROVE  /\ Run(g, 0, got[g])' /\ (got'[g] # <<>> => g \in given' \cap selected')
                      /\ (answer'[g] # "none" =>
                            g \in given' \cap fileMap' /\ g # cur' /\ g # open' /\ Len(got'[g]) = read'[g])
    OBVIOUS
  <2>1. /\ Run(g, 0, got[g]) /\ (got[g] # <<>> => g \in given \cap selected)
        /\ (answer[g] # "none" => g \in given \cap fileMap /\ g # c /\ g # open /\ Len(got[g]) = read[g])
    BY DEF FileInv
  <2>2. g # c => g # cur' /\ read'[g] = read[g]
    BY <1>0, <1>1
  <2> QED BY <1>0, <2>1, <2>2 DEF Run
<1>6. FileInv'
  <2>1. /\ fileMap' \subseteq selected' /\ (cur' # None => cur' \in given')
        /\ (open' # None => open' \in given' \cap fileMap') /\ (cur' = None => sbuf' = <<>>)
        /\ got' \in [Files -> Seq(Unit)] /\ fileErrors' = {}
    BY <1>0 DEF FileInv
  <2> QED BY <1>3, <1>4, <1>5, <2>1 DEF FileInv
<1> QED BY <1>0, <1>2, <1>6

\* The content of a file is a run.
LEMMA ContentRuns == ASSUME NEW f \in Files PROVE Run(f, 0, Content(f))
<1>1. Content(f) \in Seq(Unit) /\ Len(Content(f)) = Size[f] /\ Size[f] \in Nat
  BY ContentIs
<1>2. \A j \in 1..Size[f] : Content(f)[j] = <<f, 0 + j>>
  BY <1>1 DEF Content
<1>3. 0 + Len(Content(f)) <= Size[f]
  BY <1>1
<1> QED BY <1>1, <1>2, <1>3 DEF Run

\* The app produces some units.
LEMMA SendChunksFlow == ASSUME TaskTypes, FileTypes, FlowInv, SendChunks PROVE FlowInv'
<1>0. /\ pc["S"] = "sending" /\ cur # None /\ UNCHANGED <<buf, fileMap, given, receiver>>
  BY DEF SendChunks
<1>1. PICK c \in Files, k \in Nat, o \in Seq(Unit) : c = cur /\ k = read[cur] /\ o = sbuf
  BY <1>0 DEF FileTypes
<1>2. PICK n \in 1 .. (Size[c] - k) :
         /\ read' = [read EXCEPT ![c] = k + n]
         /\ \E ok \in SendResults("S", FullChunks(o \o SubSeq(Content(c), k + 1, k + n))) :
               /\ sbuf' = IF ok THEN Leftover(o \o SubSeq(Content(c), k + 1, k + n)) ELSE <<>>
               /\ cur' = IF ok THEN c ELSE None
         /\ Write(FullChunks(o \o SubSeq(Content(c), k + 1, k + n)))
  BY <1>1 DEF SendChunks
<1>3. Size[c] \in Nat /\ n \in Nat /\ k + n \in Nat /\ k + n <= Size[c]
  BY SizeAssumption
<1>4. PICK a \in Nat : a = k - Len(o) /\ Len(o) \in Nat /\ Len(o) <= k /\ Run(c, a, o)
  <2>1. Len(o) \in Nat /\ Len(o) <= k /\ Run(c, k - Len(o), o)
    BY <1>0, <1>1 DEF FlowInv, FileInv
  <2> QED BY <2>1
<1>5. PICK d : d = SubSeq(Content(c), k + 1, k + n)
  OBVIOUS
<1>6. d \in Seq(Unit) /\ Len(d) = n /\ Run(c, a + Len(o), d)
  <2>1. IsCut(d, Content(c), k, k + n)
    BY <1>3, <1>5, ContentIs DEF IsCut
  <2>2. d \in Seq(Unit) /\ Len(d) = k + n - k /\ Run(c, 0 + k, d)
    BY <2>1, ContentRuns, PartRuns
  <2>3. k + n - k = n /\ 0 + k = a + Len(o)
    BY <1>3, <1>4
  <2> QED BY <2>2, <2>3
<1>7. PICK b \in Seq(Unit) : b = o \o d /\ Len(b) = Len(o) + n /\ Run(c, a, b)
  BY <1>4, <1>6, RunGoesOn
<1>8. PICK t : t = FullChunks(b)
  OBVIOUS
<1>9. PICK l : l = Leftover(b)
  OBVIOUS
<1>10. /\ t \in Seq(Msg) /\ NoEmpty(t) /\ Chain(<<c, a>>, t) /\ \A i \in 1..Len(t) : t[i].k # "header"
       /\ l \in Seq(Unit) /\ Len(l) <= Len(b) /\ Run(c, a + Len(b) - Len(l), l)
       /\ At(<<c, a>>, t, Len(t) + 1) = <<c, a + Len(b) - Len(l)>>
  <2>1. Run(c, a, b)
    BY <1>7
  <2>2. /\ t \in Seq(Msg) /\ NoEmpty(t) /\ Chain(<<c, a>>, t)
        /\ \A i \in 1..Len(t) : t[i].k # "header"
        /\ Leftover(b) \in Seq(Unit) /\ Len(Leftover(b)) <= Len(b)
        /\ Run(c, a + Len(b) - Len(Leftover(b)), Leftover(b))
        /\ At(<<c, a>>, t, Len(t) + 1) = <<c, a + Len(b) - Len(Leftover(b))>>
    BY <1>8, <2>1, ChunkStream
  <2> QED BY <1>9, <2>2
<1>11. a + Len(b) - Len(l) = k + n - Len(l) /\ Len(l) <= k + n /\ Len(l) \in Nat
  BY <1>3, <1>4, <1>7, <1>10
<1>12. /\ Write(t) /\ \E ok \in SendResults("S", t) :
                         sbuf' = (IF ok THEN l ELSE <<>>) /\ cur' = (IF ok THEN c ELSE None)
  BY <1>2, <1>5, <1>7, <1>8, <1>9
<1>13. \/ cur' = None /\ sbuf' = <<>> /\ ~Live
       \/ cur' = c /\ sbuf' = l
  <2>1. PICK ok \in SendResults("S", t) :
                         sbuf' = (IF ok THEN l ELSE <<>>) /\ cur' = (IF ok THEN c ELSE None)
    BY <1>12
  <2>2. Live => ok = TRUE
    BY <2>1, SendsWhenLive
  <2> QED BY <2>1, <2>2
<1>14. FileInv' /\ Keeps
  <2>1. PICK e \in Nat : e = k + n
    BY <1>3
  <2>2. /\ read' = [read EXCEPT ![c] = e]
        /\ \/ cur' = None /\ sbuf' = <<>>
           \/ cur' = c /\ Len(sbuf') <= e /\ Run(c, e - Len(sbuf'), sbuf')
    <3>1. read' = [read EXCEPT ![c] = e]
      BY <1>2, <2>1
    <3>2. a + Len(b) - Len(l) = e - Len(l) /\ Len(l) <= e
      BY <1>11, <2>1
    <3>3. Run(c, e - Len(l), l)
      BY <1>10, <3>2
    <3> QED BY <1>13, <3>1, <3>2, <3>3
  <2> QED BY <1>0, <1>1, <2>1, <2>2, FileRead DEF FlowInv
<1>15. PICK P : P = At(Received, q["R"], Len(q["R"]) + 1)
  OBVIOUS
<1>16. pc["R"] = "files" /\ Live => P = <<c, a>>
  BY <1>0, <1>1, <1>4, <1>15, NextPlace
<1>17. Passed("S", 0, t, {"sending"}) /\ (Live' => Live)
  BY <1>0, <1>10, <1>12, WritePasses DEF Passed
<1>18. pc["R"] = "files" => Headers(q["R"])'
  BY <1>10, <1>14, <1>17, HeadersSame DEF FlowInv, StreamInv
<1>19. ASSUME pc["R"] = "files" PROVE SendingAt(At(P, t, Len(t) + 1))'
  <2> SUFFICES ASSUME Live' PROVE SendingAt(At(P, t, Len(t) + 1))'
    BY DEF SendingAt
  <2>1. Live /\ cur' = c /\ sbuf' = l /\ cur' # None
    BY <1>13, <1>17, NoneAssumption
  <2>2. At(P, t, Len(t) + 1) = <<c, k + n - Len(l)>>
    BY <1>10, <1>11, <1>16, <1>19, <2>1
  <2>3. read'[c] = k + n
    BY <1>2 DEF FileTypes
  <2>4. \A E : E = <<c, k + n - Len(l)>> => SendingAt(E)'
    BY <2>1, <2>3 DEF SendingAt
  <2> QED BY <2>2, <2>4
<1>20. pc["R"] = "files" /\ Live => Chain(P, t)
  BY <1>10, <1>16
<1>21. {"sending"} \in SUBSET {"sending", "status", "dead"}
  OBVIOUS
<1> QED BY <1>0, <1>10, <1>14, <1>15, <1>17, <1>18, <1>19, <1>20, <1>21, SenderStreams

\* The rest of a file as a message of the stream.
LEMMA OneBin ==
    ASSUME NEW f \in Files, NEW a \in Nat, NEW d \in Seq(Unit), d # <<>>, Run(f, a, d),
           NEW m, m = Bin(d)
    PROVE  /\ m \in Msg /\ m.k = "bin" /\ NoEmpty(<<m>>) /\ Chain(<<f, a>>, <<m>>)
           /\ At(<<f, a>>, <<m>>, Len(<<m>>) + 1) = <<f, a + Len(d)>>
<1>1. Len(<<m>>) = 1 /\ <<m>>[1] = m /\ 1..1 = {1} /\ 1 + 1 = 2 /\ 2 # 1 /\ 2 - 1 = 1
  OBVIOUS
<1>2. m \in Msg /\ m.k = "bin" /\ m.data = d
  BY DEF Bin, Msg
<1>3. Len(d) \in 1..Len(d)
  OBVIOUS
<1>4. After(m) = <<f, a + Len(d)>>
  BY <1>2, <1>3 DEF After, Run
<1>5. Follows(<<f, a>>, m)
  <2>1. PICK P : P = <<f, a>>
    OBVIOUS
  <2>2. P[1] = f /\ P[2] = a
    BY <2>1
  <2>3. Follows(P, m)
    BY <1>2, <2>2 DEF Follows
  <2> QED BY <2>1, <2>3
<1>6. Chain(<<f, a>>, <<m>>) /\ At(<<f, a>>, <<m>>, Len(<<m>>) + 1) = After(m)
  BY <1>1, <1>5 DEF Chain, At
<1>7. NoEmpty(<<m>>)
  BY <1>1, <1>2 DEF NoEmpty
<1> QED BY <1>2, <1>4, <1>6, <1>7

\* The app has produced the file, or it gives up.
LEMMA SendRestFlow == ASSUME TaskTypes, FileTypes, FlowInv, SendRest PROVE FlowInv'
<1>0. /\ pc["S"] = "sending" /\ cur # None /\ UNCHANGED <<buf, fileMap, given, read, receiver>>
      /\ cur' = None /\ sbuf' = <<>>
  BY DEF SendRest
<1>1. PICK c \in Files, k \in Nat, o \in Seq(Unit) : c = cur /\ k = read[cur] /\ o = sbuf
  BY <1>0 DEF FileTypes
<1>2. PICK a \in Nat : a = k - Len(o) /\ Len(o) \in Nat /\ a + Len(o) = k /\ Run(c, a, o)
  <2>1. Len(o) \in Nat /\ Len(o) <= k /\ Run(c, k - Len(o), o)
    BY <1>0, <1>1 DEF FlowInv, FileInv
  <2> QED BY <2>1
<1>3. FileInv' /\ Keeps /\ c \in given'
  <2>1. read' = [read EXCEPT ![c] = k]
    BY <1>0, <1>1 DEF FileTypes
  <2> QED BY <1>0, <1>1, <2>1, FileRead DEF FlowInv
<1>4. PICK t : t = (IF o = <<>> THEN <<>> ELSE <<Bin(o)>>) /\ Write(t)
  BY <1>1 DEF SendRest
<1>5. /\ t \in Seq(Msg) /\ NoEmpty(t) /\ Chain(<<c, a>>, t) /\ \A i \in 1..Len(t) : t[i].k # "header"
      /\ At(<<c, a>>, t, Len(t) + 1) = <<c, k>>
  <2>1. CASE o = <<>>
    <3>1. t = <<>> /\ a = k
      BY <1>2, <1>4, <2>1
    <3>2. Chain(<<c, a>>, <<>>) /\ At(<<c, a>>, <<>>, Len(<<>>) + 1) = <<c, a>>
      BY NoText
    <3> QED BY <3>1, <3>2, TalkNone DEF Talk
  <2>2. CASE o # <<>>
    <3>1. PICK m : m = Bin(o)
      OBVIOUS
    <3>2. /\ m \in Msg /\ m.k = "bin" /\ NoEmpty(<<m>>) /\ Chain(<<c, a>>, <<m>>)
          /\ At(<<c, a>>, <<m>>, Len(<<m>>) + 1) = <<c, a + Len(o)>>
      BY <1>2, <2>2, <3>1, OneBin
    <3>3. t = <<m>> /\ <<m>> \in Seq(Msg) /\ \A i \in 1..Len(<<m>>) : <<m>>[i] = m
      BY <1>4, <2>2, <3>1, <3>2
    <3>4. \A i \in 1..Len(t) : t[i].k # "header"
      BY <3>2, <3>3
    <3> QED BY <1>2, <3>2, <3>3, <3>4
  <2> QED BY <2>1, <2>2
<1>6. PICK P : P = At(Received, q["R"], Len(q["R"]) + 1)
  OBVIOUS
<1>7. pc["R"] = "files" /\ Live => P = <<c, a>>
  BY <1>0, <1>1, <1>2, <1>6, NextPlace
<1>8. Passed("S", 0, t, {"sending"}) /\ (Live' => Live)
  BY <1>0, <1>4, <1>5, WritePasses DEF Passed
<1>9. pc["R"] = "files" => Headers(q["R"])'
  BY <1>3, <1>5, <1>8, HeadersSame DEF FlowInv, StreamInv
<1>10. ASSUME pc["R"] = "files" PROVE SendingAt(At(P, t, Len(t) + 1))'
  <2> SUFFICES ASSUME Live' PROVE SendingAt(At(P, t, Len(t) + 1))'
    BY DEF SendingAt
  <2>1. At(P, t, Len(t) + 1) = <<c, k>>
    BY <1>5, <1>7, <1>8, <1>10
  <2>2. PICK E : E = <<c, k>>
    OBVIOUS
  <2>3. E[1] = c /\ E[2] = k
    BY <2>2
  <2>4. read'[c] = k /\ c # cur'
    BY <1>0, <1>1, NoneAssumption
  <2>5. Settled(E)'
    BY <1>3, <2>3, <2>4 DEF Settled
  <2>6. SendingAt(E)'
    BY <1>0, <2>5 DEF SendingAt
  <2>7. \A F : F = E => SendingAt(F)'
    BY <2>6
  <2> QED BY <2>1, <2>2, <2>7
<1>11. pc["R"] = "files" /\ Live => Chain(P, t)
  BY <1>5, <1>7
<1>12. {"sending"} \in SUBSET {"sending", "status", "dead"}
  OBVIOUS
<1> QED BY <1>0, <1>3, <1>5, <1>6, <1>8, <1>9, <1>10, <1>11, <1>12, SenderStreams

\* The end of the last file.
LEMMA SendEndFlow == ASSUME TaskTypes, FlowInv, SendEnd PROVE FlowInv'
<1>0. /\ pc["S"] = "sending" /\ cur = None /\ UNCHANGED <<buf, sender, receiver>>
      /\ Proceed("S", 0, <<Delimiter>>, {}, "status")
  BY DEF SendEnd
<1>1. FileInv' /\ Keeps
  BY <1>0, FileSame DEF FlowInv, Keeps, sender
<1>2. PICK m : m = Delimiter
  OBVIOUS
<1>3. m \in Msg /\ m.k = "delimiter" /\ m.k # "bin" /\ <<m>> \in Seq(Msg)
  BY <1>2, ChunkData, TwoPeers, DelimiterTo
<1>4. PICK t \in Seq(Msg) : t = <<m>>
  BY <1>3
<1>5. Passed("S", 0, t, {"status", "dead"})
  BY <1>0, <1>2, <1>4, TwoPeers, ProceedPasses
<1>6. PICK P : P = At(Received, q["R"], Len(q["R"]) + 1)
  OBVIOUS
<1>7. (Chain(P, t) <=> Settled(P)) /\ NoEmpty(t)
  BY <1>3, <1>4, OneText
<1>8. pc["R"] = "files" /\ Live => Chain(P, t)
  BY <1>0, <1>6, <1>7, NextPlace
<1>9. \A i \in 1..Len(t) : t[i].k # "header"
  BY <1>3, <1>4
<1>10. pc["R"] = "files" => Headers(q["R"])'
  BY <1>1, <1>5, <1>9, HeadersSame DEF FlowInv, StreamInv
<1>11. SendingAt(At(P, t, Len(t) + 1))'
  <2>1. pc'["S"] # "sending"
    BY <1>5 DEF Passed
  <2> QED BY <2>1 DEF SendingAt
<1>12. {"status", "dead"} \in SUBSET {"sending", "status", "dead"}
  OBVIOUS
<1> QED BY <1>0, <1>1, <1>5, <1>6, <1>7, <1>8, <1>10, <1>11, <1>12, SenderStreams

----------------------------------------------------------------------------
(* The receiver and its files *)

\* What the message that arrives tells, and those that follow it.
LEMMA HeadOfStream ==
    ASSUME TaskTypes, FlowInv, pc["R"] = "files", q["R"] # <<>>, NEW m, m = q["R"][1]
    PROVE  /\ m \in Msg /\ Follows(Received, m)
           /\ m.k = "header" => Fresh(m.v)
<1>1. q["R"] \in Seq(Msg) /\ 1 \in 1..Len(q["R"])
  BY TwoPeers DEF TaskTypes
<1>2. Chain(Received, q["R"]) /\ Headers(q["R"])
  BY DEF FlowInv, StreamInv
<1>3. Follows(At(Received, q["R"], 1), q["R"][1]) /\ At(Received, q["R"], 1) = Received
  BY <1>1, <1>2 DEF Chain, At
<1>4. m.k = "header" => Fresh(m.v)
  BY <1>1, <1>2 DEF Headers
<1> QED BY <1>1, <1>3, <1>4

\* The stream without its first message.
LEMMA RestOfStream ==
    ASSUME TaskTypes, FlowInv, pc["R"] = "files", q["R"] # <<>>, UNCHANGED sender,
           NEW msgs, NEW nexts, Passed("R", 1, msgs, nexts), pc'["R"] = "files",
           NEW m, m = q["R"][1], Received' = After(m),
           \A v : Fresh(v) /\ (m.k = "header" => v # m.v) => Fresh(v)'
    PROVE  /\ Chain(Received, q["R"])' /\ Headers(q["R"])'
           /\ SendingAt(At(Received, q["R"], Len(q["R"]) + 1))'
<1>1. PICK s \in Seq(Msg) : s = q["R"]
  BY TwoPeers DEF TaskTypes
<1>2. PICK t \in Seq(Msg) : t = q'["R"] /\ IsRest(t, s)
  <2>1. q'["R"] = SubSeq(s, 1 + 1, Len(s)) /\ 1 + 1 = 2
    BY <1>1 DEF Passed
  <2> QED BY <1>1, <2>1, PartsAre
<1>3. PICK P, Z : P = Received /\ Z = After(m)
  OBVIOUS
<1>4. Chain(P, s) /\ Headers(s) /\ SendingAt(At(P, s, Len(s) + 1)) /\ s # <<>> /\ m = s[1]
  BY <1>1, <1>3 DEF FlowInv, StreamInv
<1>5. /\ Chain(Z, t) /\ At(P, s, Len(s) + 1) = At(Z, t, Len(t) + 1) /\ Headers(t)
      /\ (m.k = "header" => \A i \in 1..Len(t) : t[i].k = "header" => t[i].v # m.v)
  BY <1>2, <1>3, <1>4, RestKeeps
<1>6. UNCHANGED <<given, cur, read, sbuf>>
  BY DEF sender
<1>7. Chain(Z, t)'
  <2>1. ASSUME NEW Q, NEW x, Follows(Q, x) PROVE Follows(Q, x)'
    BY <1>6, <2>1 DEF Follows, Settled, Run
  <2>2. ASSUME NEW i \in 1..Len(t), NEW Q, Q = At(Z, t, i) PROVE Follows(Q, t[i])'
    BY <1>5, <2>1, <2>2 DEF Chain
  <2> QED BY <2>2 DEF Chain, At, After
<1>8. Headers(t)'
  <2>1. \A i \in 1..Len(t) : t[i].k = "header" => Fresh(t[i].v)'
    BY <1>5 DEF Headers
  <2> QED BY <1>5, <2>1 DEF Headers
<1>9. SendingAt(At(Z, t, Len(t) + 1))'
  <2>1. PICK E : E = At(Z, t, Len(t) + 1) /\ SendingAt(E)
    BY <1>4, <1>5
  <2>2. (Live' => Live) /\ pc'["S"] = pc["S"]
    BY TwoPeers DEF Passed, TaskTypes
  <2>3. Settled(E) => Settled(E)'
    BY <1>6 DEF Settled
  <2>4. SendingAt(E)'
    BY <1>6, <2>1, <2>2, <2>3 DEF SendingAt
  <2> QED BY <2>1, <2>4
<1> QED BY <1>2, <1>3, <1>7, <1>8, <1>9

\* A receiver that receives files.
LEMMA ReceiverStreams ==
    ASSUME TaskTypes, FlowInv, pc["R"] = "files", q["R"] # <<>>, UNCHANGED <<buf, sender, selected>>,
           FileInv', NEW msgs \in Seq(Msg), NEW n, NEW nexts \in SUBSET {"files", "dead"},
           Passed("R", n, msgs, nexts), \A i \in 1..Len(msgs) : msgs[i].data = <<>>,
           OnlyResults(msgs), Answered(msgs)', AnswersStay,
           pc'["R"] = "files" =>
               /\ Chain(Received, q["R"])' /\ Headers(q["R"])'
               /\ SendingAt(At(Received, q["R"], Len(q["R"]) + 1))'
    PROVE  FlowInv'
<1>0. /\ pc'["S"] = pc["S"] /\ pc'["R"] \in {"files", "dead"} /\ UNCHANGED <<buf, given, selected>>
      /\ pc["S"] # "selection" /\ ~Unlisted /\ fileMap' = fileMap
  BY TwoPeers DEF Passed, TaskTypes, FlowInv, PhaseInv, sender
<1>1. ~Unchosen' /\ ~Unseen' /\ ~Unlisted' /\ (Unchosen' => Unchosen) /\ selected \subseteq selected'
  BY <1>0 DEF Unchosen, Unseen, Unlisted
<1>2. PhaseInv'
  BY <1>0, <1>1 DEF FlowInv, PhaseInv
<1>3. StringInv'
  <2>1. \A d : \A i \in 1..Len(msgs) : d = msgs[i].data => OkParts(d)'
    BY DEF OkParts
  <2>2. \A i \in DOMAIN q'["S"] : OkParts(q["S"][i].data)'
    BY <1>1, <2>1, AnswersAdded DEF FlowInv
  <2>3. OkParts(buf["S"])'
    <3>1. \A d : d = buf["S"] => OkParts(d)'
      BY <1>1, OkStable DEF FlowInv, StringInv
    <3> QED BY <1>0, <3>1
  <2>4. NoEmpty(q'["R"])
    <3>1. q["R"] \in Seq(Msg) /\ q'["R"] \in Seq(Msg) /\ From(q'["R"], q["R"])
      BY TwoPeers DEF Passed, TaskTypes
    <3> QED BY <3>1, FromKeeps DEF FlowInv, StringInv
  <2>5. NoEmpty(q["R"])'
    BY <2>4 DEF NoEmpty
  <2> QED BY <1>1, <2>2, <2>3, <2>5 DEF StringInv
<1>4. StreamInv'
  BY <1>0 DEF StreamInv
<1>5. StatusInv'
  <2>1. pc["S"] \in {"sending", "status", "dead"} /\ buf'["S"] = buf["S"]
    BY <1>0 DEF TaskTypes, SPcs, Unlisted
  <2>2. NoEmpty(msgs) /\ StatusInv
    BY DEF NoEmpty, OnlyResults, IsResult, IsString, FlowInv
  <2> QED BY <2>1, <2>2, StatusSaid
<1> QED BY <1>2, <1>3, <1>4, <1>5 DEF FlowInv

\* A text ends the open file, which is settled, and opens the file m.v or none.
LEMMA FileAnswered ==
    ASSUME FileTypes, FileInv, Settled(Received), NEW ok \in BOOLEAN, AnswerOpen(ok),
           UNCHANGED <<sender, selected, got>>, fileErrors' = {},
           open' # None => Fresh(open')
    PROVE  /\ FileInv'
           /\ \A v : Fresh(v) /\ v # open' => Fresh(v)'
<1>0. None \notin Files /\ UNCHANGED <<fileMap, given, cur, read, sbuf>> /\ given \subseteq Files
  BY NoneAssumption DEF sender, FileTypes
<1>1. answer' = [f \in Files |-> IF f = open THEN (IF ok THEN "success" ELSE "failure") ELSE answer[f]]
  BY DEF AnswerOpen
<1>2. open # None => open \in given \cap fileMap /\ open # cur /\ Len(got[open]) = read[open]
  <2>1. ASSUME open # None PROVE open \in given \cap fileMap /\ open # cur /\ Len(got[open]) = read[open]
    <3>1. PICK P : P = <<open, Len(got[open])>>
      OBVIOUS
    <3>2. P[1] = open /\ P[2] = Len(got[open]) /\ Received = P
      BY <2>1, <3>1 DEF Received
    <3> QED BY <2>1, <3>2 DEF Settled, FileInv
  <2> QED BY <2>1
<1>3. open' # None => open' \in given \cap fileMap /\ answer[open'] = "none" /\ open' # open
  BY DEF Fresh
<1>4. \A g \in Files : /\ Run(g, 0, got[g])' /\ (got'[g] # <<>> => g \in given' \cap selected')
                       /\ (answer'[g] # "none" =>
                             g \in given' \cap fileMap' /\ g # cur' /\ g # open' /\ Len(got'[g]) = read'[g])
  <2> SUFFICES ASSUME NEW g \in Files
               PROVE  /\ Run(g, 0, got[g])' /\ (got'[g] # <<>> => g \in given' \cap selected')
                      /\ (answer'[g] # "none" =>
                            g \in given' \cap fileMap' /\ g # cur' /\ g # open' /\ Len(got'[g]) = read'[g])
    OBVIOUS
  <2>1. /\ Run(g, 0, got[g]) /\ (got[g] # <<>> => g \in given \cap selected)
        /\ (answer[g] # "none" => g \in given \cap fileMap /\ g # cur /\ g # open /\ Len(got[g]) = read[g])
    BY DEF FileInv
  <2>2. Run(g, 0, got[g])' /\ (got'[g] # <<>> => g \in given' \cap selected')
    BY <1>0, <2>1 DEF Run
  <2>3. CASE g = open
    BY <1>0, <1>2, <1>3, <2>2, <2>3
  <2>4. CASE g # open
    BY <1>0, <1>1, <1>3, <2>1, <2>2, <2>4
  <2> QED BY <2>3, <2>4
<1>5. FileInv'
  <2>1. /\ fileMap' \subseteq selected' /\ (cur' # None => cur' \in given')
        /\ (open' # None => open' \in given' \cap fileMap') /\ (cur' = None => sbuf' = <<>>)
        /\ (\A f \in Files \ given' : read'[f] = 0) /\ got' \in [Files -> Seq(Unit)]
    BY <1>0, <1>3 DEF FileInv
  <2>2. cur' # None => Len(sbuf') <= read'[cur'] /\ Run(cur, read[cur] - Len(sbuf), sbuf)'
    BY <1>0 DEF FileInv, Run
  <2> QED BY <1>4, <2>1, <2>2 DEF FileInv
<1>6. ASSUME NEW v, Fresh(v), v # open' PROVE Fresh(v)'
  <2>1. v \in Files /\ v # open /\ answer[v] = "none" /\ got[v] = <<>> /\ v \in given \cap fileMap
    BY <1>0, <1>6 DEF Fresh
  <2>2. answer'[v] = "none"
    BY <1>1, <2>1
  <2> QED BY <1>0, <1>6, <2>1, <2>2 DEF Fresh
<1> QED BY <1>5, <1>6

\* The result of a file is a text.
LEMMA ResultIs ==
    ASSUME FileTypes, NEW ok \in BOOLEAN, AnswerOpen(ok), NEW msgs,
           msgs = <<>> \/ (open # None /\ msgs = Result(open, ok))
    PROVE  /\ msgs \in Seq(Msg) /\ \A i \in 1..Len(msgs) : msgs[i].data = <<>>
           /\ OnlyResults(msgs) /\ Answered(msgs)' /\ AnswersStay
<1>0. AnswersStay /\ (open \in Files => answer'[open] # "none")
  BY DEF AnswerOpen, AnswersStay
<1>1. CASE msgs = <<>>
  BY <1>0, <1>1 DEF OnlyResults, Answered
<1>2. CASE open # None /\ msgs = Result(open, ok)
  <2>1. PICK k \in {"success", "failure"} : k = IF ok THEN "success" ELSE "failure"
    OBVIOUS
  <2>2. PICK m : m = Text(k, open)
    OBVIOUS
  <2>3. m \in Msg /\ m.data = <<>> /\ IsResult(m) /\ m.v = open /\ open \in Files
    BY <1>2, <2>2 DEF FileTypes, Text, Msg, IsResult
  <2>4. msgs = <<m>>
    BY <1>2, <2>1, <2>2 DEF Result
  <2>5. <<m>> \in Seq(Msg) /\ Len(<<m>>) = 1 /\ <<m>>[1] = m
    BY <2>3
  <2>6. OnlyResults(<<m>>) /\ Answered(<<m>>)'
    BY <1>0, <2>3, <2>5 DEF OnlyResults, Answered
  <2> QED BY <1>0, <2>3, <2>4, <2>5, <2>6
<1> QED BY <1>1, <1>2

\* The text that arrives, and the open file.
LEMMA TextEnds ==
    ASSUME TaskTypes, FlowInv, Ended("R", "files"), NEW m, m = Arrived("R")
    PROVE  /\ pc["R"] = "files" /\ q["R"] # <<>> /\ m = q["R"][1] /\ m.k # "bin" /\ Settled(Received)
           /\ m.k = "header" => Fresh(m.v) /\ m.v \in Files
<1>1. pc["R"] = "files" /\ q["R"] # <<>> /\ m = q["R"][1] /\ m.k # "bin"
  BY TwoPeers DEF Ended, Receives, IsString, Arrived, TaskTypes
<1>2. m \in Msg /\ Follows(Received, m) /\ (m.k = "header" => Fresh(m.v))
  BY <1>1, HeadOfStream
<1> QED BY <1>1, <1>2, MsgIs DEF Follows

\* The receiver returns at a text.
LEMMA ReceiverEndsFiles ==
    ASSUME TaskTypes, FileTypes, FlowInv, Ended("R", "files"), NEW ok \in BOOLEAN, AnswerOpen(ok),
           open' = None, UNCHANGED <<buf, sender, selected, got, fileErrors>>,
           NEW msgs, msgs = <<>> \/ (open # None /\ msgs = Result(open, ok)),
           Passed("R", 0, msgs, {"dead"})
    PROVE  FlowInv'
<1>1. PICK m : m = Arrived("R")
  OBVIOUS
<1>2. pc["R"] = "files" /\ q["R"] # <<>> /\ Settled(Received) /\ fileErrors' = {}
  BY <1>1, TextEnds DEF FlowInv, FileInv
<1>3. FileInv'
  BY <1>2, FileAnswered DEF FlowInv
<1>4. /\ msgs \in Seq(Msg) /\ \A i \in 1..Len(msgs) : msgs[i].data = <<>>
      /\ OnlyResults(msgs) /\ Answered(msgs)' /\ AnswersStay
  BY ResultIs
<1>5. {"dead"} \in SUBSET {"files", "dead"} /\ pc'["R"] # "files"
  BY DEF Passed
<1> QED BY <1>2, <1>3, <1>4, <1>5, ReceiverStreams

\* The end of the last file, and a text that is no header.
LEMMA ReceiveEndFlow ==
    ASSUME TaskTypes, FileTypes, FlowInv, ReceiveEnd \/ ReceiveBadHeader PROVE FlowInv'
<1>0. /\ Ended("R", "files") /\ open' = None /\ UNCHANGED <<buf, sender, selected, got, fileErrors>>
  BY DEF ReceiveEnd, ReceiveBadHeader
<1>1. CASE ReceiveEnd
  <2>1. PICK ok \in BOOLEAN : open # None /\ AnswerOpen(ok) /\ Complete("R", Result(open, ok), {})
    BY <1>1 DEF ReceiveEnd
  <2>2. PICK msgs : msgs = Result(open, ok)
    OBVIOUS
  <2>3. msgs \in Seq(Msg)
    BY <2>1, <2>2, ResultIs
  <2>4. Passed("R", 0, msgs, {"dead"})
    BY <2>1, <2>2, <2>3, TwoPeers, CompletePasses
  <2> QED BY <1>0, <2>1, <2>2, <2>4, ReceiverEndsFiles
<1>2. CASE ReceiveBadHeader
  <2>1. PICK ok \in BOOLEAN :
            AnswerOpen(ok) /\ Fail("R", IF open = None THEN <<>> ELSE Result(open, ok), {}, "parse")
    BY <1>2 DEF ReceiveBadHeader
  <2>2. PICK msgs : msgs = IF open = None THEN <<>> ELSE Result(open, ok)
    OBVIOUS
  <2>3. msgs = <<>> \/ (open # None /\ msgs = Result(open, ok))
    BY <2>2
  <2>4. msgs \in Seq(Msg)
    BY <2>1, <2>3, ResultIs
  <2>5. Passed("R", 0, msgs, {"dead"})
    BY <2>1, <2>2, <2>4, TwoPeers, FailPasses
  <2> QED BY <1>0, <2>1, <2>3, <2>5, ReceiverEndsFiles
<1> QED BY <1>1, <1>2

\* A header.
LEMMA ReceiveHeaderFlow == ASSUME TaskTypes, FileTypes, FlowInv, ReceiveHeader PROVE FlowInv'
<1>1. PICK m : m = Arrived("R")
  OBVIOUS
<1>2. /\ Ended("R", "files") /\ m.k = "header" /\ UNCHANGED <<buf, sender, selected, got>>
      /\ open' = (IF pc'["R"] = "files" /\ m.v \in selected THEN m.v ELSE None)
      /\ fileErrors' = fileErrors \cup (IF pc'["R"] = "files" THEN {m.v} \ selected ELSE {})
  BY <1>1 DEF ReceiveHeader
<1>3. /\ pc["R"] = "files" /\ q["R"] # <<>> /\ m = q["R"][1] /\ Settled(Received)
      /\ Fresh(m.v) /\ m.v \in Files
  BY <1>1, <1>2, TextEnds
<1>4. PICK ok \in BOOLEAN :
         /\ AnswerOpen(ok)
         /\ Proceed("R", 1, IF open = None THEN <<>> ELSE Result(open, ok), {}, "files")
  BY DEF ReceiveHeader
<1>5. PICK msgs : msgs = IF open = None THEN <<>> ELSE Result(open, ok)
  OBVIOUS
<1>6. /\ msgs \in Seq(Msg) /\ \A i \in 1..Len(msgs) : msgs[i].data = <<>>
      /\ OnlyResults(msgs) /\ Answered(msgs)' /\ AnswersStay
  <2>1. msgs = <<>> \/ (open # None /\ msgs = Result(open, ok))
    BY <1>5
  <2> QED BY <1>4, <2>1, ResultIs
<1>7. Passed("R", 1, msgs, {"files", "dead"})
  BY <1>4, <1>5, <1>6, TwoPeers, ProceedPasses
<1>8. m.v \in selected /\ got[m.v] = <<>> /\ m.v # None
  BY <1>3, NoneAssumption DEF Fresh, FlowInv, FileInv
<1>9. open' = (IF pc'["R"] = "files" THEN m.v ELSE None) /\ fileErrors' = {}
  BY <1>2, <1>8 DEF FlowInv, FileInv
<1>10. FileInv' /\ \A v : Fresh(v) /\ v # open' => Fresh(v)'
  <2>1. open' # None => Fresh(open')
    BY <1>3, <1>9
  <2> QED BY <1>2, <1>3, <1>4, <1>9, <2>1, FileAnswered DEF FlowInv
<1>11. ASSUME pc'["R"] = "files"
       PROVE  /\ Chain(Received, q["R"])' /\ Headers(q["R"])'
              /\ SendingAt(At(Received, q["R"], Len(q["R"]) + 1))'
  <2>1. open' = m.v /\ open' # None /\ got'[m.v] = <<>> /\ Len(<<>>) = 0
    BY <1>2, <1>8, <1>9, <1>11
  <2>2. Received' = After(m)
    BY <1>2, <2>1 DEF Received, After
  <2>3. \A v : Fresh(v) /\ (m.k = "header" => v # m.v) => Fresh(v)'
    BY <1>2, <1>10, <2>1
  <2> QED BY <1>2, <1>3, <1>7, <1>11, <2>2, <2>3, RestOfStream
<1>12. {"files", "dead"} \in SUBSET {"files", "dead"}
  OBVIOUS
<1> QED BY <1>2, <1>3, <1>6, <1>7, <1>10, <1>11, <1>12, ReceiverStreams

\* The files when units of the open one are passed to the app.
LEMMA FileGrows ==
    ASSUME FileTypes, FileInv, NEW o \in Files, o = open, NEW d \in Seq(Unit),
           Run(o, Len(got[o]), d), got' = [got EXCEPT ![o] = got[o] \o d],
           UNCHANGED <<sender, selected, open, answer, fileErrors>>
    PROVE  /\ FileInv' /\ Len(got'[o]) = Len(got[o]) + Len(d)
           /\ \A v : Fresh(v) => Fresh(v)'
<1>0. /\ None \notin Files /\ UNCHANGED <<fileMap, given, cur, read, sbuf>> /\ given \subseteq Files
      /\ got \in [Files -> Seq(Unit)]
  BY NoneAssumption DEF sender, FileTypes, FileInv
<1>1. PICK b \in Seq(Unit) : b = got[o]
  BY <1>0
<1>2. b \o d \in Seq(Unit) /\ Len(b \o d) = Len(b) + Len(d) /\ Run(o, 0, b \o d)
  <2>1. Run(o, 0, b) /\ Run(o, 0 + Len(b), d) /\ 0 \in Nat
    <3>1. Len(b) \in Nat /\ 0 + Len(b) = Len(b)
      OBVIOUS
    <3> QED BY <1>1, <3>1 DEF FileInv
  <2> QED BY <2>1, RunGoesOn
<1>3. /\ got' \in [Files -> Seq(Unit)] /\ got'[o] = b \o d
      /\ \A f \in Files : f # o => got'[f] = got[f]
  BY <1>0, <1>1, <1>2
<1>4. \A g \in Files : /\ Run(g, 0, got[g])' /\ (got'[g] # <<>> => g \in given' \cap selected')
                       /\ (answer'[g] # "none" =>
                             g \in given' \cap fileMap' /\ g # cur' /\ g # open' /\ Len(got'[g]) = read'[g])
  <2> SUFFICES ASSUME NEW g \in Files
               PROVE  /\ Run(g, 0, got[g])' /\ (got'[g] # <<>> => g \in given' \cap selected')
                      /\ (answer'[g] # "none" =>
                            g \in given' \cap fileMap' /\ g # cur' /\ g # open' /\ Len(got'[g]) = read'[g])
    OBVIOUS
  <2>1. /\ Run(g, 0, got[g]) /\ (got[g] # <<>> => g \in given \cap selected)
        /\ (answer[g] # "none" => g \in given \cap fileMap /\ g # cur /\ g # open /\ Len(got[g]) = read[g])
    BY DEF FileInv
  <2>2. ASSUME NEW s, s = got'[g], Run(g, 0, s) PROVE Run(g, 0, got[g])'
    BY <2>2 DEF Run
  <2>3. CASE g = o
    <3>1. o \in given \cap selected
      BY <1>0 DEF FileInv
    <3> QED BY <1>0, <1>2, <1>3, <2>1, <2>2, <2>3, <3>1
  <2>4. CASE g # o
    BY <1>0, <1>3, <2>1, <2>2, <2>4
  <2> QED BY <2>3, <2>4
<1>5. FileInv'
  <2>1. /\ fileMap' \subseteq selected' /\ (cur' # None => cur' \in given')
        /\ (open' # None => open' \in given' \cap fileMap') /\ (cur' = None => sbuf' = <<>>)
        /\ (\A f \in Files \ given' : read'[f] = 0) /\ fileErrors' = {}
    BY <1>0 DEF FileInv
  <2>2. cur' # None => Len(sbuf') <= read'[cur'] /\ Run(cur, read[cur] - Len(sbuf), sbuf)'
    BY <1>0 DEF FileInv, Run
  <2> QED BY <1>3, <1>4, <2>1, <2>2 DEF FileInv
<1>6. ASSUME NEW v, Fresh(v) PROVE Fresh(v)'
  BY <1>0, <1>3, <1>6 DEF Fresh
<1> QED BY <1>1, <1>2, <1>3, <1>5, <1>6

\* Binary data.
LEMMA ReceiveBinaryFlow == ASSUME TaskTypes, FileTypes, FlowInv, ReceiveBinary PROVE FlowInv'
<1>1. PICK m : m = Arrived("R")
  OBVIOUS
<1>2. /\ pc["R"] = "files" /\ q["R"] # <<>> /\ m = q["R"][1] /\ m.k = "bin"
      /\ UNCHANGED <<buf, sender, selected, open, answer>>
  BY <1>1, TwoPeers DEF ReceiveBinary, Receives, IsString, Arrived, TaskTypes
<1>3. m \in Msg /\ Follows(Received, m)
  BY <1>2, HeadOfStream
<1>4. PICK d \in Seq(Unit) : d = m.data
  BY <1>2, <1>3, MsgIs
<1>5. Received[1] \in Files /\ d # <<>> /\ Run(Received[1], Received[2], d)
  BY <1>2, <1>3, <1>4 DEF Follows
<1>6. PICK o \in Files : o = open
  <2>1. Nowhere[1] = None
    BY DEF Nowhere
  <2>2. open # None
    BY <1>5, <2>1, NoneAssumption DEF Received
  <2> QED BY <2>2 DEF FileTypes
<1>7. PICK k \in Nat : k = Len(got[o])
  BY DEF FlowInv, FileInv
<1>8. Run(o, k, d) /\ o # None
  <2>1. PICK P : P = <<o, k>>
    OBVIOUS
  <2>2. P[1] = o /\ P[2] = k
    BY <2>1
  <2>3. Received = P /\ o # None
    BY <1>6, <1>7, <2>1, NoneAssumption DEF Received
  <2> QED BY <1>5, <2>2, <2>3
<1>9. /\ <<>> \in Seq(Msg) /\ \A i \in 1..Len(<<>>) : <<>>[i].data = <<>>
      /\ {"files", "dead"} \in SUBSET {"files", "dead"} /\ {"dead"} \in SUBSET {"files", "dead"}
      /\ OnlyResults(<<>>) /\ Answered(<<>>)' /\ AnswersStay
  BY <1>2 DEF OnlyResults, Answered, AnswersStay
<1>10. CASE /\ got' = [got EXCEPT ![open] = got[open] \o m.data]
            /\ Proceed("R", 1, <<>>, {}, "files") /\ UNCHANGED fileErrors
  <2>1. Passed("R", 1, <<>>, {"files", "dead"})
    BY <1>9, <1>10, TwoPeers, ProceedPasses
  <2>2. got' = [got EXCEPT ![o] = got[o] \o d]
    BY <1>4, <1>6, <1>10
  <2>3. FileInv' /\ Len(got'[o]) = k + Len(d) /\ \A v : Fresh(v) => Fresh(v)'
    BY <1>2, <1>6, <1>7, <1>8, <1>10, <2>2, FileGrows DEF FlowInv
  <2>4. Received' = After(m)
    <3>1. Received' = <<o, k + Len(d)>>
      BY <1>2, <1>6, <1>8, <2>3 DEF Received
    <3>2. Len(d) \in 1..Len(d)
      BY <1>5
    <3>3. After(m) = d[Len(d)]
      BY <1>2, <1>4 DEF After
    <3> QED BY <1>8, <3>1, <3>2, <3>3 DEF Run
  <2>5. pc'["R"] = "files" =>
            /\ Chain(Received, q["R"])' /\ Headers(q["R"])'
            /\ SendingAt(At(Received, q["R"], Len(q["R"]) + 1))'
    BY <1>2, <2>1, <2>3, <2>4, RestOfStream
  <2> QED BY <1>2, <1>9, <2>1, <2>3, <2>5, ReceiverStreams
<1>11. CASE Fail("R", <<>>, {}, "app") /\ UNCHANGED <<got, fileErrors>>
  <2>1. Passed("R", 1, <<>>, {"dead"})
    BY <1>9, <1>11, TwoPeers, FailPasses
  <2>2. FileInv'
    BY <1>2, <1>11, FileSame DEF FlowInv, receiver
  <2>3. pc'["R"] # "files"
    BY <2>1 DEF Passed
  <2> QED BY <1>2, <1>9, <2>1, <2>2, <2>3, ReceiverStreams
<1> QED BY <1>1, <1>6, <1>8, <1>10, <1>11 DEF ReceiveBinary

----------------------------------------------------------------------------
(* The outer tasks *)

\* The connection is lost, and with it the last of the messages.
LEMMA DisconnectFlow ==
    ASSUME TaskTypes, FlowInv, NEW p \in Peers, Disconnect(p) PROVE FlowInv'
<1>0. UNCHANGED <<pc, buf, sender, receiver>> /\ UNCHANGED <<fileMap, given, cur, read, sbuf, selected>>
  BY DEF Disconnect, sender, receiver
<1>1. \A r \in Peers : q'[r] \in Seq(Msg) /\ IsFirst(q'[r], q[r]) /\ From(q'[r], q[r])
  <2> SUFFICES ASSUME NEW r \in Peers
               PROVE  q'[r] \in Seq(Msg) /\ IsFirst(q'[r], q[r]) /\ From(q'[r], q[r])
    OBVIOUS
  <2>1. PICK s \in Seq(Msg) : s = q[r]
    BY DEF TaskTypes
  <2>2. PICK n \in 0..Len(s) : q'[r] = SubSeq(s, 1, n)
    <3>1. PICK i \in 0..Len(q[p]), j \in 0..Len(q[Other(p)]) :
              q' = [q EXCEPT ![p] = SubSeq(q[p], 1, i), ![Other(p)] = SubSeq(q[Other(p)], 1, j)]
      BY DEF Disconnect
    <3>2. q'[p] = SubSeq(q[p], 1, i) /\ q'[Other(p)] = SubSeq(q[Other(p)], 1, j)
      BY <3>1, PeersAre DEF TaskTypes
    <3>3. CASE r = p
      BY <2>1, <3>2, <3>3
    <3>4. CASE r = Other(p)
      BY <2>1, <3>2, <3>4
    <3> QED BY <3>3, <3>4, PeersAre
  <2>3. n \in Nat /\ n <= Len(s) /\ 1 \in Nat \ {0}
    OBVIOUS
  <2> QED BY <2>1, <2>2, <2>3, PartOf, PartsAre
<1>2. PICK s \in Seq(Msg) : s = q["R"]
  BY TwoPeers DEF TaskTypes
<1>3. PICK t \in Seq(Msg) : t = q'["R"] /\ IsFirst(t, s)
  BY <1>1, <1>2, TwoPeers
<1>4. ~Live'
  <2>1. ~Running(p)'
    BY DEF Disconnect, TaskTypes, Running
  <2> QED BY <2>1 DEF Live, Peers
<1>5. PhaseInv'
  <2>1. q["R"] = <<>> => q'["R"] = <<>>
    BY <1>2, <1>3 DEF IsFirst
  <2> QED BY <1>0, <2>1 DEF FlowInv, PhaseInv, Unchosen, Unlisted
<1>6. StringInv'
  <2>1. /\ (Unchosen' => Unchosen) /\ selected \subseteq selected'
        /\ (Unlisted' => Unlisted) /\ (Unseen' => Unseen)
    BY <1>0 DEF Unchosen, Unlisted, Unseen
  <2>2. \A i \in DOMAIN q'["S"] : OkParts(q["S"][i].data)'
    BY <1>1, <2>1, TwoPeers, AnswersKept DEF FlowInv
  <2>3. OkParts(buf["S"])'
    <3>1. \A d : d = buf["S"] => OkParts(d)'
      BY <2>1, OkStable DEF FlowInv, StringInv
    <3> QED BY <1>0, <3>1
  <2>4. /\ Unlisted => ~HasPart("list", buf["R"]) /\ NoPart("list", s)
        /\ Unseen => TextLast("list", buf["R"], s)
        /\ NoEmpty(s)
    BY <1>2 DEF FlowInv, StringInv
  <2>5. /\ Unlisted => ~HasPart("list", buf["R"]) /\ NoPart("list", t)
        /\ Unseen => TextLast("list", buf["R"], t)
        /\ NoEmpty(t)
    BY <1>3, <2>4, FirstKeeps
  <2>6. /\ Unlisted' => ~HasPart("list", buf'["R"]) /\ NoPart("list", q'["R"])
        /\ Unseen' => TextLast("list", buf'["R"], q'["R"])
        /\ NoEmpty(q'["R"])
    BY <1>0, <1>3, <2>1, <2>5
  <2> QED BY <2>2, <2>3, <2>6 DEF StringInv, NoPart, NoEmpty, TextLast
<1>7. FileInv'
  BY <1>0, FileSame DEF FlowInv
<1>8. StreamInv'
  <2> SUFFICES ASSUME pc'["R"] = "files"
               PROVE  /\ Chain(Received, q["R"])' /\ Headers(q["R"])'
                      /\ SendingAt(At(Received, q["R"], Len(q["R"]) + 1))'
    BY DEF StreamInv
  <2>1. PICK P : P = Received
    OBVIOUS
  <2>2. Chain(P, s) /\ Headers(s)
    BY <1>0, <1>2, <2>1 DEF FlowInv, StreamInv
  <2>3. Chain(P, t) /\ Headers(t)
    BY <1>3, <2>2, FirstKeeps
  <2>4. Keeps
    BY <1>0 DEF Keeps, sender
  <2>5. Chain(P, t)' /\ Headers(t)' /\ Received' = P
    BY <2>1, <2>3, <2>4, StreamKept
  <2>6. SendingAt(At(Received, q["R"], Len(q["R"]) + 1))'
    BY <1>4 DEF SendingAt
  <2> QED BY <1>3, <2>5, <2>6
<1>9. StatusInv'
  <2>1. PICK x \in Seq(Msg), y \in Seq(Msg) : x = q["S"] /\ y = q'["S"] /\ IsFirst(y, x)
    BY <1>1, TwoPeers DEF TaskTypes
  <2>2. pc["S"] \notin {"sending", "status", "dead"} => TextLast("ok", buf["S"], y)
    BY <2>1, FirstKeeps DEF FlowInv, StatusInv
  <2>3. AnswersStay /\ StatusInv /\ q' \in [Peers -> Seq(Msg)] /\ From(q'["S"], q["S"])
    <3>1. q' \in [Peers -> Seq(Msg)]
      BY <1>1 DEF Disconnect, TaskTypes
    <3> QED BY <1>0, <1>1, <3>1, TwoPeers DEF AnswersStay, receiver, FlowInv
  <2>4. pc["S"] \in {"sending", "status"} => OnlyResults(q["S"])
    BY <2>3 DEF StatusInv
  <2>5. pc["S"] \notin {"selection", "dead"} => buf["S"] = <<>>
    BY <2>3 DEF StatusInv
  <2> QED BY <1>0, <2>1, <2>2, <2>3, <2>4, <2>5, StatusHeard
<1> QED BY <1>5, <1>6, <1>7, <1>8, <1>9 DEF FlowInv

----------------------------------------------------------------------------
(* The invariant *)

\* Nothing happens.
LEMMA StutterFlow == ASSUME FlowInv, UNCHANGED vars PROVE FlowInv'
<1>1. UNCHANGED <<pc, q, buf, end, sender, receiver>>
  BY DEF vars, control
<1>2. UNCHANGED <<fileMap, given, cur, read, sbuf, selected, open, got, answer, fileErrors>>
  BY <1>1 DEF sender, receiver
<1>3. PhaseInv'
  BY <1>1, <1>2 DEF FlowInv, PhaseInv, Unchosen, Unlisted
<1>4. StringInv'
  <2>1. \A d : OkParts(d) => OkParts(d)'
    BY <1>1, <1>2, OkStable DEF Unchosen
  <2>2. OkParts(buf["S"])' /\ \A i \in DOMAIN q'["S"] : OkParts(q["S"][i].data)'
    <3>1. ASSUME NEW d, d = buf["S"] PROVE OkParts(d)'
      BY <2>1, <3>1 DEF FlowInv, StringInv
    <3>2. ASSUME NEW i \in DOMAIN q["S"], NEW d, d = q["S"][i].data PROVE OkParts(d)'
      BY <2>1, <3>2 DEF FlowInv, StringInv
    <3> QED BY <1>1, <3>1, <3>2
  <2>3. /\ Unlisted' => ~HasPart("list", buf'["R"]) /\ NoPart("list", q'["R"])
        /\ Unseen' => TextLast("list", buf'["R"], q'["R"])
        /\ NoEmpty(q'["R"])
    BY <1>1 DEF FlowInv, StringInv, Unlisted, Unseen
  <2> QED BY <2>2, <2>3 DEF StringInv, NoPart, NoEmpty, TextLast
<1>5. FileInv'
  BY <1>1, FileSame DEF FlowInv
<1>6. StreamInv'
  <2> SUFFICES ASSUME pc'["R"] = "files"
               PROVE  /\ Chain(Received, q["R"])' /\ Headers(q["R"])'
                      /\ SendingAt(At(Received, q["R"], Len(q["R"]) + 1))'
    BY DEF StreamInv
  <2>1. PICK P, s : P = Received /\ s = q["R"]
    OBVIOUS
  <2>2. PICK E : E = At(P, s, Len(s) + 1)
    OBVIOUS
  <2>3. Chain(P, s) /\ Headers(s) /\ SendingAt(E)
    BY <1>1, <2>1, <2>2 DEF FlowInv, StreamInv
  <2>4. Keeps
    BY <1>1, <1>2 DEF Keeps
  <2>5. Chain(P, s)' /\ Headers(s)' /\ Received' = P /\ (Settled(E) => Settled(E)')
    BY <2>1, <2>3, <2>4, StreamKept
  <2>6. SendingAt(E)'
    BY <1>1, <1>2, <2>3, <2>5 DEF SendingAt, Live, Running
  <2>7. At(Received, q["R"], Len(q["R"]) + 1)' = E
    BY <1>1, <2>1, <2>2, <2>5 DEF At, After
  <2> QED BY <1>1, <2>1, <2>5, <2>6, <2>7
<1>7. StatusInv'
  BY <1>1, <1>2 DEF FlowInv, StatusInv, TextLast, OnlyResults, NoEmpty, Answered
<1> QED BY <1>3, <1>4, <1>5, <1>6, <1>7 DEF FlowInv

\* Every step keeps the invariant.
LEMMA StepFlow == ASSUME AllInv, FlowInv, [Next]_vars PROVE FlowInv'
<1>0. TaskTypes /\ FileTypes /\ GateInv
  BY DEF AllInv
<1>1. CASE SendTask
  BY <1>0, <1>1, SendNonceFlow, SendTokenFlow, HandleResponsesFlow, HandleFileListResponseFlow,
     SendHeaderFlow, SendChunksFlow, SendRestFlow, SendEndFlow, AwaitStatusFlow
     DEF SendTask
<1>2. CASE ReceiveTask
  BY <1>0, <1>2, ReceiveNonceFlow, HandleTokenRequestFlow, HandlePinSendingResponseFlow, SelectFlow,
     DeclineFlow, ReceiveEndFlow, ReceiveHeaderFlow, ReceiveBinaryFlow
     DEF ReceiveTask
<1>3. ASSUME PinTask("S") PROVE FlowInv'
  BY <1>0, <1>3, SenderCollects, SenderPinFlow DEF PinTask
<1>4. ASSUME PinTask("R") PROVE FlowInv'
  BY <1>0, <1>4, ReceiverCollects, ReceiverPinFlow, ReceiverEntersFlow DEF PinTask
<1>5. ASSUME NEW p \in Peers, PinTask(p) \/ Disconnect(p) PROVE FlowInv'
  BY <1>0, <1>3, <1>4, <1>5, DisconnectFlow DEF Peers
<1>6. CASE UNCHANGED vars
  BY <1>6, StutterFlow
<1> QED BY <1>1, <1>2, <1>5, <1>6 DEF Next

\* The invariant holds initially.
LEMMA InitFlow == ASSUME Init PROVE FlowInv
<1>1. /\ pc["S"] = "start" /\ pc["R"] = "nonce" /\ q["S"] = <<>> /\ q["R"] = <<>>
      /\ buf["S"] = <<>> /\ buf["R"] = <<>>
  BY DEF Init, Peers
<1>2. PhaseInv
  BY <1>1 DEF Init, PhaseInv, Unchosen, Unlisted
<1>3. StringInv
  BY <1>1 DEF StringInv, OkParts, HasPart, NoPart, TextLast, NoEmpty
<1>4. FileInv
  BY SizeAssumption DEF Init, FileInv, Run
<1>5. StreamInv
  BY <1>1 DEF StreamInv
<1>6. StatusInv
  BY <1>1 DEF StatusInv, TextLast, NoEmpty, Answered
<1> QED BY <1>2, <1>3, <1>4, <1>5, <1>6 DEF FlowInv

\* The invariant always holds.
LEMMA FlowInvariance == Spec => []FlowInv
<1>1. Init => FlowInv
  BY InitFlow
<1>2. AllInv /\ FlowInv /\ [Next]_vars => FlowInv'
  BY StepFlow
<1> QED BY <1>1, <1>2, Invariance, PTL DEF Spec

----------------------------------------------------------------------------
(* The result of a sender that is done *)

\* How a task returns, and that of the other peer does not.
LEMMA TaskReturns ==
    ASSUME TaskTypes, NEW p \in Peers
    PROVE  /\ \A msgs, sts, why : Fail(p, msgs, sts, why) => outcome' = [outcome EXCEPT ![p] = why]
           /\ \A n, msgs, sts, next : Proceed(p, n, msgs, sts, next) =>
                 outcome' = outcome \/ outcome' = [outcome EXCEPT ![p] = "send"]
           /\ \A msgs, sts : Complete(p, msgs, sts) =>
                 \E why : outcome' = [outcome EXCEPT ![p] = why]
           /\ \A msgs, sts, why : Fail(p, msgs, sts, why) => pc' = [pc EXCEPT ![p] = "dead"]
           /\ \A n, msgs, sts, next : Proceed(p, n, msgs, sts, next) =>
                 pc' = [pc EXCEPT ![p] = next] \/ pc' = [pc EXCEPT ![p] = "dead"]
           /\ \A msgs, sts : Complete(p, msgs, sts) => pc' = [pc EXCEPT ![p] = "dead"]
  BY DEF Fail, Proceed, Complete

\* The sender when the receiver takes a step.
SenderStill == outcome'["S"] = outcome["S"] /\ pc'["S"] = pc["S"] /\ UNCHANGED sender /\ AnswersStay

\* It is still then.
LEMMA ReceiverStep == ASSUME TaskTypes, FileTypes, ReceiveTask \/ PinTask("R") PROVE SenderStill
<1>0. \A w : /\ outcome' = [outcome EXCEPT !["R"] = w] => outcome'["S"] = outcome["S"]
             /\ pc' = [pc EXCEPT !["R"] = w] => pc'["S"] = pc["S"]
  BY TwoPeers DEF TaskTypes
<1>1. /\ \A msgs, sts, why : Fail("R", msgs, sts, why) => outcome'["S"] = outcome["S"] /\ pc'["S"] = pc["S"]
      /\ \A n, msgs, sts, next :
            Proceed("R", n, msgs, sts, next) => outcome'["S"] = outcome["S"] /\ pc'["S"] = pc["S"]
      /\ \A msgs, sts : Complete("R", msgs, sts) => outcome'["S"] = outcome["S"] /\ pc'["S"] = pc["S"]
  <2>1. ASSUME NEW msgs, NEW sts, NEW why, Fail("R", msgs, sts, why)
        PROVE  outcome'["S"] = outcome["S"] /\ pc'["S"] = pc["S"]
    BY <1>0, <2>1, TwoPeers, TaskReturns
  <2>2. ASSUME NEW n, NEW msgs, NEW sts, NEW next, Proceed("R", n, msgs, sts, next)
        PROVE  outcome'["S"] = outcome["S"] /\ pc'["S"] = pc["S"]
    BY <1>0, <2>2, TwoPeers, TaskReturns
  <2>3. ASSUME NEW msgs, NEW sts, Complete("R", msgs, sts)
        PROVE  outcome'["S"] = outcome["S"] /\ pc'["S"] = pc["S"]
    BY <1>0, <2>3, TwoPeers, TaskReturns
  <2> QED BY <2>1, <2>2, <2>3
<1>2. \A guess, n, notice, msgs, sts :
         verify_pin("R", guess, n, notice, msgs, sts) => outcome'["S"] = outcome["S"] /\ pc'["S"] = pc["S"]
  BY <1>1 DEF verify_pin, AfterPass
<1>3. UNCHANGED receiver => AnswersStay
  BY DEF receiver, AnswersStay
<1>4. \A ok \in BOOLEAN : AnswerOpen(ok) => AnswersStay
  BY DEF AnswerOpen, AnswersStay
<1>5. CASE ReceiveNonce \/ HandlePinSendingResponse \/ Decline \/ DropSelection \/ ReceiveChunk("R")
           \/ EnterPin("R") \/ DropPinRequest("R")
  BY <1>1, <1>3, <1>5 DEF ReceiveNonce, HandlePinSendingResponse, ShowFiles, Decline, DropSelection,
     ReceiveChunk, EnterPin, DropPinRequest, SenderStill
<1>6. CASE HandleTokenRequest \/ VerifyPin("R")
  BY <1>1, <1>2, <1>3, <1>6 DEF HandleTokenRequest, VerifyPin, Challenge, SenderStill
<1>7. CASE Select \/ ReceiveBinary
  BY <1>1, <1>7 DEF Select, ReceiveBinary, SenderStill, AnswersStay
<1>8. CASE ReceiveEnd \/ ReceiveHeader \/ ReceiveBadHeader
  BY <1>1, <1>4, <1>8 DEF ReceiveEnd, ReceiveHeader, ReceiveBadHeader, SenderStill
<1> QED BY <1>5, <1>6, <1>7, <1>8 DEF ReceiveTask, PinTask

\* A task that returned takes no step, and there are two steps that are the last of a
\* sender that is done.
LEMMA SenderStep ==
    ASSUME TaskTypes, SendTask \/ PinTask("S")
    PROVE  /\ pc["S"] # "dead"
           /\ outcome'["S"] = "completed" /\ outcome["S"] # "completed" =>
                HandleFileListResponse \/ AwaitStatus
<1>0. pc["S"] # "dead"
  BY DEF SendTask, PinTask, SendNonce, SendToken, HandleTokenResponse, HandlePinReceivingResponse,
     HandleFileListResponse, SendHeader, SendChunks, SendRest, SendEnd, AwaitStatus, ReceiveChunk,
     VerifyPin, EnterPin, DropPinRequest, Receives, Ended, ChunkStates
<1> SUFFICES ASSUME outcome'["S"] = "completed", outcome["S"] # "completed"
             PROVE  HandleFileListResponse \/ AwaitStatus
  BY <1>0
<1>1. /\ \A msgs, sts, why : Fail("S", msgs, sts, why) => why = "completed"
      /\ \A n, msgs, sts, next : ~Proceed("S", n, msgs, sts, next)
  BY TwoPeers, TaskReturns DEF TaskTypes
<1>2. \A guess, n, notice, msgs, sts : ~verify_pin("S", guess, n, notice, msgs, sts)
  BY <1>1 DEF verify_pin, AfterPass
<1>3. ~OfferFiles
  BY <1>1, <1>2 DEF OfferFiles, Challenge, AfterPass
<1>4. ~SendNonce /\ ~SendToken /\ ~SendEnd /\ ~ReceiveChunk("S") /\ ~EnterPin("S") /\ ~DropPinRequest("S")
  BY <1>1 DEF SendNonce, SendToken, SendEnd, ReceiveChunk, EnterPin, DropPinRequest
<1>5. ~HandleTokenResponse /\ ~HandlePinReceivingResponse /\ ~VerifyPin("S")
  BY <1>1, <1>2, <1>3 DEF HandleTokenResponse, HandlePinReceivingResponse, VerifyPin
<1>6. ~SendHeader /\ ~SendChunks /\ ~SendRest
  BY DEF SendHeader, SendChunks, SendRest, Write, control
<1> QED BY <1>4, <1>5, <1>6 DEF SendTask, PinTask

\* The invariant holds initially.
LEMMA InitDone == ASSUME Init PROVE DoneInv
  BY DEF Init, DoneInv, Peers

\* What was answered for a sender that is still.
LEMMA StillDone == ASSUME FileTypes, DoneInv, SenderStill PROVE DoneInv'
<1>1. UNCHANGED <<fileMap, given>> /\ given \subseteq Files
  BY DEF SenderStill, sender, FileTypes
<1> QED BY <1>1 DEF SenderStill, DoneInv, AnswersStay

\* The sender waited for a status.
LEMMA AwaitStatusDone == ASSUME TaskTypes, FileTypes, FlowInv, AwaitStatus PROVE DoneInv'
<1>1. pc["S"] = "status" /\ q["S"] # <<>> /\ UNCHANGED <<sender, receiver>> /\ Complete("S", <<>>, {})
  BY DEF AwaitStatus, Receives
<1>2. pc'["S"] = "dead"
  BY <1>1, TwoPeers, TaskReturns DEF TaskTypes
<1>3. PICK s \in Seq(Msg) : s = q["S"] /\ OnlyResults(s) /\ Answered(s)
  BY <1>1, TwoPeers DEF TaskTypes, FlowInv, StatusInv
<1>4. 1 \in 1..Len(s)
  BY <1>1, <1>3
<1>5. s[1] \in Msg /\ IsResult(s[1]) /\ answer[s[1].v] # "none"
  BY <1>3, <1>4 DEF OnlyResults, Answered
<1>6. s[1].v \in Files
  BY <1>5 DEF Msg, IsResult
<1>7. s[1].v \in given \cap fileMap
  BY <1>5, <1>6 DEF FlowInv, FileInv
<1>8. UNCHANGED <<fileMap, given, answer>>
  BY <1>1 DEF sender, receiver
<1> QED BY <1>2, <1>5, <1>7, <1>8 DEF DoneInv

\* The selection is complete: the sender is done only if it was declined.
LEMMA HandleFileListResponseDone ==
    ASSUME TaskTypes, FlowInv, HandleFileListResponse, outcome["S"] # "completed" PROVE DoneInv'
<1>1. given = {} /\ given' = {}
  BY DEF HandleFileListResponse, Ended, Receives, FlowInv, PhaseInv
<1> SUFFICES ASSUME outcome'["S"] = "completed" PROVE pc'["S"] = "dead"
  BY <1>1 DEF DoneInv
<1>2. \A n, msgs, sts, next : ~Proceed("S", n, msgs, sts, next)
  BY TwoPeers, TaskReturns DEF TaskTypes
<1>3. (\E why : Fail("S", <<>>, {}, why)) \/ Complete("S", <<>>, {"Declined"})
  BY <1>2 DEF HandleFileListResponse
<1> QED BY <1>3, TwoPeers, TaskReturns DEF TaskTypes

\* Every step keeps the invariant.
LEMMA StepDone == ASSUME AllInv, FlowInv, DoneInv, [Next]_vars PROVE DoneInv'
<1>0. TaskTypes /\ FileTypes
  BY DEF AllInv
<1>1. CASE SendTask \/ PinTask("S")
  <2>1. outcome["S"] # "completed"
    BY <1>0, <1>1, SenderStep DEF DoneInv
  <2>2. CASE outcome'["S"] = "completed"
    BY <1>0, <1>1, <2>1, <2>2, SenderStep, AwaitStatusDone, HandleFileListResponseDone
  <2>3. CASE outcome'["S"] # "completed"
    BY <2>3 DEF DoneInv
  <2> QED BY <2>2, <2>3
<1>2. CASE ReceiveTask \/ PinTask("R")
  BY <1>0, <1>2, ReceiverStep, StillDone
<1>3. ASSUME NEW p \in Peers, Disconnect(p) PROVE DoneInv'
  <2>1. SenderStill
    BY <1>3 DEF Disconnect, SenderStill, receiver, AnswersStay
  <2> QED BY <1>0, <2>1, StillDone
<1>4. CASE UNCHANGED vars
  <2>1. SenderStill
    BY <1>4 DEF vars, control, receiver, SenderStill, AnswersStay
  <2> QED BY <1>0, <2>1, StillDone
<1> QED BY <1>1, <1>2, <1>3, <1>4 DEF Next, Peers

----------------------------------------------------------------------------
(* Theorems *)

\* What the receiver passes to its app for a file is a prefix of what the sender's
\* app offers, for any files and any cut into chunks, and once it reported a result
\* it is everything that was produced, although binary messages carry no file id,
\* the apps may give up anywhere and the connection may be lost at any message
\* (webrtc.rs:817-912, 940-1013).
THEOREM IntegrityCorrect == Spec => []FileIntegrity
<1>1. FlowInv => FileIntegrity
  <2> SUFFICES ASSUME FlowInv, NEW f \in Files
               PROVE  /\ IsPrefix(got[f], Content(f))
                      /\ answer[f] # "none" => Len(got[f]) = read[f] /\ f # cur
                      /\ got[f] # <<>> => f \in selected
    BY DEF FileIntegrity
  <2>1. PICK s \in Seq(Unit) : s = got[f]
    BY DEF FlowInv, FileInv
  <2>2. Len(s) <= Size[f] /\ Len(s) \in Nat /\ Size[f] \in Nat
        /\ \A j \in 1..Len(s) : s[j] = <<f, j>>
    BY <2>1, SizeAssumption DEF FlowInv, FileInv, Run
  <2>3. PICK c \in Seq(Unit) : c = Content(f)
    BY ContentIs
  <2>4. Len(c) = Size[f] /\ \A j \in 1..Size[f] : c[j] = <<f, j>>
    BY <2>2, <2>3 DEF Content
  <2>5. IsPrefix(s, c)
    <3>1. SubSeq(s, 1, Len(s)) = s
      BY AllOf
    <3>2. PICK t : t = SubSeq(c, 1, Len(s))
      OBVIOUS
    <3>3. t \in Seq(Unit) /\ Len(t) = Len(s) /\ \A j \in 1..Len(s) : t[j] = c[j]
      <4>1. Len(s) \in 0..Len(c)
        BY <2>2, <2>4
      <4> QED BY <3>2, <4>1, FirstIs
    <3>4. \A j \in 1..Len(s) : t[j] = s[j]
      <4> SUFFICES ASSUME NEW j \in 1..Len(s) PROVE t[j] = s[j]
        OBVIOUS
      <4>1. j \in 1..Size[f]
        BY <2>2
      <4> QED BY <2>2, <2>4, <3>3, <4>1
    <3>5. t = s
      BY <3>3, <3>4, SeqEqual
    <3> QED BY <2>2, <2>4, <3>1, <3>2, <3>5 DEF IsPrefix
  <2> QED BY <2>1, <2>3, <2>5 DEF FlowInv, FileInv
<1> QED BY <1>1, FlowInvariance, PTL

\* The receiver refuses nothing that the sender sends: every header that arrives
\* names a file its user selected and all content comes behind a header
\* (webrtc.rs:940-1013).
THEOREM NoStrayCorrect == Spec => []NoStrayData
<1>1. FlowInv => NoStrayData
  BY DEF FlowInv, FileInv, NoStrayData
<1> QED BY <1>1, FlowInvariance, PTL

\* A sender whose task returned as done has the receiver's result when it sent a
\* single file: the one status it waits for is that file's, for any selection, also
\* when the connection is lost around it or an app gives up (webrtc.rs:913-915).
THEOREM SingleCorrect == Spec => []SingleFileAnswered
<1>1. AllInv /\ DoneInv => SingleFileAnswered
  <2> SUFFICES ASSUME AllInv, DoneInv, Cardinality(fileMap \cap given) = 1,
                      outcome["S"] = "completed", NEW f \in fileMap \cap given
               PROVE  answer[f] # "none"
    BY DEF SingleFileAnswered, CompletedMeansAnswered
  <2>1. PICK S : S = fileMap \cap given
    OBVIOUS
  <2>2. PICK g \in S : answer[g] # "none"
    BY <2>1 DEF DoneInv
  <2>3. S \subseteq Files
    BY <2>1 DEF AllInv, FileTypes
  <2>4. IsFiniteSet(S)
    BY <2>3, FilesAssumption, FS_Subset
  <2>5. PICK x : S = {x}
    BY <2>1, <2>4, FS_Singleton
  <2> QED BY <2>1, <2>2, <2>5
<1>2. Init => DoneInv
  BY InitDone
<1>3. AllInv /\ FlowInv /\ DoneInv /\ [Next]_vars => DoneInv'
  BY StepDone
<1> QED BY <1>1, <1>2, <1>3, Invariance, FlowInvariance, PTL DEF Spec

=============================================================================
