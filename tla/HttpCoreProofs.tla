--------------------------- MODULE HttpCoreProofs ---------------------------
(***************************************************************************)
(* What the HTTP library guarantees for any number of clients and calls,   *)
(* any capacity of the nonce maps and any setup.                           *)
(***************************************************************************)
EXTENDS HttpCore, WellFoundedInduction, TLAPS

----------------------------------------------------------------------------
(* LruCache *)

\* There is one entry per key.
Unique(map) == \A i, j \in 1..Len(map) : map[i][1] = map[j][1] => i = j

\* A set of natural numbers that is not empty has its minimum.
LEMMA MinIn == ASSUME NEW S \in SUBSET Nat, S # {} PROVE Min(S) \in S
<1>1. \E x \in S : \A y \in S : ~(<<y, x>> \in OpToRel(<, Nat))
  BY NatLessThanWellFounded, WFMin
<1>2. PICK x \in S : \A y \in S : ~(<<y, x>> \in OpToRel(<, Nat))
  BY <1>1
<1>3. \A y \in S : ~(y < x)
  BY <1>2 DEF OpToRel
<1>4. \A y \in S : x <= y
  BY <1>3
<1> QED BY <1>4 DEF Min

\* rest has the entries of map but the one at skip, which has the key.
Skips(rest, map, key, skip) ==
    \A i \in 1..Len(rest) :
        LET j == IF i < skip THEN i ELSE i + 1
        IN  j \in 1..Len(map) /\ rest[i] = map[j] /\ map[j][1] # key

\* What is left without a key are the other entries, in their order.
LEMMA WithoutIs ==
    ASSUME NEW E, NEW map \in Seq(E), NEW key, Unique(map)
    PROVE  /\ Without(map, key) \in Seq(E)
           /\ \E skip \in Nat \ {0} : Skips(Without(map, key), map, key, skip)
<1> DEFINE at == {i \in 1..Len(map) : map[i][1] = key}
           W == Without(map, key)
<1>0. Len(map) \in Nat
  OBVIOUS
<1>1. CASE at = {}
  <2>1. W = map
    BY <1>1 DEF Without, RemoveFirstMatch
  <2>2. \A i \in 1..Len(map) : i < Len(map) + 1 /\ map[i][1] # key
    BY <1>1
  <2>3. Len(map) + 1 \in Nat \ {0}
    BY <1>0
  <2> HIDE DEF W, at
  <2>4. Skips(W, map, key, Len(map) + 1)
    BY <1>0, <2>1, <2>2 DEF Skips
  <2> QED BY <2>1, <2>3, <2>4 DEF W
<1>2. CASE at # {}
  <2> DEFINE k == Min(at)
  <2>1. k \in at
    <3>1. at \in SUBSET Nat
      OBVIOUS
    <3> HIDE DEF at
    <3> QED BY <1>2, <3>1, MinIn
  <2>2. W = SubSeq(map, 1, k - 1) \o SubSeq(map, k + 1, Len(map))
    BY <1>2 DEF Without, RemoveFirstMatch, SelectInSeq, RemoveAt
  <2>3. k \in 1..Len(map) /\ map[k][1] = key
    BY <2>1
  <2> HIDE DEF W, k, at
  <2> DEFINE A == SubSeq(map, 1, k - 1)
             B == SubSeq(map, k + 1, Len(map))
  <2>4. A \in Seq(E) /\ Len(A) = k - 1 /\ \A i \in 1..(k - 1) : A[i] = map[i]
    BY <1>0, <2>3
  <2>5. B \in Seq(E) /\ Len(B) = Len(map) - k /\ \A i \in 1..(Len(map) - k) : B[i] = map[i + k]
    BY <1>0, <2>3
  <2>6. W = A \o B
    BY <2>2
  <2> HIDE DEF A, B
  <2>7. W \in Seq(E) /\ Len(W) = Len(A) + Len(B)
    BY <2>4, <2>5, <2>6
  <2>8. Len(W) = Len(map) - 1
    BY <1>0, <2>3, <2>4, <2>5, <2>7
  <2>9. ASSUME NEW i \in 1..Len(W)
        PROVE  LET j == IF i < k THEN i ELSE i + 1
               IN  j \in 1..Len(map) /\ W[i] = map[j] /\ map[j][1] # key
    <3>1. CASE i < k
      <4>1. i \in 1..Len(A) /\ i \in 1..Len(map) /\ i # k
        BY <1>0, <2>3, <2>4, <3>1
      <4>2. W[i] = map[i]
        BY <2>4, <2>5, <2>6, <4>1
      <4> QED BY <2>3, <3>1, <4>1, <4>2 DEF Unique
    <3>2. CASE ~(i < k)
      <4>1. i - (k - 1) \in 1..(Len(map) - k) /\ i + 1 \in 1..Len(map) /\ i + 1 # k
        BY <1>0, <2>3, <2>8, <3>2
      <4>2. i - Len(A) \in 1..Len(B) /\ i - Len(A) = i - (k - 1)
        BY <1>0, <2>3, <2>4, <2>5, <4>1
      <4>3. W[i] = B[i - Len(A)]
        BY <2>4, <2>5, <2>6, <4>2
      <4>4. B[i - (k - 1)] = map[i - (k - 1) + k]
        BY <2>5, <4>1
      <4>5. i - (k - 1) + k = i + 1
        BY <2>3
      <4> QED BY <2>3, <3>2, <4>1, <4>2, <4>3, <4>4, <4>5 DEF Unique
    <3> QED BY <3>1, <3>2
  <2>10. k \in Nat \ {0}
    BY <2>3
  <2>11. Skips(W, map, key, k)
    BY <2>9 DEF Skips
  <2> QED BY <2>7, <2>10, <2>11 DEF W
<1> QED BY <1>1, <1>2

\* LruCache::put: the entry comes first, the others are entries of before under other
\* keys, there is one entry per key still, and no more than fit.
IsPut(p, map, key, value, E) ==
    /\ p \in Seq(E) /\ Len(p) <= Cap /\ Unique(p)
    /\ \A i \in 1..Len(p) :
          \/ p[i] = <<key, value>>
          \/ p[i][1] # key /\ \E j \in 1..Len(map) : p[i] = map[j]

\* Put keeps a cache a cache in this sense.
LEMMA PutIs ==
    ASSUME NEW E, NEW map \in Seq(E), NEW key, NEW value, <<key, value>> \in E, Unique(map)
    PROVE  IsPut(Put(map, key, value), map, key, value, E)
<1> DEFINE W == Without(map, key)
           e == <<key, value>>
           all == <<e>> \o W
           n == IF Len(all) > Cap THEN Cap ELSE Len(all)
           p == SubSeq(all, 1, n)
<1>1. PICK skip \in Nat \ {0} : Skips(W, map, key, skip)
  BY WithoutIs
<1>2. W \in Seq(E) /\ Len(W) \in Nat
  BY WithoutIs
<1>3. e \in E /\ e[1] = key /\ p = Put(map, key, value)
  BY DEF Put
<1> HIDE DEF W, e
<1>4. all \in Seq(E) /\ Len(all) = Len(W) + 1 /\ all[1] = e
      /\ \A i \in 2..Len(all) : all[i] = W[i - 1]
  BY <1>2, <1>3
<1> HIDE DEF all
<1>5. n \in Nat /\ n <= Cap /\ n <= Len(all)
  BY <1>2, <1>4, CapAssumption
<1> HIDE DEF n
<1>6. p \in Seq(E) /\ Len(p) = n /\ \A i \in 1..n : p[i] = all[i]
  BY <1>4, <1>5
<1> HIDE DEF p
<1> DEFINE At(i) == IF i - 1 < skip THEN i - 1 ELSE i
<1>7. ASSUME NEW i \in 2..Len(p)
      PROVE  /\ At(i) \in 1..Len(map)
             /\ p[i] = map[At(i)] /\ map[At(i)][1] # key
  <2>1. p[i] = W[i - 1] /\ i - 1 \in 1..Len(W)
    BY <1>4, <1>5, <1>6
  <2>2. LET j == IF i - 1 < skip THEN i - 1 ELSE i - 1 + 1
        IN  j \in 1..Len(map) /\ W[i - 1] = map[j] /\ map[j][1] # key
    BY <1>1, <2>1 DEF Skips
  <2> QED BY <2>1, <2>2
<1>8. p[1] = e \/ Len(p) = 0
  BY <1>4, <1>5, <1>6
<1>9. Unique(p)
  <2> SUFFICES ASSUME NEW i \in 1..Len(p), NEW j \in 1..Len(p), p[i][1] = p[j][1] PROVE i = j
    BY DEF Unique
  <2>1. CASE i = 1 /\ j = 1
    BY <2>1
  <2>2. CASE i = 1 /\ j # 1
    <3>1. j \in 2..Len(p) /\ Len(p) # 0
      BY <1>6, <1>5, <2>2
    <3> QED BY <1>3, <1>7, <1>8, <2>2, <3>1
  <2>3. CASE i # 1 /\ j = 1
    <3>1. i \in 2..Len(p) /\ Len(p) # 0
      BY <1>6, <1>5, <2>3
    <3> QED BY <1>3, <1>7, <1>8, <2>3, <3>1
  <2>4. CASE i # 1 /\ j # 1
    <3>1. i \in 2..Len(p) /\ j \in 2..Len(p)
      BY <1>6, <1>5, <2>4
    <3>2. At(i) = At(j)
      BY <1>7, <3>1 DEF Unique
    <3> QED BY <3>1, <3>2
  <2> QED BY <2>1, <2>2, <2>3, <2>4
<1>10. ASSUME NEW i \in 1..Len(p)
       PROVE  p[i] = e \/ (p[i][1] # key /\ \E j \in 1..Len(map) : p[i] = map[j])
  <2>1. CASE i = 1
    BY <1>5, <1>6, <1>8, <2>1
  <2>2. CASE i \in 2..Len(p)
    BY <1>7, <2>2
  <2> QED BY <1>5, <1>6, <2>1, <2>2
<1>11. IsPut(p, map, key, value, E)
  BY <1>5, <1>6, <1>9, <1>10 DEF IsPut, e
<1> QED BY <1>3, <1>11

\* What a key is mapped to after a put.
LEMMA EntriesOfPut ==
    ASSUME NEW E, NEW map \in Seq(E), NEW key, NEW value, <<key, value>> \in E, Unique(map)
    PROVE  /\ Entries(Put(map, key, value), key) \subseteq {value}
           /\ \A k : k # key => Entries(Put(map, key, value), k) \subseteq Entries(map, k)
<1> DEFINE p == Put(map, key, value)
<1>0. p \in Seq(E) /\ \A i \in 1..Len(p) :
                          \/ p[i] = <<key, value>>
                          \/ p[i][1] # key /\ \E j \in 1..Len(map) : p[i] = map[j]
  <2>1. IsPut(p, map, key, value, E)
    BY PutIs
  <2> QED BY <2>1 DEF IsPut
<1> HIDE DEF p
<1>1. \A x \in ToSet(p) : x = <<key, value>> \/ (x[1] # key /\ x \in ToSet(map))
  BY <1>0 DEF ToSet
<1>2. Entries(p, key) \subseteq {value}
  BY <1>1 DEF Entries
<1>3. \A k : k # key => Entries(p, k) \subseteq Entries(map, k)
  BY <1>1 DEF Entries
<1> QED BY <1>2, <1>3 DEF p

----------------------------------------------------------------------------
(* The invariants *)

States == {"none", "sent", "storing", "answered", "saving", "ok", "err"}
Responses == [status : {0, 200, 400, 404}, body : {"none", "error", "register", "nonce"}]
CallRec ==
    [client : Clients \cup {None}, req : {None} \cup UNION {Requests(c) : c \in Clients},
     res : Responses, st : States]

\* The requests that a handler serves.
Routed(config, req) ==
    \/ req.version = 3 /\ req.op \in {"nonce", "register"}
    \/ req.version = 2 /\ req.op # "nonce" /\ config.legacy

\* The calls are records; one that is not over has a client and its request,
\* and one that was not made is none.
CallTypes ==
    /\ setup \in Setups
    /\ made \in 0..MaxCalls
    /\ call \in [Calls -> CallRec]
    /\ \A i \in Calls :
          /\ i > made => call[i].st = "none"
          /\ call[i].st \in {"sent", "storing", "answered", "saving"} =>
               call[i].client \in Clients /\ call[i].req \in Requests(call[i].client)

\* A call is answered with 200 by the handler of its route only, and only calls for a
\* nonce are stored and saved.
AnswerInv ==
    \A i \in Calls :
        /\ call[i].res.status = 200 =>
              /\ Routed(setup, call[i].req)
              /\ call[i].res.body = IF call[i].req.op = "nonce" THEN "nonce" ELSE "register"
        /\ call[i].res.body = "register" => call[i].res.status = 200
        /\ call[i].st = "storing" => Routed(setup, call[i].req) /\ call[i].req.op = "nonce"
        /\ call[i].st = "saving" => call[i].res.status = 200 /\ call[i].req.op = "nonce"

Keys == Clients \cup {setup.ip[c] : c \in Clients}

\* The maps of the server are caches.
CacheInv ==
    /\ sRecv \in Seq(Keys \X Calls) /\ Len(sRecv) <= Cap /\ Unique(sRecv)
    /\ sGen \in Seq(Keys \X Calls) /\ Len(sGen) <= Cap /\ Unique(sGen)

\* The call that is being stored holds the mutex of the server, and the second map is
\* one put behind; without it they agree.
ServerMaps ==
    /\ sLock \in Calls \cup {None}
    /\ \A i \in Calls : call[i].st = "storing" <=> sLock = i
    /\ sLock = None => sRecv = sGen
    /\ sLock # None => sRecv = Put(sGen, identifier(call[sLock].client), sLock)

\* The same for the maps of each client.
ClientMaps ==
    /\ cLock \in [Clients -> Calls \cup {None}]
    /\ cRecv \in [Clients -> Calls \cup {None}] /\ cGen \in [Clients -> Calls \cup {None}]
    /\ \A i \in Calls : call[i].st = "saving" => cLock[call[i].client] = i
    /\ \A c \in Clients :
          /\ cLock[c] = None => cRecv[c] = cGen[c]
          /\ cLock[c] # None =>
               /\ call[cLock[c]].st = "saving" /\ call[cLock[c]].client = c
               /\ cRecv[c] = cLock[c]

ListenerInv ==
    /\ listener \in [Families -> {"binding", "listening", "failed", "closed"}]
    /\ server \in {"running", "stopped", "ended"}
    /\ pooled \subseteq Clients

----------------------------------------------------------------------------
(* Steps of a call *)

\* What a step makes of call i; the others stay.
Changed(i, c, req, res, st) ==
    /\ call' \in [Calls -> CallRec]
    /\ call'[i].client = c /\ call'[i].req = req /\ call'[i].res = res /\ call'[i].st = st
    /\ \A j \in Calls \ {i} : call'[j] = call[j]

\* Become changes the state and the response.
LEMMA BecomeIs ==
    ASSUME call \in [Calls -> CallRec], NEW i \in Calls, NEW st \in States,
           NEW res \in Responses, Become(i, st, res)
    PROVE  Changed(i, call[i].client, call[i].req, res, st)
  BY DEF Become, Changed, CallRec

\* Over leaves the result.
LEMMA OverIs ==
    ASSUME call \in [Calls -> CallRec], NEW i \in Calls, NEW st \in States, Over(i, st)
    PROVE  Changed(i, None, None, NoResponse, st)
  BY DEF Over, Changed, CallRec, NoCall, NoResponse, Response, Responses

\* The steps, by what they do to a call.
Requested(c) ==
    /\ made' = made + 1 /\ made + 1 \in Calls
    /\ InFlight(c) # {} => setup.overlap
    /\ \/ Changed(made + 1, None, None, NoResponse, "err")
       \/ \E r \in Requests(c) : Changed(made + 1, c, r, NoResponse, "sent")
    /\ pooled' \subseteq pooled \cup {c}
    /\ UNCHANGED <<setup, lifecycle, cRecv, cGen, cLock, maps>>

Answered(i) ==
    /\ call[i].st = "sent"
    /\ \E res \in Responses :
          /\ Changed(i, call[i].client, call[i].req, res, "answered")
          /\ res.status = 200 \/ res.body = "register" =>
               /\ Routed(setup, call[i].req) /\ call[i].req.op # "nonce"
               /\ res = Response(200, "register")
    /\ UNCHANGED <<setup, lifecycle, made, client, maps>>

Stored(i) ==
    /\ call[i].st = "sent" /\ Routed(setup, call[i].req) /\ call[i].req.op = "nonce"
    /\ sLock = None /\ sLock' = i
    /\ sRecv' = Put(sRecv, identifier(call[i].client), i)
    /\ Changed(i, call[i].client, call[i].req, NoResponse, "storing")
    /\ UNCHANGED <<setup, lifecycle, made, client, sGen>>

Generated(i) ==
    /\ call[i].st = "storing"
    /\ sGen' = Put(sGen, identifier(call[i].client), i) /\ sLock' = None
    /\ Changed(i, call[i].client, call[i].req, Response(200, "nonce"), "answered")
    /\ UNCHANGED <<setup, lifecycle, made, client, sRecv>>

Ended(i) ==
    /\ \/ setup.lossy /\ call[i].st \in {"sent", "answered"}
       \/ call[i].st = "answered" /\ ~SavesNonce(i)
    /\ Changed(i, None, None, NoResponse, "err") \/ Changed(i, None, None, NoResponse, "ok")
    /\ UNCHANGED <<setup, lifecycle, made, client, maps>>

Saving(i) ==
    LET c == call[i].client
    IN  /\ call[i].st = "answered" /\ SavesNonce(i)
        /\ cLock[c] = None
        /\ cLock' = [cLock EXCEPT ![c] = i] /\ cRecv' = [cRecv EXCEPT ![c] = i]
        /\ Changed(i, c, call[i].req, call[i].res, "saving")
        /\ UNCHANGED <<setup, lifecycle, made, pooled, cGen, maps>>

Saved(i) ==
    LET c == call[i].client
    IN  /\ call[i].st = "saving"
        /\ cGen' = [cGen EXCEPT ![c] = i] /\ cLock' = [cLock EXCEPT ![c] = None]
        /\ Changed(i, None, None, NoResponse, "ok")
        /\ UNCHANGED <<setup, lifecycle, made, pooled, cRecv, maps>>

CallStep(i) ==
    i <= made /\ (Answered(i) \/ Stored(i) \/ Generated(i) \/ Ended(i) \/ Saving(i) \/ Saved(i))

\* Request adds a call that was sent or failed.
LEMMA RequestIs ==
    ASSUME CallTypes, NEW c \in Clients, Request(c)
    PROVE  Requested(c)
<1> USE DEF Requested
<1>1. made \in Nat /\ made + 1 \in Calls /\ call \in [Calls -> CallRec]
  BY CapAssumption DEF CallTypes, Request, Calls
<1>2. PICK r \in Requests(c), ok \in Connects(c) :
          /\ call' = [call EXCEPT ![made + 1] =
                         IF ok THEN [client |-> c, req |-> r, res |-> NoResponse, st |-> "sent"]
                               ELSE [NoCall EXCEPT !.st = "err"]]
          /\ pooled' = IF ok THEN pooled \cup {c} ELSE pooled
  BY DEF Request
<1>3. CASE ok
  <2>1. [client |-> c, req |-> r, res |-> NoResponse, st |-> "sent"] \in CallRec
    BY DEF CallRec, Responses, Response, NoResponse, BadRequest, States
  <2>2. Changed(made + 1, c, r, NoResponse, "sent")
    BY <1>1, <1>2, <1>3, <2>1 DEF Changed
  <2> QED BY <1>1, <1>2, <1>3, <2>2 DEF Request
<1>4. CASE ~ok
  <2>1. Changed(made + 1, None, None, NoResponse, "err")
    BY <1>1, <1>2, <1>4 DEF Changed, CallRec, NoCall, Responses, Response, NoResponse, BadRequest, States
  <2> QED BY <1>1, <1>2, <1>4, <2>1 DEF Request
<1> QED BY <1>3, <1>4

\* A handler serves a request iff there is a route.
LEMMA HandlerRoutes ==
    ASSUME NEW r
    PROVE  /\ Handler(r) \in {"nonce", "register"} => Routed(setup, r)
           /\ Routed(setup, r) => Handler(r) # "notFound"
           /\ Handler(r) = "nonce" => r.op = "nonce"
           /\ Handler(r) = "register" => r.op # "nonce"
  BY Zenon DEF Handler, Routed

\* Every step of a call is one of these.
LEMMA CallSteps ==
    ASSUME CallTypes, NEW i \in Calls, Serve(i) \/ ConnectionBreaks(i) \/ Finish(i)
    PROVE  CallStep(i)
<1>0. call \in [Calls -> CallRec]
  BY DEF CallTypes
<1>1. CASE NotFound(i)
  <2> DEFINE b == IF call[i].req.version = 2 THEN "error" ELSE "none"
  <2>1. i <= made /\ call[i].st = "sent" /\ Changed(i, call[i].client, call[i].req, Response(404, b), "answered")
    BY <1>0, <1>1, BecomeIs DEF NotFound, Handled, Is, Responses, Response, NoResponse, BadRequest, States
  <2>2. Response(404, b) \in Responses /\ Response(404, b).status # 200
        /\ Response(404, b).body # "register"
    BY DEF Response, Responses
  <2> QED BY <1>1, <2>1, <2>2 DEF NotFound, Answered, CallStep
<1>2. CASE register(i)
  <2>1. i <= made /\ call[i].st = "sent" /\ Routed(setup, call[i].req) /\ call[i].req.op # "nonce"
    BY <1>2, HandlerRoutes DEF register, Handled, Is
  <2>2. \/ Changed(i, call[i].client, call[i].req, Response(200, "register"), "answered")
        \/ Changed(i, call[i].client, call[i].req, BadRequest, "answered")
    BY <1>0, <1>2, BecomeIs DEF register, Responses, Response, NoResponse, BadRequest, States
  <2>3. /\ Response(200, "register") \in Responses /\ BadRequest \in Responses
        /\ BadRequest.status # 200 /\ BadRequest.body # "register"
    BY DEF Response, Responses, BadRequest
  <2> QED BY <1>2, <2>1, <2>2, <2>3 DEF register, Answered, CallStep
<1>3. CASE RejectNonce(i)
  <2>1. i <= made /\ call[i].st = "sent" /\ Changed(i, call[i].client, call[i].req, BadRequest, "answered")
    BY <1>0, <1>3, BecomeIs DEF RejectNonce, Handled, Is, Responses, Response, NoResponse, BadRequest, States
  <2>2. BadRequest \in Responses /\ BadRequest.status # 200 /\ BadRequest.body # "register"
    BY DEF Response, Responses, BadRequest
  <2> QED BY <1>3, <2>1, <2>2 DEF RejectNonce, Answered, CallStep
<1>4. CASE StoreNonce(i)
  <2>1. i <= made /\ call[i].st = "sent" /\ Routed(setup, call[i].req) /\ call[i].req.op = "nonce"
    BY <1>4, HandlerRoutes DEF StoreNonce, Handled, Is
  <2>2. Changed(i, call[i].client, call[i].req, NoResponse, "storing")
    BY <1>0, <1>4, BecomeIs DEF StoreNonce, Responses, Response, NoResponse, BadRequest, States
  <2> QED BY <1>4, <2>1, <2>2 DEF StoreNonce, Stored, CallStep
<1>5. CASE GenerateNonce(i)
  <2>1. i <= made /\ call[i].st = "storing" /\ Changed(i, call[i].client, call[i].req, Response(200, "nonce"), "answered")
    BY <1>0, <1>5, BecomeIs DEF GenerateNonce, Is, Responses, Response, NoResponse, BadRequest, States
  <2> QED BY <1>5, <2>1 DEF GenerateNonce, Generated, CallStep
<1>6. CASE ConnectionBreaks(i)
  <2>1. i <= made /\ call[i].st \in {"sent", "answered"} /\ Changed(i, None, None, NoResponse, "err")
    BY <1>0, <1>6, OverIs DEF ConnectionBreaks, Is, States
  <2> QED BY <1>6, <2>1 DEF ConnectionBreaks, Ended, CallStep
<1>7. CASE Return(i)
  <2>1. Over(i, "ok") \/ Over(i, "err")
    BY <1>7 DEF Return
  <2>2. Changed(i, None, None, NoResponse, "err") \/ Changed(i, None, None, NoResponse, "ok")
    BY <1>0, <2>1, OverIs DEF States
  <2> QED BY <1>7, <2>2 DEF Return, Is, Ended, CallStep
<1>8. CASE SaveReceived(i)
  <2>1. call[i].res \in Responses
    BY <1>0 DEF CallRec
  <2>2. Changed(i, call[i].client, call[i].req, call[i].res, "saving")
    BY <1>0, <1>8, <2>1, BecomeIs DEF SaveReceived, States
  <2> QED BY <1>8, <2>2 DEF SaveReceived, Is, Saving, CallStep
<1>9. CASE SaveGenerated(i)
  <2>1. Changed(i, None, None, NoResponse, "ok")
    BY <1>0, <1>9, OverIs DEF SaveGenerated, States
  <2> QED BY <1>9, <2>1 DEF SaveGenerated, Is, Saved, CallStep
<1> QED BY <1>1, <1>2, <1>3, <1>4, <1>5, <1>6, <1>7, <1>8, <1>9 DEF Serve, Finish

\* Every step is one of these, or one of the listeners, or none.
LEMMA Steps ==
    ASSUME CallTypes, [Next]_vars
    PROVE  \/ UNCHANGED <<setup, call, made, client, maps>>
           \/ \E c \in Clients : Requested(c)
           \/ \E i \in Calls : CallStep(i)
<1>1. CASE Stop \/ \E v \in Families : Bind(v) \/ ListenerFails(v)
  BY <1>1 DEF Stop, Bind, ListenerFails
<1>2. CASE \E c \in Clients : Request(c)
  BY <1>2, RequestIs
<1>3. CASE \E i \in Calls : Serve(i) \/ ConnectionBreaks(i) \/ Finish(i)
  BY <1>3, CallSteps
<1>4. CASE UNCHANGED vars
  BY <1>4 DEF vars
<1> QED BY <1>1, <1>2, <1>3, <1>4 DEF Next

\* setup never changes.
LEMMA SetupFixed == ASSUME CallTypes, [Next]_vars PROVE setup' = setup
  BY Steps DEF Requested, CallStep, Answered, Stored, Generated, Ended, Saving, Saved

\* Every step keeps the types of the calls.
LEMMA CallTypesStep == CallTypes /\ [Next]_vars => CallTypes'
<1> SUFFICES ASSUME CallTypes, [Next]_vars PROVE CallTypes'
  OBVIOUS
<1>1. CASE UNCHANGED <<setup, call, made, client, maps>>
  BY <1>1 DEF CallTypes
<1>2. ASSUME NEW c \in Clients, Requested(c) PROVE CallTypes'
  BY <1>2, CapAssumption DEF CallTypes, Requested, Changed, Calls
<1>3. ASSUME NEW i \in Calls, CallStep(i) PROVE CallTypes'
  <2>1. /\ i <= made /\ made' = made /\ setup' = setup /\ call' \in [Calls -> CallRec]
        /\ \A j \in Calls \ {i} : call'[j] = call[j]
        /\ \/ call'[i].st \in {"ok", "err"}
           \/ /\ call[i].st \in {"sent", "storing", "answered", "saving"}
              /\ call'[i].client = call[i].client /\ call'[i].req = call[i].req
    BY <1>3 DEF CallStep, Answered, Stored, Generated, Ended, Saving, Saved, Changed
  <2> QED BY <2>1 DEF CallTypes, Calls
<1> QED BY <1>1, <1>2, <1>3, Steps

\* Every step keeps what is known of answers.
LEMMA AnswerStep == CallTypes /\ AnswerInv /\ [Next]_vars => AnswerInv'
<1> SUFFICES ASSUME CallTypes, AnswerInv, [Next]_vars PROVE AnswerInv'
  OBVIOUS
<1>0. setup' = setup
  BY SetupFixed
<1>1. CASE UNCHANGED <<setup, call, made, client, maps>>
  BY <1>1 DEF AnswerInv
<1>2. ASSUME NEW c \in Clients, Requested(c) PROVE AnswerInv'
  BY <1>2 DEF AnswerInv, Requested, Changed, NoResponse, Response
<1>3. ASSUME NEW i \in Calls, CallStep(i) PROVE AnswerInv'
  <2>1. CASE Answered(i)
    BY <1>0, <2>1 DEF Answered, Changed, AnswerInv, Response
  <2>2. CASE Stored(i) \/ Generated(i)
    BY <1>0, <2>2 DEF Stored, Generated, Changed, AnswerInv, NoResponse, Response
  <2>3. CASE Ended(i) \/ Saved(i)
    BY <1>0, <2>3 DEF Ended, Saved, Changed, AnswerInv, NoResponse, Response
  <2>4. CASE Saving(i)
    BY <1>0, <2>4 DEF Saving, SavesNonce, StatusOk, Parses, Changed, AnswerInv
  <2> QED BY <1>3, <2>1, <2>2, <2>3, <2>4 DEF CallStep
<1> QED BY <1>1, <1>2, <1>3, Steps

----------------------------------------------------------------------------
(* The maps *)

\* The server knows a client by one of the keys.
LEMMA KeyOfCall ==
    ASSUME CallTypes, NEW i \in Calls, call[i].st \in {"sent", "storing", "answered", "saving"}
    PROVE  <<identifier(call[i].client), i>> \in Keys \X Calls
  BY DEF CallTypes, identifier, Keys

\* Every step keeps the maps of the server caches.
LEMMA CacheStep == CallTypes /\ CacheInv /\ [Next]_vars => CacheInv'
<1> SUFFICES ASSUME CallTypes, CacheInv, [Next]_vars PROVE CacheInv'
  OBVIOUS
<1>0. Keys' = Keys
  BY SetupFixed DEF Keys
<1>1. CASE UNCHANGED <<sRecv, sGen>>
  BY <1>0, <1>1 DEF CacheInv, Unique
<1>2. ASSUME NEW i \in Calls, Stored(i) PROVE CacheInv'
  <2>1. <<identifier(call[i].client), i>> \in Keys \X Calls
    BY <1>2, KeyOfCall DEF Stored
  <2>2. sRecv' \in Seq(Keys \X Calls) /\ Len(sRecv') <= Cap /\ Unique(sRecv')
    <3>1. sRecv' = Put(sRecv, identifier(call[i].client), i)
      BY <1>2 DEF Stored
    <3>2. IsPut(sRecv', sRecv, identifier(call[i].client), i, Keys \X Calls)
      BY <2>1, <3>1, PutIs DEF CacheInv
    <3> QED BY <3>2 DEF IsPut
  <2> QED BY <1>0, <1>2, <2>2 DEF CacheInv, Stored, Unique
<1>3. ASSUME NEW i \in Calls, Generated(i) PROVE CacheInv'
  <2>1. <<identifier(call[i].client), i>> \in Keys \X Calls
    BY <1>3, KeyOfCall DEF Generated
  <2>2. sGen' \in Seq(Keys \X Calls) /\ Len(sGen') <= Cap /\ Unique(sGen')
    <3>1. sGen' = Put(sGen, identifier(call[i].client), i)
      BY <1>3 DEF Generated
    <3>2. IsPut(sGen', sGen, identifier(call[i].client), i, Keys \X Calls)
      BY <2>1, <3>1, PutIs DEF CacheInv
    <3> QED BY <3>2 DEF IsPut
  <2> QED BY <1>0, <1>3, <2>2 DEF CacheInv, Generated, Unique
<1>4. ASSUME NEW c \in Clients, Requested(c) PROVE CacheInv'
  BY <1>1, <1>4 DEF Requested, maps
<1>5. ASSUME NEW i \in Calls, Answered(i) \/ Ended(i) \/ Saving(i) \/ Saved(i) PROVE CacheInv'
  BY <1>1, <1>5 DEF Answered, Ended, Saving, Saved, maps
<1> QED BY <1>1, <1>2, <1>3, <1>4, <1>5, Steps DEF CallStep, maps

\* Every step keeps the two maps of the server in step.
LEMMA ServerMapsStep == CallTypes /\ ServerMaps /\ [Next]_vars => ServerMaps'
<1> SUFFICES ASSUME CallTypes, ServerMaps, [Next]_vars PROVE ServerMaps'
  OBVIOUS
<1>0. \A c : identifier(c)' = identifier(c)
  BY SetupFixed DEF identifier
<1>1. ASSUME UNCHANGED <<setup, maps>>, NEW i \in Calls,
             \A j \in Calls \ {i} : call'[j] = call[j],
             call[i].st # "storing", call'[i].st # "storing"
      PROVE  ServerMaps'
  <2>1. sLock # i
    BY <1>1 DEF ServerMaps
  <2>2. sLock # None => call'[sLock] = call[sLock]
    BY <1>1, <2>1 DEF ServerMaps
  <2> QED BY <1>1, <2>1, <2>2 DEF ServerMaps, maps, identifier
<1>2. CASE UNCHANGED <<setup, call, made, client, maps>>
  BY <1>2 DEF ServerMaps, maps, identifier
<1>3. ASSUME NEW c \in Clients, Requested(c) PROVE ServerMaps'
  <2>1. made + 1 \in Calls /\ call[made + 1].st = "none"
    BY <1>3 DEF CallTypes, Requested
  <2> QED BY <1>1, <1>3, <2>1 DEF Requested, Changed
<1>4. ASSUME NEW i \in Calls, Answered(i) \/ Ended(i) PROVE ServerMaps'
  BY <1>1, <1>4 DEF Answered, Ended, Changed
<1>5. ASSUME NEW i \in Calls, Saving(i) \/ Saved(i) PROVE ServerMaps'
  BY <1>1, <1>5 DEF Saving, Saved, Changed
<1>6. ASSUME NEW i \in Calls, Stored(i) PROVE ServerMaps'
  <2>1. i # None
    BY ForeignAssumption
  <2>2. sRecv' = Put(sGen, identifier(call[i].client), i)
    BY <1>6 DEF Stored, ServerMaps
  <2>3. identifier(call[sLock].client)' = identifier(call[i].client)
    BY <1>6 DEF Stored, Changed, identifier
  <2>4. \A j \in Calls : call'[j].st = "storing" <=> sLock' = j
    BY <1>6, ForeignAssumption DEF Stored, Changed, ServerMaps
  <2> QED BY <1>6, <2>1, <2>2, <2>3, <2>4 DEF Stored, ServerMaps
<1>7. ASSUME NEW i \in Calls, Generated(i) PROVE ServerMaps'
  <2>1. i # None /\ sLock = i
    BY <1>7, ForeignAssumption DEF Generated, ServerMaps
  <2> QED BY <1>7, <2>1, ForeignAssumption DEF Generated, Changed, ServerMaps
<1> QED BY <1>2, <1>3, <1>4, <1>5, <1>6, <1>7, Steps DEF CallStep

\* Every step keeps the two maps of a client in step.
LEMMA ClientMapsStep == CallTypes /\ ClientMaps /\ [Next]_vars => ClientMaps'
<1> SUFFICES ASSUME CallTypes, ClientMaps, [Next]_vars PROVE ClientMaps'
  OBVIOUS
<1>0. None \notin Calls
  BY ForeignAssumption
<1>1. ASSUME UNCHANGED <<cRecv, cGen, cLock>>, NEW i \in Calls,
             \A j \in Calls \ {i} : call'[j] = call[j],
             call[i].st # "saving", call'[i].st # "saving"
      PROVE  ClientMaps'
  <2>1. \A c \in Clients : cLock[c] # i
    BY <1>0, <1>1 DEF ClientMaps
  <2>2. \A c \in Clients : cLock[c] # None => call'[cLock[c]] = call[cLock[c]]
    BY <1>1, <2>1 DEF ClientMaps
  <2> QED BY <1>1, <2>1, <2>2 DEF ClientMaps
<1>2. CASE UNCHANGED <<setup, call, made, client, maps>>
  BY <1>2 DEF ClientMaps, client
<1>3. ASSUME NEW c \in Clients, Requested(c) PROVE ClientMaps'
  <2>1. made + 1 \in Calls /\ call[made + 1].st = "none"
    BY <1>3 DEF CallTypes, Requested
  <2> QED BY <1>1, <1>3, <2>1 DEF Requested, Changed
<1>4. ASSUME NEW i \in Calls, Answered(i) \/ Ended(i) PROVE ClientMaps'
  BY <1>1, <1>4 DEF Answered, Ended, Changed, client
<1>5. ASSUME NEW i \in Calls, Stored(i) \/ Generated(i) PROVE ClientMaps'
  BY <1>1, <1>5 DEF Stored, Generated, Changed, client
<1>6. ASSUME NEW i \in Calls, Saving(i) PROVE ClientMaps'
  <2> DEFINE c == call[i].client
  <2>1. /\ c \in Clients /\ cLock[c] = None /\ cGen' = cGen
        /\ cLock' = [cLock EXCEPT ![c] = i] /\ cRecv' = [cRecv EXCEPT ![c] = i]
        /\ call'[i].client = c /\ call'[i].st = "saving" /\ call[i].st = "answered"
        /\ \A j \in Calls \ {i} : call'[j] = call[j]
    BY <1>6 DEF Saving, Changed, CallTypes
  <2>2. \A j \in Calls \ {i} : call[j].st = "saving" => call[j].client # c /\ call[j].client \in Clients
    BY <1>0, <2>1 DEF ClientMaps, CallTypes
  <2> HIDE DEF c
  <2>3. ASSUME NEW j \in Calls, call'[j].st = "saving" PROVE cLock'[call'[j].client] = j
    BY <2>1, <2>2, <2>3 DEF ClientMaps
  <2>4. ASSUME NEW d \in Clients
        PROVE  /\ cLock'[d] = None => cRecv'[d] = cGen'[d]
               /\ cLock'[d] # None =>
                    /\ call'[cLock'[d]].st = "saving" /\ call'[cLock'[d]].client = d
                    /\ cRecv'[d] = cLock'[d]
    BY <1>0, <2>1 DEF ClientMaps
  <2> QED BY <2>1, <2>3, <2>4 DEF ClientMaps
<1>7. ASSUME NEW i \in Calls, Saved(i) PROVE ClientMaps'
  <2> DEFINE c == call[i].client
  <2>1. /\ c \in Clients /\ cLock[c] = i /\ cRecv[c] = i /\ cRecv' = cRecv
        /\ cLock' = [cLock EXCEPT ![c] = None] /\ cGen' = [cGen EXCEPT ![c] = i]
        /\ call'[i].st = "ok"
        /\ \A j \in Calls \ {i} : call'[j] = call[j]
    BY <1>0, <1>7 DEF Saved, Changed, CallTypes, ClientMaps
  <2>2. \A j \in Calls \ {i} : call[j].st = "saving" => call[j].client # c /\ call[j].client \in Clients
    BY <1>0, <2>1 DEF ClientMaps, CallTypes
  <2> HIDE DEF c
  <2>3. ASSUME NEW j \in Calls, call'[j].st = "saving" PROVE cLock'[call'[j].client] = j
    BY <2>1, <2>2, <2>3 DEF ClientMaps
  <2>4. ASSUME NEW d \in Clients
        PROVE  /\ cLock'[d] = None => cRecv'[d] = cGen'[d]
               /\ cLock'[d] # None =>
                    /\ call'[cLock'[d]].st = "saving" /\ call'[cLock'[d]].client = d
                    /\ cRecv'[d] = cLock'[d]
    BY <1>0, <2>1 DEF ClientMaps
  <2> QED BY <2>1, <2>3, <2>4 DEF ClientMaps
<1> QED BY <1>2, <1>3, <1>4, <1>5, <1>6, <1>7, Steps DEF CallStep

\* Every step keeps an ended server without an IPv4 listener.
LEMMA ListenerStep == CallTypes /\ ListenerInv /\ [Next]_vars => ListenerInv'
<1> SUFFICES ASSUME CallTypes, ListenerInv, [Next]_vars PROVE ListenerInv'
  OBVIOUS
<1>1. ASSUME NEW v \in Families, Bind(v) PROVE ListenerInv'
  BY <1>1 DEF Bind, ListenerInv, Families, client
<1>2. ASSUME NEW v \in Families, ListenerFails(v) PROVE ListenerInv'
  BY <1>2 DEF ListenerFails, EndsServer, ListenerInv, Families, client
<1>3. CASE Stop
  BY <1>3 DEF Stop, ListenerInv, Families, client
<1>4. CASE \E c \in Clients : Request(c)
  BY <1>4, RequestIs DEF Requested, ListenerInv, lifecycle
<1>5. CASE UNCHANGED <<lifecycle, pooled>>
  BY <1>5 DEF ListenerInv, lifecycle
<1>6. ASSUME NEW i \in Calls, CallStep(i) PROVE ListenerInv'
  BY <1>5, <1>6 DEF CallStep, Answered, Stored, Generated, Ended, Saving, Saved, client
<1> QED BY <1>1, <1>2, <1>3, <1>4, <1>5, <1>6, CallSteps DEF Next, vars, client

----------------------------------------------------------------------------
(* The exchange *)

\* c is the only one the server knows by its key, and nothing gets lost or refused.
Undisturbed(c) ==
    /\ ~setup.lossy /\ ~setup.overlap /\ setup.expired = {}
    /\ \A d \in Clients \ {c} : setup.tls \/ setup.ip[c] # setup.ip[d]

Flies(i, c) ==
    call[i].client = c /\ call[i].st \in {"sent", "storing", "answered", "saving"}

\* The server has stored the nonce of call i, which c has not saved yet.
Exchanging(i, c) ==
    /\ call[i].client = c
    /\ \/ call[i].st \in {"storing", "saving"}
       \/ call[i].st = "answered" /\ call[i].res.status = 200 /\ call[i].req.op = "nonce"

\* A client has one call in flight; the server knows the nonce of that call once it
\* has stored it, and else the one that the client has saved last.
SyncOf(c) ==
    /\ \A i, j \in Calls : Flies(i, c) /\ Flies(j, c) => i = j
    /\ \A i \in Calls : Exchanging(i, c) => Entries(sRecv, identifier(c)) \subseteq {i}
    /\ (\A i \in Calls : ~Exchanging(i, c)) => Entries(sRecv, identifier(c)) \subseteq {cGen[c]}

SyncInv == \A c \in Clients \ Foreign : Undisturbed(c) => SyncOf(c)

\* A step that changes call i only keeps SyncOf when i does not begin or end an exchange.
LEMMA SyncKept ==
    ASSUME NEW c \in Clients, SyncOf(c), NEW i \in Calls,
           setup' = setup, cGen'[c] = cGen[c],
           Entries(sRecv', identifier(c)) \subseteq Entries(sRecv, identifier(c)),
           \A j \in Calls \ {i} : call'[j] = call[j],
           Flies(i, c)' => Flies(i, c), Exchanging(i, c)' <=> Exchanging(i, c)
    PROVE  SyncOf(c)'
<1>1. identifier(c)' = identifier(c)
  BY DEF identifier
<1>2. \A j \in Calls \ {i} : (Flies(j, c)' <=> Flies(j, c)) /\ (Exchanging(j, c)' <=> Exchanging(j, c))
  BY DEF Flies, Exchanging
<1>3. Entries(sRecv, identifier(c))' \subseteq Entries(sRecv, identifier(c))
  BY <1>1 DEF Entries
<1> QED BY <1>2, <1>3 DEF SyncOf

\* Every step keeps an undisturbed client in step with the server.
LEMMA SyncStep ==
    CallTypes /\ AnswerInv /\ CacheInv /\ ClientMaps /\ SyncInv /\ [Next]_vars => SyncInv'
<1> SUFFICES ASSUME CallTypes, AnswerInv, CacheInv, ClientMaps, SyncInv, [Next]_vars,
                    NEW c \in Clients \ Foreign, Undisturbed(c)
             PROVE  SyncOf(c)'
  BY SetupFixed DEF SyncInv, Undisturbed
<1>1. SyncOf(c) /\ setup' = setup /\ c # None
  BY SetupFixed, ForeignAssumption DEF SyncInv
<1>2. \A i \in Calls : Exchanging(i, c) => Flies(i, c)
  BY DEF Exchanging, Flies
<1>3. CASE UNCHANGED <<setup, call, made, client, maps>>
  BY <1>1, <1>3 DEF SyncOf, Flies, Exchanging, Entries, identifier, client, maps
<1>4. ASSUME NEW d \in Clients, Requested(d) PROVE SyncOf(c)'
  <2>0. PICK i \in Calls : i = made + 1
    BY <1>4 DEF Requested
  <2>1. call[i].st = "none" /\ \A j \in Calls \ {i} : call'[j] = call[j]
    BY <1>4, <2>0 DEF CallTypes, Requested, Changed
  <2>2. UNCHANGED <<cGen, sRecv>>
    BY <1>4 DEF Requested, maps
  <2>3. ~Exchanging(i, c) /\ ~Exchanging(i, c)' /\ ~Flies(i, c)
    BY <1>4, <2>0, <2>1 DEF Requested, Changed, Exchanging, Flies
  <2>4. CASE c = d
    <3>1. \A j \in Calls : ~Flies(j, c)
      <4>1. InFlight(c) = {}
        BY <1>4, <2>4 DEF Requested, Undisturbed
      <4> QED BY <4>1 DEF InFlight, Flies, CallTypes, Calls
    <3>2. \A j \in Calls \ {i} : ~Flies(j, c)' /\ ~Exchanging(j, c) /\ ~Exchanging(j, c)'
      BY <2>1, <3>1 DEF Flies, Exchanging
    <3>3. Entries(sRecv, identifier(c))' = Entries(sRecv, identifier(c)) /\ cGen'[c] = cGen[c]
      BY <1>1, <2>2 DEF Entries, identifier
    <3> QED BY <1>1, <2>1, <2>3, <3>2, <3>3 DEF SyncOf
  <2>5. CASE c # d
    <3>1. ~Flies(i, c)'
      BY <1>1, <1>4, <2>0, <2>5 DEF Requested, Changed, Flies
    <3>2. Entries(sRecv', identifier(c)) = Entries(sRecv, identifier(c))
      BY <2>2
    <3> QED BY <1>1, <2>1, <2>2, <2>3, <3>1, <3>2, SyncKept
  <2> QED BY <2>4, <2>5
<1>5. ASSUME NEW i \in Calls, Answered(i) \/ Generated(i) \/ Ended(i) \/ Saving(i) PROVE SyncOf(c)'
  <2>1. UNCHANGED <<cGen, sRecv>> /\ \A j \in Calls \ {i} : call'[j] = call[j]
    BY <1>5 DEF Answered, Generated, Ended, Saving, Changed, client, maps
  <2>2. Flies(i, c)' => Flies(i, c)
    BY <1>1, <1>5 DEF Answered, Generated, Ended, Saving, Changed, Flies
  <2>3. Exchanging(i, c)' <=> Exchanging(i, c)
    <3>1. CASE Answered(i)
      BY <3>1 DEF Answered, Changed, Exchanging
    <3>2. CASE Generated(i)
      BY <3>2 DEF Generated, Changed, Exchanging, AnswerInv, Response
    <3>3. CASE Ended(i)
      <4>1. call[i].st = "answered" /\ ~SavesNonce(i)
        BY <3>3 DEF Ended, Undisturbed
      <4>2. ~Exchanging(i, c)
        BY <4>1 DEF Exchanging, SavesNonce, Own, StatusOk, Parses, AnswerInv, CertOk, verify_cert,
           Undisturbed
      <4>3. ~Exchanging(i, c)'
        BY <1>1, <3>3 DEF Ended, Changed, Exchanging
      <4> QED BY <4>2, <4>3
    <3>4. CASE Saving(i)
      BY <3>4 DEF Saving, SavesNonce, StatusOk, Parses, Changed, Exchanging
    <3> QED BY <1>5, <3>1, <3>2, <3>3, <3>4
  <2> QED BY <1>1, <2>1, <2>2, <2>3, SyncKept
<1>6. ASSUME NEW i \in Calls, Stored(i) PROVE SyncOf(c)'
  <2> DEFINE d == call[i].client
  <2>1. d \in Clients /\ <<identifier(d), i>> \in Keys \X Calls
    BY <1>6, KeyOfCall DEF Stored, CallTypes
  <2>2. /\ Entries(sRecv', identifier(d)) \subseteq {i}
        /\ \A k : k # identifier(d) => Entries(sRecv', k) \subseteq Entries(sRecv, k)
    BY <1>6, <2>1, EntriesOfPut DEF Stored, CacheInv
  <2>3. \A j \in Calls \ {i} : call'[j] = call[j]
    BY <1>6 DEF Stored, Changed
  <2>4. CASE c = d
    <3>1. Flies(i, c) /\ Exchanging(i, c)'
      BY <1>6, <2>4 DEF Stored, Changed, Flies, Exchanging
    <3>2. \A j \in Calls \ {i} : ~Flies(j, c) /\ ~Exchanging(j, c)
      BY <1>1, <1>2, <3>1 DEF SyncOf
    <3>3. \A j \in Calls \ {i} : ~Flies(j, c)' /\ ~Exchanging(j, c)'
      BY <2>3, <3>2 DEF Flies, Exchanging
    <3>4. Entries(sRecv, identifier(c))' \subseteq {i}
      BY <1>1, <2>2, <2>4 DEF Entries, identifier
    <3> QED BY <3>1, <3>3, <3>4 DEF SyncOf
  <2>5. CASE c # d
    <3>1. identifier(c) # identifier(d)
      BY <2>1, <2>5 DEF identifier, Undisturbed
    <3>2. ~Flies(i, c)' /\ ~Exchanging(i, c)' /\ ~Exchanging(i, c)
      BY <1>6, <2>5 DEF Stored, Changed, Flies, Exchanging
    <3>3. UNCHANGED cGen
      BY <1>6 DEF Stored, client
    <3> QED BY <1>1, <2>2, <2>3, <3>1, <3>2, <3>3, SyncKept
  <2> QED BY <2>4, <2>5
<1>7. ASSUME NEW i \in Calls, Saved(i) PROVE SyncOf(c)'
  <2> DEFINE d == call[i].client
  <2>1. /\ d \in Clients /\ cGen' = [cGen EXCEPT ![d] = i] /\ UNCHANGED sRecv
        /\ \A j \in Calls \ {i} : call'[j] = call[j]
    BY <1>7 DEF Saved, Changed, CallTypes, maps
  <2>2. ~Flies(i, c)' /\ ~Exchanging(i, c)'
    BY <1>7 DEF Saved, Changed, Flies, Exchanging
  <2>3. CASE c = d
    <3>1. Flies(i, c) /\ Exchanging(i, c)
      BY <1>7, <2>3 DEF Saved, Flies, Exchanging
    <3>2. \A j \in Calls \ {i} : ~Flies(j, c)
      BY <1>1, <3>1 DEF SyncOf
    <3>3. \A j \in Calls : ~Flies(j, c)' /\ ~Exchanging(j, c)'
      BY <2>1, <2>2, <3>2 DEF Flies, Exchanging
    <3>4. cGen'[c] = i
      BY <2>1, <2>3 DEF ClientMaps
    <3>5. Entries(sRecv, identifier(c))' \subseteq {cGen'[c]}
      BY <1>1, <2>1, <3>1, <3>4 DEF SyncOf, Entries, identifier
    <3> QED BY <3>3, <3>5 DEF SyncOf
  <2>4. CASE c # d
    <3>1. ~Exchanging(i, c) /\ cGen'[c] = cGen[c]
      BY <2>1, <2>4 DEF Exchanging, ClientMaps
    <3>2. Entries(sRecv', identifier(c)) = Entries(sRecv, identifier(c))
      BY <2>1
    <3> QED BY <1>1, <2>1, <2>2, <3>1, <3>2, SyncKept
  <2> QED BY <2>3, <2>4
<1> QED BY <1>3, <1>4, <1>5, <1>6, <1>7, Steps DEF CallStep

----------------------------------------------------------------------------
(* The theorems *)

AllInv ==
    CallTypes /\ AnswerInv /\ CacheInv /\ ServerMaps /\ ClientMaps /\ ListenerInv /\ SyncInv

\* The invariants hold when the server starts.
LEMMA InitAll == Init => AllInv
<1> SUFFICES ASSUME Init PROVE AllInv
  OBVIOUS
<1>1. NoCall \in CallRec
  BY DEF NoCall, CallRec, Responses, Response, NoResponse, BadRequest, States
<1>2. \A i \in Calls : call[i] = NoCall
  BY DEF Init
<1>3. CallTypes
  BY <1>1, <1>2, CapAssumption DEF Init, CallTypes, NoCall
<1>4. AnswerInv
  BY <1>2 DEF AnswerInv, NoCall, NoResponse, Response
<1>5. CacheInv
  BY CapAssumption DEF Init, CacheInv, Unique
<1>6. ServerMaps
  BY <1>2, ForeignAssumption DEF Init, ServerMaps, NoCall
<1>7. ClientMaps
  BY <1>2 DEF Init, ClientMaps, NoCall
<1>8. ListenerInv
  BY DEF Init, ListenerInv, Families
<1>9. SyncInv
  BY <1>2 DEF Init, SyncInv, SyncOf, Flies, Exchanging, Entries, ToSet, NoCall
<1> QED BY <1>3, <1>4, <1>5, <1>6, <1>7, <1>8, <1>9 DEF AllInv

\* The invariants hold throughout.
LEMMA Always == Spec => []AllInv
<1>1. AllInv /\ [Next]_vars => AllInv'
  BY CallTypesStep, AnswerStep, CacheStep, ServerMapsStep, ClientMapsStep, ListenerStep, SyncStep
     DEF AllInv
<1> QED BY InitAll, <1>1, PTL DEF Spec

\* The types; in particular the nonce maps of the server never hold more entries than
\* LruCache::new allows (server/mod.rs:44-54).
THEOREM TypeCorrect == Spec => []TypeOK
<1>1. AllInv => TypeOK
  BY DEF AllInv, CallTypes, CacheInv, ServerMaps, ClientMaps, ListenerInv, TypeOK, CallRec, States
<1> QED BY Always, <1>1, PTL

\* Between exchanges the two maps of the server are equal, eviction included, and so
\* are those of every client, because nonce_exchange and nonce keep the first mutex
\* while they take the second (v3.rs:28-36, client/mod.rs:106-110).
THEOREM MapsCorrect == Spec => []MapsAgree
<1>1. AllInv => MapsAgree
  <2> SUFFICES ASSUME AllInv PROVE MapsAgree
    OBVIOUS
  <2>1. \A i \in Calls : \A st \in {"storing", "saving"} : Is(i, st) <=> call[i].st = st
    BY DEF AllInv, CallTypes, Is, Calls
  <2>2. (\A i \in Calls : ~Is(i, "storing")) => sRecv = sGen
    BY <2>1 DEF AllInv, ServerMaps
  <2>3. ASSUME NEW c \in Clients, \A i \in Calls : Is(i, "saving") => call[i].client # c
        PROVE  cRecv[c] = cGen[c]
    BY <2>1, <2>3 DEF AllInv, ClientMaps
  <2> QED BY <2>2, <2>3 DEF MapsAgree
<1> QED BY Always, <1>1, PTL

\* A client whose calls do not overlap or break and whom the server can tell apart
\* agrees with the server on the last exchange, for any number of clients, calls and
\* entries (server/mod.rs:226-229).
THEOREM SyncCorrect == Spec => []InSync
<1>1. AllInv => InSync
  <2> SUFFICES ASSUME AllInv, NEW c \in Clients \ Foreign, Undisturbed(c), InFlight(c) = {}
               PROVE  Entries(sRecv, identifier(c)) \subseteq {cGen[c]}
    BY DEF InSync, Undisturbed
  <2>1. \A i \in Calls : ~Exchanging(i, c)
    BY DEF InFlight, Exchanging, AllInv, CallTypes, Calls
  <2> QED BY <2>1 DEF AllInv, SyncInv, SyncOf
<1> QED BY Always, <1>1, PTL

\* register, prepare_upload and upload return Ok for a 200 only.
LEMMA ReturnsOk ==
    ASSUME AnswerInv, NEW i \in Calls, Returns(i), call[i].req.op \in {"register", "prepareUpload", "upload"}
    PROVE  call[i].res.status = 200
<1>1. CASE call[i].req.op = "register"
  <2>1. Parses(i, "register")
    BY <1>1, Zenon DEF Returns
  <2> QED BY <2>1 DEF Parses, AnswerInv
<1>2. CASE call[i].req.op = "prepareUpload"
  BY <1>2, Zenon DEF Returns, StatusOk
<1>3. CASE call[i].req.op = "upload"
  BY <1>3, Zenon DEF Returns, StatusOk
<1> QED BY <1>1, <1>2, <1>3

\* A call of the library that returns Ok was carried out by the handler of its route;
\* only cancel is content with any response (client/mod.rs:96-247).
THEOREM OkCorrect == Spec => OkMeansServed
<1> DEFINE Served(i) ==
        call'[i].st = "ok" /\ call[i].st # "ok" /\ call[i].req.op # "cancel" =>
            call[i].res.status = 200 /\ Handler(call[i].req) # "notFound"
<1>1. AllInv /\ [Next]_vars => [\A i \in 1..made : Served(i)]_vars
  <2> SUFFICES ASSUME AllInv, [Next]_vars, NEW i \in 1..made,
                      call'[i].st = "ok", call[i].st # "ok", call[i].req.op # "cancel"
               PROVE  call[i].res.status = 200 /\ Handler(call[i].req) # "notFound"
    OBVIOUS
  <2>0. /\ CallTypes /\ i \in Calls /\ i <= made /\ made \in Nat /\ call \in [Calls -> CallRec]
        /\ call[i].res.status = 200 => Handler(call[i].req) # "notFound"
    <3>1. CallTypes /\ AnswerInv
      BY DEF AllInv
    <3>2. i \in Calls /\ i <= made /\ made \in Nat /\ call \in [Calls -> CallRec]
      BY <3>1, CapAssumption DEF CallTypes, Calls
    <3> QED BY <3>1, <3>2, HandlerRoutes DEF AnswerInv
  <2>1. CASE Stop \/ (\E v \in Families : Bind(v) \/ ListenerFails(v)) \/ UNCHANGED vars
    <3>1. UNCHANGED call
      BY <2>1 DEF Stop, Bind, ListenerFails, vars
    <3> QED BY <3>1
  <2>2. ASSUME NEW c \in Clients, Request(c) PROVE FALSE
    <3>1. Requested(c)
      BY <2>0, <2>2, RequestIs
    <3>2. i \in Calls \ {made + 1}
      BY <2>0
    <3> QED BY <3>1, <3>2 DEF Requested, Changed
  <2>3. ASSUME NEW j \in Calls, Serve(j) \/ ConnectionBreaks(j) \/ Finish(j), j # i PROVE FALSE
    <3>1. CallStep(j) /\ i \in Calls \ {j}
      BY <2>0, <2>3, CallSteps
    <3> QED BY <3>1 DEF CallStep, Answered, Stored, Generated, Ended, Saving, Saved, Changed
  <2>4. ASSUME Serve(i) \/ ConnectionBreaks(i) \/ SaveReceived(i) PROVE FALSE
    <3>1. \A st, res : Become(i, st, res) => call'[i].st = st
      BY <2>0 DEF Become, CallRec
    <3>2. Over(i, "err") => call'[i].st = "err"
      BY <2>0, OverIs DEF Changed, States
    <3> QED BY <2>4, <3>1, <3>2 DEF Serve, NotFound, register, RejectNonce, StoreNonce,
               GenerateNonce, ConnectionBreaks, SaveReceived
  <2>5. CASE SaveGenerated(i)
    <3>1. call[i].res.status = 200
      BY <2>0, <2>5 DEF SaveGenerated, Is, AllInv, AnswerInv
    <3> QED BY <2>0, <3>1
  <2>6. CASE Return(i)
    <3>1. Over(i, "err") => call'[i].st = "err"
      BY <2>0, OverIs DEF Changed, States
    <3>2. Own(i) /\ call[i].req.op # "nonce" /\ Returns(i)
      BY <2>6, <3>1 DEF Return
    <3>3. call[i].req.op \in Ops
      <4> DEFINE c == call[i].client
      <4>1. call[i].req \in Requests(c) /\ c \notin Foreign
        BY <2>0, <2>6, <3>2 DEF Return, Is, Own, CallTypes
      <4>2. call[i].req \in {[op |-> op, version |-> 3, body |-> OwnBody(op)] : op \in Ops}
        BY <4>1 DEF Requests
      <4> QED BY <4>2
    <3>4. call[i].res.status = 200
      BY <2>0, <3>2, <3>3, ReturnsOk DEF Ops, AllInv
    <3> QED BY <2>0, <3>4
  <2> QED BY <2>1, <2>2, <2>3, <2>4, <2>5, <2>6 DEF Next, Finish
<1> QED BY Always, <1>1, PTL DEF Spec, OkMeansServed
=============================================================================
