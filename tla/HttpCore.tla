------------------------------ MODULE HttpCore ------------------------------
(***************************************************************************)
(* The HTTP library of core/src/http: the server with its two listeners    *)
(* and its request handlers, LsHttpClient, and the nonces they exchange.   *)
(*                                                                         *)
(* Every call of a client is served by a task of its own that outlives the *)
(* listener which accepted its connection.  nonce_exchange and nonce put   *)
(* an entry in one map and then in a second one, each behind a mutex; both *)
(* keep the first mutex until they return.  Call i exchanges two nonces,   *)
(* the client's and the server's: a map entry with the value i is the      *)
(* respective nonce of call i.                                             *)
(*                                                                         *)
(* Clients in Foreign are not this library: they also use the legacy API   *)
(* and send bodies of any kind.                                            *)
(***************************************************************************)
EXTENDS Token, FiniteSets, SequencesExt

CONSTANTS
    Clients, Foreign,   \* the clients; those that are not LsHttpClient
    ForeignRequests,    \* what foreign clients send
    Cap,                \* capacity of the nonce maps of the server
    MaxCalls,           \* bound on the number of calls
    Setups,             \* how server and clients are configured
    None

Calls == 1..MaxCalls
Families == {4, 6}

ASSUME CapAssumption == Cap \in Nat \ {0} /\ MaxCalls \in Nat
ASSUME ForeignAssumption == Foreign \subseteq Clients /\ None \notin Clients \cup Calls
ASSUME SetupsAssumption ==
    \A s \in Setups :
        /\ s.tls \in BOOLEAN        \* the server has a TlsConfig
        /\ s.legacy \in BOOLEAN     \* legacy_enabled
        /\ s.overlap \in BOOLEAN    \* a client may have several calls in flight
        /\ s.lossy \in BOOLEAN      \* connections may break during a call
        /\ s.unstable \in BOOLEAN   \* listeners may fail, and the server may be stopped
        /\ s.expired \subseteq Clients \cup {None}  \* whose certificates are (None: the server's)
        /\ DOMAIN s.ip = Clients

VARIABLES
    setup,      \* the setup
    listener,   \* listener[v]: "binding", "listening", "failed" or "closed"
    server,     \* the task of start_with_port: "running", "stopped" or "ended"
    call,       \* call[i]: the i-th call, a record
    made,       \* calls made so far
    pooled,     \* clients that may still have the connection of an earlier call
    sRecv, sGen,    \* server: received_nonce_map and generated_nonce_map
    sLock,          \* server: the call whose handler holds received_nonce_map
    cRecv, cGen,    \* client: the entry of its maps for the server, or None
    cLock           \* client: the call that holds received_nonce_map

lifecycle == <<listener, server>>
client == <<pooled, cRecv, cGen, cLock>>
maps == <<sRecv, sGen, sLock>>
vars == <<setup, lifecycle, call, made, client, maps>>

----------------------------------------------------------------------------
(* LruCache: entries <<key, value>>, one per key, the most recent one first *)

Without(map, key) == RemoveFirstMatch(map, LAMBDA e : e[1] = key)

\* Mutant: nothing is evicted.
PutUnbounded(map, key, value) == <<<<key, value>>>> \o Without(map, key)

Put(map, key, value) ==
    LET all == <<<<key, value>>>> \o Without(map, key)
    IN  SubSeq(all, 1, IF Len(all) > Cap THEN Cap ELSE Len(all))

Entries(map, key) == {e[2] : e \in {x \in ToSet(map) : x[1] = key}}

----------------------------------------------------------------------------
(* start_with_port and start_server_with_addr *)

\* The select! of start_with_port: the branch of IPv6 sleeps after a failure.
EndsServer(v) == v = 4

\* bind and create_tls_config succeed.
Bind(v) ==
    /\ listener[v] = "binding"
    /\ listener' = [listener EXCEPT ![v] = "listening"]
    /\ UNCHANGED <<setup, server, call, made, client, maps>>

\* bind, create_tls_config or accept fails: start_server_with_addr returns Err,
\* which start_with_port has not waited for.
ListenerFails(v) ==
    /\ setup.unstable
    /\ listener[v] \in {"binding", "listening"}
    /\ IF EndsServer(v)
       THEN /\ server' = "ended"
            /\ listener' = [w \in Families |->
                               IF w = v \/ listener[w] = "failed" THEN "failed" ELSE "closed"]
       ELSE listener' = [listener EXCEPT ![v] = "failed"] /\ UNCHANGED server
    /\ UNCHANGED <<setup, call, made, client, maps>>

\* stop_tx is used or dropped: the listeners are dropped, the connections they
\* accepted are not.
Stop ==
    /\ setup.unstable
    /\ server = "running"
    /\ server' = "stopped"
    /\ listener' = [v \in Families |-> IF listener[v] = "failed" THEN "failed" ELSE "closed"]
    /\ UNCHANGED <<setup, call, made, client, maps>>

----------------------------------------------------------------------------
(* Requests *)

\* Mutant: everybody is known by the address.
identifierIp(c) == setup.ip[c]

\* RequestClientInfo.identifier: the public key of the certificate, if any.
identifier(c) == IF setup.tls THEN c ELSE setup.ip[c]

\* verify_cert_from_der: valid in time and signed with its own key; with an
\* expected public key, that one.
verify_cert(owner) == owner \notin setup.expired

\* What a call is sent with: LsHttpClient makes a nonce of 32 bytes and bodies
\* the server can parse.
OwnBody(op) == [dto |-> op, nonce |-> Bytes(32, op)]
Ops == {"nonce", "register", "prepareUpload", "upload", "cancel"}
Requests(c) ==
    IF c \in Foreign
    THEN ForeignRequests
    ELSE {[op |-> op, version |-> 3, body |-> OwnBody(op)] : op \in Ops}

\* A response: its status, and what its body is the JSON of.
Response(status, body) == [status |-> status, body |-> body]
NoResponse == Response(0, "none")

NoCall == [client |-> None, req |-> None, res |-> NoResponse, st |-> "none"]
InFlight(c) == {i \in 1..made : call[i].client = c /\ call[i].st \notin {"ok", "err"}}

\* A connection is accepted by a listener, if the CustomClientCertVerifier accepts
\* the client's certificate, or it is left from an earlier call.
Connects(c) ==
    IF (\E v \in Families : listener[v] = "listening") /\ (setup.tls => verify_cert(c))
    THEN {TRUE}
    ELSE {FALSE, (c \in pooled)}

Request(c) ==
    /\ made < MaxCalls
    /\ InFlight(c) # {} => setup.overlap
    /\ made' = made + 1
    /\ \E r \in Requests(c), ok \in Connects(c) :
          /\ call' = [call EXCEPT ![made + 1] =
                         IF ok THEN [client |-> c, req |-> r, res |-> NoResponse, st |-> "sent"]
                               ELSE [NoCall EXCEPT !.st = "err"]]
          /\ pooled' = IF ok THEN pooled \cup {c} ELSE pooled
    /\ UNCHANGED <<setup, lifecycle, cRecv, cGen, cLock, maps>>

Is(i, st) == i <= made /\ call[i].st = st
Become(i, st, res) == call' = [call EXCEPT ![i].st = st, ![i].res = res]

\* The call is over; nothing but its result is left of it.
Over(i, result) == call' = [call EXCEPT ![i] = [NoCall EXCEPT !.st = result]]

\* The connection breaks: the call returns Err, whatever the server did or will do.
ConnectionBreaks(i) ==
    /\ setup.lossy
    /\ Is(i, "sent") \/ Is(i, "answered")
    /\ Over(i, "err")
    /\ UNCHANGED <<setup, lifecycle, made, client, maps>>

----------------------------------------------------------------------------
(* handle_request *)

\* The routes: the legacy ones all lead to v2::register, when enabled.
Handler(req) ==
    CASE req.version = 3 /\ req.op \in {"nonce", "register"} -> req.op
      [] req.version = 2 /\ req.op # "nonce" /\ setup.legacy -> "register"
      [] OTHER -> "notFound"

Handled(i, handler) == Is(i, "sent") /\ Handler(call[i].req) = handler

\* A disabled route answers with an ErrorResponse, an unknown one with nothing.
NotFound(i) ==
    /\ Handled(i, "notFound")
    /\ Become(i, "answered", Response(404, IF call[i].req.version = 2 THEN "error" ELSE "none"))
    /\ UNCHANGED <<setup, lifecycle, made, client, maps>>

\* collect_to_json: the body is the JSON of that type, or else the handler ends
\* with a BadRequest.
BadRequest == Response(400, "error")
Collects(i, dto) == call[i].req.body.dto = dto

\* register of v2 and v3 answers with the server's info.
register(i) ==
    /\ Handled(i, "register")
    /\ Become(i, "answered", IF Collects(i, "register") THEN Response(200, "register")
                                                         ELSE BadRequest)
    /\ UNCHANGED <<setup, lifecycle, made, client, maps>>

ValidNonce(i) == Collects(i, "nonce") /\ validate_nonce(call[i].req.body.nonce)

RejectNonce(i) ==
    /\ Handled(i, "nonce")
    /\ ~ValidNonce(i)
    /\ Become(i, "answered", BadRequest)
    /\ UNCHANGED <<setup, lifecycle, made, client, maps>>

\* Mutant: the first mutex is released as soon as the nonce is stored.
StoreNonceUnlocked(i) ==
    /\ Handled(i, "nonce") /\ ValidNonce(i)
    /\ sRecv' = Put(sRecv, identifier(call[i].client), i)
    /\ Become(i, "storing", NoResponse)
    /\ UNCHANGED <<setup, lifecycle, made, client, sGen, sLock>>

\* nonce_exchange up to the second lock().await.
StoreNonce(i) ==
    /\ Handled(i, "nonce") /\ ValidNonce(i)
    /\ sLock = None
    /\ sLock' = i
    /\ sRecv' = Put(sRecv, identifier(call[i].client), i)
    /\ Become(i, "storing", NoResponse)
    /\ UNCHANGED <<setup, lifecycle, made, client, sGen>>

\* Mutant: the mutexes are never released.
GenerateNonceLocked(i) ==
    /\ Is(i, "storing")
    /\ sGen' = Put(sGen, identifier(call[i].client), i)
    /\ Become(i, "answered", Response(200, "nonce"))
    /\ UNCHANGED <<setup, lifecycle, made, client, sRecv, sLock>>

\* The rest of nonce_exchange: both mutexes are released at its end.
GenerateNonce(i) ==
    /\ Is(i, "storing")
    /\ sGen' = Put(sGen, identifier(call[i].client), i)
    /\ sLock' = None
    /\ Become(i, "answered", Response(200, "nonce"))
    /\ UNCHANGED <<setup, lifecycle, made, client, sRecv>>

----------------------------------------------------------------------------
(* LsHttpClient: what it makes of the response *)

\* Mutant: the status is not looked at.
StatusOkAlways(i) == TRUE

\* status_code_error_from_res: anything but 200 is an error.
StatusOk(i) == call[i].res.status = 200

\* res.json::<T>: the body is the JSON of a T; nothing else has its fields.
Parses(i, dto) == call[i].res.body = dto

\* verify_cert_from_res, when the server was reached by https.
CertOk == setup.tls => verify_cert(None)

\* When a call that leaves no trace in the client returns Ok.  register parses
\* the body whatever the status; prepare_upload checks the certificate against
\* the key that register returned; cancel is content with any response.
Returns(i) ==
    CASE call[i].req.op = "register" -> CertOk /\ Parses(i, "register")
      [] call[i].req.op = "prepareUpload" -> CertOk /\ StatusOk(i) /\ Parses(i, "prepareUpload")
      [] call[i].req.op = "upload" -> StatusOk(i)
      [] OTHER -> TRUE

Own(i) == call[i].client \notin Foreign
SavesNonce(i) ==
    Own(i) /\ call[i].req.op = "nonce" /\ StatusOk(i) /\ CertOk /\ Parses(i, "nonce")

Return(i) ==
    /\ Is(i, "answered") /\ ~SavesNonce(i)
    /\ Over(i, IF Own(i) /\ call[i].req.op # "nonce" /\ Returns(i) THEN "ok" ELSE "err")
    /\ UNCHANGED <<setup, lifecycle, made, client, maps>>

\* nonce: the response's nonce is saved, then the one that was sent.
SaveReceived(i) ==
    LET c == call[i].client
    IN  /\ Is(i, "answered") /\ SavesNonce(i)
        /\ cLock[c] = None
        /\ cLock' = [cLock EXCEPT ![c] = i]
        /\ cRecv' = [cRecv EXCEPT ![c] = i]
        /\ Become(i, "saving", call[i].res)
        /\ UNCHANGED <<setup, lifecycle, made, pooled, cGen, maps>>

SaveGenerated(i) ==
    LET c == call[i].client
    IN  /\ Is(i, "saving")
        /\ cGen' = [cGen EXCEPT ![c] = i]
        /\ cLock' = [cLock EXCEPT ![c] = None]
        /\ Over(i, "ok")
        /\ UNCHANGED <<setup, lifecycle, made, pooled, cRecv, maps>>

----------------------------------------------------------------------------
(* Specification *)

\* Where no listener can fail, the calls begin when both are bound.
Init ==
    /\ setup \in Setups
    /\ listener = [v \in Families |-> IF setup.unstable THEN "binding" ELSE "listening"]
    /\ server = "running"
    /\ call = [i \in Calls |-> NoCall]
    /\ made = 0
    /\ pooled = {}
    /\ sRecv = <<>> /\ sGen = <<>> /\ sLock = None
    /\ cRecv = [c \in Clients |-> None]
    /\ cGen = [c \in Clients |-> None]
    /\ cLock = [c \in Clients |-> None]

Serve(i) == NotFound(i) \/ register(i) \/ RejectNonce(i) \/ StoreNonce(i) \/ GenerateNonce(i)
Finish(i) == Return(i) \/ SaveReceived(i) \/ SaveGenerated(i)

Next ==
    \/ \E v \in Families : Bind(v) \/ ListenerFails(v)
    \/ Stop
    \/ \E c \in Clients : Request(c)
    \/ \E i \in Calls : Serve(i) \/ ConnectionBreaks(i) \/ Finish(i)

Spec == Init /\ [][Next]_vars

\* The runtimes of both sides run their tasks, and a mutex is handed on.
FairSpec ==
    /\ Spec
    /\ \A i \in Calls : WF_vars(Serve(i)) /\ WF_vars(Finish(i))

----------------------------------------------------------------------------
(* Properties *)

\* Every variable has its type; the maps of the server never outgrow their
\* capacity (LruCache::new, server/mod.rs:44-54).
TypeOK ==
    /\ listener \in [Families -> {"binding", "listening", "failed", "closed"}]
    /\ server \in {"running", "stopped", "ended"}
    /\ made \in 0..MaxCalls
    /\ \A i \in Calls : call[i].st \in {"none", "sent", "storing", "answered", "saving", "ok", "err"}
    /\ pooled \subseteq Clients
    /\ Len(sRecv) <= Cap /\ Len(sGen) <= Cap
    /\ sLock \in Calls \cup {None}
    /\ cRecv \in [Clients -> Calls \cup {None}] /\ cGen \in [Clients -> Calls \cup {None}]

\* The two maps of the server describe the same exchanges and evict the same
\* ones, and so do those of a client, whatever handlers run at the same time: a
\* received nonce is never paired with the generated nonce of another exchange
\* (v3.rs:28-36, client/mod.rs:106-110).
MapsAgree ==
    /\ (\A i \in Calls : ~Is(i, "storing")) => sRecv = sGen
    /\ \A c \in Clients :
          (\A i \in Calls : Is(i, "saving") => call[i].client # c) => cRecv[c] = cGen[c]

\* When no connection breaks, no certificate is refused and no two calls of a
\* client overlap, then server and client agree on the last exchange, unless it
\* was evicted, although the server stores it before the client has the answer;
\* in particular, clients behind one address have entries of their own when
\* they use certificates (server/mod.rs:226-229).
InSync ==
    \A c \in Clients \ Foreign :
        /\ ~setup.lossy /\ ~setup.overlap /\ setup.expired = {}
        /\ \A d \in Clients \ {c} : setup.tls \/ setup.ip[c] # setup.ip[d]
        /\ InFlight(c) = {} /\ cGen[c] # None
        => Entries(sRecv, identifier(c)) \subseteq {cGen[c]}

\* A call that returns Ok has been carried out by a handler for it, which answered
\* 200, although register never looks at the status: only cancel takes the 404
\* of a server that does not know the operation for a success
\* (client/mod.rs:151, 181, 220, 227-247).
OkMeansServed ==
    [][\A i \in 1..made :
          call'[i].st = "ok" /\ call[i].st # "ok" /\ call[i].req.op # "cancel" =>
              call[i].res.status = 200 /\ Handler(call[i].req) # "notFound"]_vars

\* Every call returns: no handler waits for ever for a mutex another one keeps,
\* also when the server is stopped while it is served.
CallEnds == \A i \in Calls : call[i].st = "sent" ~> call[i].st \in {"ok", "err"}
=============================================================================
