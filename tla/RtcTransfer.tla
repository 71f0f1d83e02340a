---------------------------- MODULE RtcTransfer ----------------------------
(***************************************************************************)
(* A file transfer over a WebRTC data channel: send_offer and accept_offer *)
(* of core/src/webrtc/webrtc.rs, from the opened data channel to the end   *)
(* of both functions.                                                      *)
(*                                                                         *)
(* "S" is the sending peer and "R" the receiving one.  Each runs two       *)
(* tasks: the inner one (send_task, receive_task) speaks the protocol, the *)
(* outer one waits for the inner one or for the Disconnected state of the  *)
(* peer connection, whichever comes first.  An outer task that is woken by *)
(* Disconnected leaves the inner one running, detached: it still reads     *)
(* what was received, but everything it sends fails.                       *)
(*                                                                         *)
(* The channel is reliable and ordered, so it is a queue per direction;    *)
(* what is still in it when a peer closes the connection may be lost.  A   *)
(* task that returned has dropped its receiver: nothing is queued for it.  *)
(*                                                                         *)
(* One step of a task is one message (or one answer of its user) together  *)
(* with everything it sends until it waits again.                          *)
(***************************************************************************)
EXTENDS Token, FiniteSets, SequencesExt

CONSTANTS
    Files,              \* file ids offered by the sender
    Size,               \* Size[f]: units of content of file f
    ChunkSize,          \* CHUNK_SIZE in units
    StrChunks,          \* chunks of a JSON string sent by send_string_in_chunks
    Guesses,            \* PINs a user may type
    NoPin, EmptyPin,    \* no PinConfig; the PIN ""
    MaxTries,           \* PinConfig.max_tries
    Selections,         \* sets of files the receiver's user may select
    Scenarios,          \* how the two peers are configured and what may go wrong
    None                \* Option::None

Peers == {"S", "R"}
Other(p) == IF p = "S" THEN "R" ELSE "S"

ASSUME FilesAssumption == IsFiniteSet(Files)
ASSUME SizeAssumption == Size \in [Files -> Nat] /\ ChunkSize \in Nat \ {0}
ASSUME StrChunksAssumption == StrChunks \in Nat \ {0}
ASSUME MaxTriesAssumption == MaxTries \in Nat
ASSUME SelectionsAssumption == Selections \subseteq SUBSET Files
ASSUME ScenariosAssumption ==
    \A s \in Scenarios :
        /\ s = [pin |-> s.pin, expect |-> s.expect, faults |-> s.faults]
        /\ DOMAIN s.pin = Peers /\ DOMAIN s.expect = Peers
        /\ s.faults \subseteq {"giveUp", "netFail", "selectNone"}
ASSUME NoneAssumption == None \notin Files

VARIABLES
    pin,        \* pin[p]: PIN p was configured with, or NoPin
    expect,     \* expect[p]: expecting_public_key of p, or None
    faults,     \* "giveUp": the apps may drop their ends of the channels;
                \* "netFail": the network may disconnect the peers;
                \* "selectNone": the receiver's user may select no file at all
    nonce,      \* nonce[p]: the nonce of p's tokens, first its own part of it
    pc,         \* control point of the inner task of p ("dead": returned)
    q,          \* q[p]: messages on their way to p
    buf,        \* buf[p]: buffer of p's receive_string_from_chunks
    tries,      \* tries[p]: pin_try of p's verify_pin
    typed,      \* typed[p]: PINs the user of p has typed
    end,        \* outer task of p: "running", "finished" (closed) or "failed"
    told,       \* told[p]: statuses sent to the app of p
    outcome,    \* outcome[p]: how the inner task of p returned ("none": it has not)
    fileMap,    \* sender: files it holds a token for (file_map)
    given,      \* sender: files its app handed over (sending_rx)
    cur,        \* sender: the file being sent, or None
    read,       \* sender: read[f]: units of f its app has produced
    sbuf,       \* sender: buffer of process_in_chunks
    selected,   \* receiver: files it made tokens for (file_tokens)
    open,       \* receiver: file_state, a file or None
    got,        \* receiver: got[f]: content passed on to the app for f
    answer,     \* receiver: answer[f]: "none", or the success it reported
    fileErrors  \* receiver: RTCFileErrors sent to the app

config == <<pin, expect, faults>>
pins == <<tries, typed>>
sender == <<fileMap, given, cur, read, sbuf>>
receiver == <<selected, open, got, answer, fileErrors>>
control == <<pc, q, end, told, outcome>>
vars == <<config, nonce, control, buf, pins, sender, receiver>>

----------------------------------------------------------------------------
(* Messages *)

\* A text message is one JSON value: its kind and the value it carries.
Text(k, v) == [k |-> k, v |-> v, data |-> <<>>]
Bin(data) == [k |-> "bin", v |-> None, data |-> data]
IsString(m) == m.k # "bin"

\* The text "0" that ends a sequence of binary messages.
Delimiter == Text("delimiter", None)

\* The strings that are sent in chunks: RTCPinSendingResponse and
\* RTCFileListResponse.  Only two of them carry files.
Str(k, files) == [k |-> k, files |-> files]
Strings == {Str(k, {}) : k \in {"pinRequired", "tooMany", "declined"}}
           \cup {Str(k, fs) : k \in {"list", "ok"}, fs \in SUBSET Files}
Pieces(s) == [i \in 1..StrChunks |-> <<s, i>>]

\* Mutant: the last chunk of the string is never sent.
InChunksButLast(s) == Append([i \in 1..(StrChunks - 1) |-> Bin(<<<<s, i>>>>)], Delimiter)

\* send_string_in_chunks followed by send_delimiter.
InChunks(s) == Append([i \in 1..StrChunks |-> Bin(<<<<s, i>>>>)], Delimiter)

\* serde_json::from_slice of what receive_string_from_chunks collected.
Parses(b, k) == \E s \in Strings : s.k = k /\ b = Pieces(s)
Parsed(b, k) == CHOOSE s \in Strings : s.k = k /\ b = Pieces(s)

Content(f) == [i \in 1..Size[f] |-> <<f, i>>]

----------------------------------------------------------------------------
(* Steps of an inner task *)

GiveUp == "giveUp" \in faults
NetFail == "netFail" \in faults

Running(p) == end[p] = "running"
Arrived(p) == IF q[p] = <<>> THEN Text("nothing", None) ELSE Head(q[p])
Receives(p, at) == pc[p] = at /\ q[p] # <<>>

\* What is queued for the other peer once p has sent msgs: a data channel
\* that either peer has closed carries nothing more.
Sent(p, msgs) ==
    IF Running(p) /\ Running(Other(p)) THEN q[Other(p)] \o msgs ELSE q[Other(p)]

\* Whether sending msgs may succeed: not once p closed the channel, perhaps
\* when only the other peer did.
SendResults(p, msgs) ==
    CASE msgs = <<>> \/ (Running(p) /\ Running(Other(p))) -> {TRUE}
      [] msgs # <<>> /\ ~Running(p) -> {FALSE}
      [] OTHER -> BOOLEAN

\* The task sends msgs and returns Err: the outer task returns the error to
\* the FFI layer, which reports it; nobody closes the peer connection.
Fail(p, msgs, sts, why) ==
    /\ pc' = [pc EXCEPT ![p] = "dead"]
    /\ q' = [q EXCEPT ![p] = <<>>, ![Other(p)] = Sent(p, msgs)]
    /\ end' = [end EXCEPT ![p] = IF @ = "running" THEN "failed" ELSE @]
    /\ told' = [told EXCEPT ![p] =
                   @ \cup sts \cup (IF Running(p) THEN {"Error"} ELSE {})]
    /\ outcome' = [outcome EXCEPT ![p] = why]

\* The task consumes n messages, sends msgs, reports the statuses sts and goes
\* to next; it returns Err when the send fails.
Proceed(p, n, msgs, sts, next) ==
    \/ /\ TRUE \in SendResults(p, msgs)
       /\ pc' = [pc EXCEPT ![p] = next]
       /\ q' = [q EXCEPT ![p] = SubSeq(@, n + 1, Len(@)), ![Other(p)] = Sent(p, msgs)]
       /\ told' = [told EXCEPT ![p] = @ \cup sts]
       /\ UNCHANGED <<end, outcome>>
    \/ FALSE \in SendResults(p, msgs) /\ Fail(p, <<>>, sts, "send")

\* The task sends msgs and returns Ok: the outer task, if it still waits,
\* reports Finished and closes the connection.  What the other peer has not
\* received may be lost, also after the 5 seconds the receiver waits for its
\* buffer to drain.
Complete(p, msgs, sts) ==
    \/ /\ TRUE \in SendResults(p, msgs)
       /\ pc' = [pc EXCEPT ![p] = "dead"]
       /\ told' = [told EXCEPT ![p] =
                      @ \cup sts \cup (IF Running(p) THEN {"Finished"} ELSE {})]
       /\ end' = [end EXCEPT ![p] = "finished"]
       /\ \E n \in 0..Len(Sent(p, msgs)) :
             /\ ~Running(p) => n = Len(Sent(p, msgs))
             /\ q' = [q EXCEPT ![p] = <<>>, ![Other(p)] = SubSeq(Sent(p, msgs), 1, n)]
       /\ outcome' = [outcome EXCEPT ![p] = "completed"]
    \/ FALSE \in SendResults(p, msgs) /\ Fail(p, <<>>, sts, "send")

\* receive_string_from_chunks: a binary message is appended to the buffer.
ChunkStates == [S |-> {"selection"}, R |-> {"list", "pinRes"}]
ReceiveChunk(p) ==
    /\ pc[p] \in ChunkStates[p]
    /\ q[p] # <<>>
    /\ ~IsString(Arrived(p))
    /\ buf' = [buf EXCEPT ![p] = @ \o Arrived(p).data]
    /\ Proceed(p, 1, <<>>, {}, pc[p])
    /\ UNCHANGED <<config, nonce, pins, sender, receiver>>

Ended(p, at) == Receives(p, at) /\ IsString(Arrived(p))

----------------------------------------------------------------------------
(* The PIN challenges *)

\* Mutant: one try too many.
VerdictOneMore(p, guess, n) ==
    CASE guess = pin[p] -> "pass"
      [] guess # pin[p] /\ n > MaxTries -> "tooMany"
      [] OTHER -> "again"

\* The loop of verify_pin, from the comparison of a PIN to the next receive.
Verdict(p, guess, n) ==
    CASE guess = pin[p] -> "pass"
      [] guess # pin[p] /\ n >= MaxTries -> "tooMany"
      [] OTHER -> "again"

\* The closure send_result of each peer.
Notice(p, k) ==
    IF p = "S" THEN InChunks(Str(k, {})) ELSE <<Text("pinRes", k)>>

\* What follows a passed challenge: the sender's file list, the receiver's
\* RTCPinReceivingResponse::Ok.
AfterPass(p, msgs, sts) ==
    IF p = "S"
    THEN Proceed(p, 1, msgs \o InChunks(Str("list", Files)),
                 sts \cup {"Connected"}, "selection")
    ELSE Proceed(p, 1, Append(msgs, Text("pinRes", "ok")), sts, "list")

\* One round of verify_pin, after n PINs of which guess is the last, in the
\* step that also sends msgs.
verify_pin(p, guess, n, notice, msgs, sts) ==
    /\ tries' = [tries EXCEPT ![p] = n]
    /\ \/ Verdict(p, guess, n) = "pass" /\ AfterPass(p, msgs, sts)
       \/ /\ Verdict(p, guess, n) = "tooMany"
          /\ Fail(p, msgs \o Notice(p, "tooMany"), sts \cup {"TooManyAttempts"}, "tooMany")
       \/ /\ Verdict(p, guess, n) = "again"
          /\ Proceed(p, 1, msgs \o (IF notice THEN Notice(p, "pinRequired") ELSE <<>>),
                     sts, "verify")

\* Mutant: the sender, too, waits for a PIN without a notice.
ChallengeSilently(p, msgs) == verify_pin(p, EmptyPin, 0, FALSE, msgs, {"PinRequired"})

\* The first round: no PIN yet, and only the sender sends a notice.
Challenge(p, msgs) == verify_pin(p, EmptyPin, 0, p = "S", msgs, {"PinRequired"})

\* Mutant: pin_try counts down.
VerifyPinCountsDown(p) ==
    /\ Receives(p, "verify")
    /\ verify_pin(p, Arrived(p).v, tries[p] - 1, TRUE, <<>>, {})
    /\ UNCHANGED <<config, nonce, buf, typed, sender, receiver>>

\* A PIN arrives: pin_try += 1 and another round.
VerifyPin(p) ==
    /\ Receives(p, "verify")
    /\ \/ /\ Arrived(p).k = "pin"
          /\ verify_pin(p, Arrived(p).v, tries[p] + 1, TRUE, <<>>, {})
       \/ Arrived(p).k # "pin" /\ Fail(p, <<>>, {}, "parse") /\ UNCHANGED tries
    /\ UNCHANGED <<config, nonce, buf, typed, sender, receiver>>

\* handle_pin: the user is asked for a PIN, which is sent.
EnterPin(p) ==
    /\ pc[p] = "askPin"
    /\ \E g \in Guesses :
          /\ typed' = [typed EXCEPT ![p] = @ \cup {g}]
          /\ Proceed(p, 0, <<Text("pin", g)>>, {}, "pinRes")
    /\ UNCHANGED <<config, nonce, buf, tries, sender, receiver>>

\* The app drops the request: "PIN required but not provided".
DropPinRequest(p) ==
    /\ GiveUp
    /\ pc[p] = "askPin"
    /\ Fail(p, <<>>, {}, "noPin")
    /\ UNCHANGED <<config, nonce, buf, pins, sender, receiver>>

----------------------------------------------------------------------------
(* send_task *)

\* receive_nonce: a text with a nonce of 16 to 128 bytes.
NonceArrives(p) == Arrived(p).k = "nonce" /\ validate_nonce(Arrived(p).v)

\* The token p makes over a nonce, and whether p accepts the token it is given:
\* any, unless the app asked for a certain key.
Token(p, n) == generate_token_nonce(SigningKey(p), n)
Trusts(p, token) == expect[p] # None => verify_token_nonce(expect[p], token, nonce[p])

SendNonce ==
    /\ pc["S"] = "start"
    /\ nonce' = [nonce EXCEPT !["S"] = generate_nonce("S")]
    /\ Proceed("S", 0, <<Text("nonce", nonce'["S"])>>, {}, "nonce")
    /\ UNCHANGED <<config, buf, pins, sender, receiver>>

\* Final nonce: sender_nonce || receiver_nonce.
SenderNonce(remote) == Concat(nonce["S"], remote)

SendToken ==
    LET m == Arrived("S")
    IN  /\ Receives("S", "nonce")
        /\ IF NonceArrives("S")
           THEN /\ nonce' = [nonce EXCEPT !["S"] = SenderNonce(m.v)]
                /\ Proceed("S", 1, <<Text("token", Token("S", nonce'["S"]))>>, {}, "token")
           ELSE Fail("S", <<>>, {}, "parse") /\ UNCHANGED nonce
        /\ UNCHANGED <<config, buf, pins, sender, receiver>>

\* Mutant: the sender's own challenge is forgotten.
OfferFilesUnchallenged == AfterPass("S", <<>>, {}) /\ UNCHANGED tries

\* The sender's own challenge, or the file list right away.
OfferFiles ==
    IF pin["S"] # NoPin
    THEN Challenge("S", <<>>)
    ELSE AfterPass("S", <<>>, {}) /\ UNCHANGED tries

\* RTCTokenResponse.  An untrusted token is not answered.
HandleTokenResponse ==
    LET m == Arrived("S")
    IN  /\ Receives("S", "token")
        /\ \/ m.k # "tokenRes" /\ Fail("S", <<>>, {}, "parse") /\ UNCHANGED tries
           \/ /\ m.k = "tokenRes" /\ m.v.result = "invalidSignature"
              /\ Fail("S", <<>>, {}, "rejected") /\ UNCHANGED tries
           \/ /\ m.k = "tokenRes" /\ m.v.result # "invalidSignature"
              /\ ~Trusts("S", m.v.token)
              /\ Fail("S", <<>>, {}, "untrusted") /\ UNCHANGED tries
           \/ /\ m.k = "tokenRes" /\ m.v.result = "pinRequired" /\ Trusts("S", m.v.token)
              /\ Proceed("S", 1, <<>>, {"PinRequired"}, "askPin") /\ UNCHANGED tries
           \/ /\ m.k = "tokenRes" /\ m.v.result = "ok" /\ Trusts("S", m.v.token)
              /\ OfferFiles
        /\ UNCHANGED <<config, nonce, buf, typed, sender, receiver>>

\* RTCPinReceivingResponse, in the sender's handle_pin.
HandlePinReceivingResponse ==
    LET m == Arrived("S")
    IN  /\ Receives("S", "pinRes")
        /\ \/ m.k # "pinRes" /\ Fail("S", <<>>, {}, "parse") /\ UNCHANGED tries
           \/ m.k = "pinRes" /\ m.v = "ok" /\ OfferFiles
           \/ /\ m.k = "pinRes" /\ m.v = "pinRequired"
              /\ Proceed("S", 1, <<>>, {"PinRequired"}, "askPin") /\ UNCHANGED tries
           \/ /\ m.k = "pinRes" /\ m.v = "tooMany"
              /\ Fail("S", <<>>, {"TooManyAttempts"}, "tooMany") /\ UNCHANGED tries
        /\ UNCHANGED <<config, nonce, buf, typed, sender, receiver>>

\* RTCFileListResponse, assembled from its chunks.
HandleFileListResponse ==
    /\ Ended("S", "selection")
    /\ buf' = [buf EXCEPT !["S"] = <<>>]
    /\ \/ /\ Parses(buf["S"], "ok")
          /\ fileMap' = Parsed(buf["S"], "ok").files
          /\ \/ Proceed("S", 1, <<>>, {}, "sending")
             \/ GiveUp /\ Fail("S", <<>>, {}, "app")      \* nobody listens to the selection
       \/ /\ Parses(buf["S"], "declined")
          /\ Complete("S", <<>>, {"Declined"})
          /\ UNCHANGED fileMap
       \/ /\ ~Parses(buf["S"], "ok") /\ ~Parses(buf["S"], "declined")
          /\ Fail("S", <<>>, {}, "parse")
          /\ UNCHANGED fileMap
    /\ UNCHANGED <<config, nonce, pins, given, cur, read, sbuf, receiver>>

\* In the file loop a failed send is reported to the app and skips the file.
Write(msgs) ==
    /\ q' = [q EXCEPT !["R"] = Sent("S", msgs)]
    /\ UNCHANGED <<pc, end, told, outcome>>

\* Mutant: the selection is not looked at.
HasTokenAlways(f) == f \in Files

\* file_map.get(&message.file_id)
HasToken(f) == f \in fileMap

\* The app hands over a file; one that has no token is reported and skipped.
SendHeader ==
    /\ pc["S"] = "sending" /\ cur = None
    /\ \E f \in Files \ given :
          LET header == <<Text("header", f)>>
          IN  /\ given' = given \cup {f}
              /\ \/ /\ HasToken(f) /\ TRUE \in SendResults("S", header)
                    /\ cur' = f
                    /\ Write(header)
                 \/ /\ HasToken(f) => FALSE \in SendResults("S", header)
                    /\ UNCHANGED <<control, cur>>
    /\ UNCHANGED <<config, nonce, buf, pins, fileMap, read, sbuf, receiver>>

\* process_in_chunks: n units from the app are buffered, full chunks are sent.
FullChunks(b) ==
    [i \in 1..(Len(b) \div ChunkSize) |->
        Bin(SubSeq(b, (i - 1) * ChunkSize + 1, i * ChunkSize))]

\* Mutant: the buffer is cleared instead of split.
LeftoverCleared(b) == IF Len(b) >= ChunkSize THEN <<>> ELSE b
Leftover(b) == SubSeq(b, (Len(b) \div ChunkSize) * ChunkSize + 1, Len(b))

SendChunks ==
    /\ pc["S"] = "sending" /\ cur # None
    /\ \E n \in 1..(Size[cur] - read[cur]) :
          LET b == sbuf \o SubSeq(Content(cur), read[cur] + 1, read[cur] + n)
          IN  /\ read' = [read EXCEPT ![cur] = @ + n]
              /\ \E ok \in SendResults("S", FullChunks(b)) :
                    /\ sbuf' = IF ok THEN Leftover(b) ELSE <<>>
                    /\ cur' = IF ok THEN cur ELSE None
              /\ Write(FullChunks(b))
    /\ UNCHANGED <<config, nonce, buf, pins, fileMap, given, receiver>>

\* The app has produced the file: what is left in the buffer is sent.
SendRest ==
    /\ pc["S"] = "sending" /\ cur # None
    /\ read[cur] = Size[cur] \/ GiveUp
    /\ Write(IF sbuf = <<>> THEN <<>> ELSE <<Bin(sbuf)>>)
    /\ sbuf' = <<>>
    /\ cur' = None
    /\ UNCHANGED <<config, nonce, buf, pins, fileMap, given, read, receiver>>

\* The app closes sending_rx: the delimiter ends the last file.
SendEnd ==
    /\ pc["S"] = "sending" /\ cur = None
    /\ fileMap \subseteq given \/ GiveUp
    /\ Proceed("S", 0, <<Delimiter>>, {}, "status")
    /\ UNCHANGED <<config, nonce, buf, pins, sender, receiver>>

\* Mutant: the last status is not waited for.
AwaitNothing ==
    /\ pc["S"] = "status"
    /\ Complete("S", <<>>, {})
    /\ UNCHANGED <<config, nonce, buf, pins, sender, receiver>>

\* receive_rx.recv(): one message, whatever it is.
AwaitStatus ==
    /\ Receives("S", "status")
    /\ Complete("S", <<>>, {})
    /\ UNCHANGED <<config, nonce, buf, pins, sender, receiver>>

----------------------------------------------------------------------------
(* receive_task *)

\* Mutant: the receiver puts its own nonce first.
ReceiverNonceFirst(remote) == Concat(generate_nonce("R"), remote)

ReceiverNonce(remote) == Concat(remote, generate_nonce("R"))

ReceiveNonce ==
    /\ Receives("R", "nonce")
    /\ IF NonceArrives("R")
       THEN /\ nonce' = [nonce EXCEPT !["R"] = ReceiverNonce(Arrived("R").v)]
            /\ Proceed("R", 1, <<Text("nonce", generate_nonce("R"))>>, {}, "token")
       ELSE Fail("R", <<>>, {}, "parse") /\ UNCHANGED nonce
    /\ UNCHANGED <<config, buf, pins, sender, receiver>>

TokenResponse(result, token) == <<Text("tokenRes", [result |-> result, token |-> token])>>

\* RTCTokenRequest: rejected, or answered with the receiver's own token and
\* whether a PIN is required, in which case the challenge starts.
HandleTokenRequest ==
    /\ Receives("R", "token")
    /\ \/ Arrived("R").k # "token" /\ Fail("R", <<>>, {}, "parse") /\ UNCHANGED tries
       \/ /\ Arrived("R").k = "token" /\ ~Trusts("R", Arrived("R").v)
          /\ Fail("R", TokenResponse("invalidSignature", None), {}, "untrusted")
          /\ UNCHANGED tries
       \/ /\ Arrived("R").k = "token" /\ Trusts("R", Arrived("R").v) /\ pin["R"] = NoPin
          /\ Proceed("R", 1, TokenResponse("ok", Token("R", nonce["R"])), {}, "list")
          /\ UNCHANGED tries
       \/ /\ Arrived("R").k = "token" /\ Trusts("R", Arrived("R").v) /\ pin["R"] # NoPin
          /\ Challenge("R", TokenResponse("pinRequired", Token("R", nonce["R"])))
    /\ UNCHANGED <<config, nonce, buf, typed, sender, receiver>>

\* The file list arrived: the app is shown it, unless it stopped listening.
ShowFiles ==
    \/ Proceed("R", 1, <<>>, {"Connected"}, "select")
    \/ GiveUp /\ Fail("R", <<>>, {"Connected"}, "app")

\* RTCPinSendingResponse, at first and in the receiver's handle_pin: the two
\* differ in what they make of TooManyAttempts.
HandlePinSendingResponse ==
    LET b == buf["R"]
        at == pc["R"]
    IN  /\ Ended("R", "list") \/ Ended("R", "pinRes")
        /\ buf' = [buf EXCEPT !["R"] = <<>>]
        /\ \/ Parses(b, "list") /\ ShowFiles
           \/ Parses(b, "pinRequired") /\ Proceed("R", 1, <<>>, {"PinRequired"}, "askPin")
           \/ /\ Parses(b, "tooMany") /\ at = "pinRes"
              /\ Fail("R", <<>>, {"TooManyAttempts"}, "tooMany")
           \/ /\ Parses(b, "tooMany") /\ at = "list"
              /\ Fail("R", <<>>, {"Error"}, "unexpected")
           \/ /\ \A k \in {"list", "pinRequired", "tooMany"} : ~Parses(b, k)
              /\ Fail("R", <<>>, {}, "parse")
        /\ UNCHANGED <<config, nonce, pins, sender, receiver>>

\* The user selects files: a token is made for each.
Select ==
    /\ pc["R"] = "select"
    /\ \E fs \in Selections :
          /\ fs = {} => "selectNone" \in faults
          /\ selected' = fs
          /\ Proceed("R", 0, InChunks(Str("ok", fs)), {}, "files")
    /\ UNCHANGED <<config, nonce, buf, pins, sender, open, got, answer, fileErrors>>

\* The user declines; the connection is closed without waiting for the
\* message to leave.
Decline ==
    /\ pc["R"] = "select"
    /\ Complete("R", InChunks(Str("declined", {})), {})
    /\ UNCHANGED <<config, nonce, buf, pins, sender, receiver>>

\* The app drops the selection channel: the task returns without a word.
DropSelection ==
    /\ GiveUp
    /\ pc["R"] = "select"
    /\ Complete("R", <<>>, {})
    /\ UNCHANGED <<config, nonce, buf, pins, sender, receiver>>

\* A text message ends the open file: its result comes from the app and is
\* sent to the sender.
Result(f, ok) == <<Text(IF ok THEN "success" ELSE "failure", f)>>
AnswerOpen(ok) ==
    answer' = [f \in Files |-> IF f = open THEN (IF ok THEN "success" ELSE "failure")
                                           ELSE answer[f]]

\* The delimiter ends the transfer when a file is open.
ReceiveEnd ==
    /\ Ended("R", "files") /\ open # None
    /\ Arrived("R") = Delimiter
    /\ \E ok \in BOOLEAN : AnswerOpen(ok) /\ Complete("R", Result(open, ok), {})
    /\ open' = None
    /\ UNCHANGED <<config, nonce, buf, pins, sender, selected, got, fileErrors>>

\* A header ends the open file, if there is one, and opens the next.
ReceiveHeader ==
    LET m == Arrived("R")
    IN  /\ Ended("R", "files")
        /\ m.k = "header"
        /\ \E ok \in BOOLEAN :
              /\ AnswerOpen(ok)
              /\ Proceed("R", 1, IF open = None THEN <<>> ELSE Result(open, ok), {}, "files")
        /\ open' = IF pc'["R"] = "files" /\ m.v \in selected THEN m.v ELSE None
        /\ fileErrors' = fileErrors \cup (IF pc'["R"] = "files" THEN {m.v} \ selected ELSE {})
        /\ UNCHANGED <<config, nonce, buf, pins, sender, selected, got>>

\* Any other text is not a header: with no open file, that is the delimiter too.
ReceiveBadHeader ==
    /\ Ended("R", "files")
    /\ Arrived("R").k # "header"
    /\ open = None \/ Arrived("R") # Delimiter
    /\ \E ok \in BOOLEAN :
          /\ AnswerOpen(ok)
          /\ Fail("R", IF open = None THEN <<>> ELSE Result(open, ok), {}, "parse")
    /\ open' = None
    /\ UNCHANGED <<config, nonce, buf, pins, sender, selected, got, fileErrors>>

\* Binary data goes to the app as part of the open file.
ReceiveBinary ==
    /\ Receives("R", "files") /\ ~IsString(Arrived("R"))
    /\ \/ /\ open # None
          /\ got' = [got EXCEPT ![open] = @ \o Arrived("R").data]
          /\ Proceed("R", 1, <<>>, {}, "files")
          /\ UNCHANGED fileErrors
       \/ /\ GiveUp /\ open # None                 \* the app dropped binary_rx
          /\ Fail("R", <<>>, {}, "app")
          /\ UNCHANGED <<got, fileErrors>>
       \/ /\ open = None
          /\ fileErrors' = fileErrors \cup {None}
          /\ Proceed("R", 1, <<>>, {}, "files")
          /\ UNCHANGED got
    /\ UNCHANGED <<config, nonce, buf, pins, sender, selected, open, answer>>

----------------------------------------------------------------------------
(* The outer tasks *)

\* Mutant: only a failing network is noticed.
LostByNetwork(p) == NetFail

\* RTCPeerConnectionState::Disconnected is reported to p.
Lost(p) == end[Other(p)] = "finished" \/ NetFail

\* The peer connection becomes Disconnected because the other peer closed it
\* or the network failed.  The outer task reports Finished and closes; the
\* inner task is left running.  What has not arrived yet may be lost.
Disconnect(p) ==
    /\ Running(p)
    /\ Lost(p)
    /\ end' = [end EXCEPT ![p] = "finished"]
    /\ told' = [told EXCEPT ![p] = @ \cup {"Finished"}]
    /\ \E n \in 0..Len(q[p]), m \in 0..Len(q[Other(p)]) :
          q' = [q EXCEPT ![p] = SubSeq(@, 1, n), ![Other(p)] = SubSeq(@, 1, m)]
    /\ UNCHANGED <<config, nonce, pc, outcome, buf, pins, sender, receiver>>

----------------------------------------------------------------------------
(* Specification *)

Init ==
    /\ \E s \in Scenarios : pin = s.pin /\ expect = s.expect /\ faults = s.faults
    /\ nonce = [p \in Peers |-> None]
    /\ pc = [p \in Peers |-> IF p = "S" THEN "start" ELSE "nonce"]
    /\ q = [p \in Peers |-> <<>>]
    /\ buf = [p \in Peers |-> <<>>]
    /\ tries = [p \in Peers |-> 0]
    /\ typed = [p \in Peers |-> {}]
    /\ end = [p \in Peers |-> "running"]
    /\ told = [p \in Peers |-> {"SdpExchanged"}]
    /\ outcome = [p \in Peers |-> "none"]
    /\ fileMap = {} /\ given = {} /\ cur = None /\ sbuf = <<>>
    /\ read = [f \in Files |-> 0]
    /\ selected = {} /\ open = None /\ fileErrors = {}
    /\ got = [f \in Files |-> <<>>]
    /\ answer = [f \in Files |-> "none"]

SendTask ==
    \/ SendNonce \/ SendToken \/ HandleTokenResponse \/ HandlePinReceivingResponse
    \/ HandleFileListResponse \/ SendHeader \/ SendChunks \/ SendRest \/ SendEnd
    \/ AwaitStatus

ReceiveTask ==
    \/ ReceiveNonce \/ HandleTokenRequest \/ HandlePinSendingResponse \/ Select
    \/ Decline \/ DropSelection \/ ReceiveEnd \/ ReceiveHeader \/ ReceiveBadHeader
    \/ ReceiveBinary

PinTask(p) == ReceiveChunk(p) \/ VerifyPin(p) \/ EnterPin(p) \/ DropPinRequest(p)

Next ==
    \/ SendTask
    \/ ReceiveTask
    \/ \E p \in Peers : PinTask(p) \/ Disconnect(p)

Spec == Init /\ [][Next]_vars

\* Both runtimes run their tasks, both users answer, and a peer notices that
\* the other one closed the connection.
FairSpec ==
    /\ Spec
    /\ WF_vars(SendTask)
    /\ WF_vars(ReceiveTask)
    /\ \A p \in Peers : WF_vars(PinTask(p)) /\ WF_vars(Disconnect(p))

----------------------------------------------------------------------------
(* Properties *)

SPcs == {"start", "nonce", "token", "askPin", "pinRes", "verify", "selection",
         "sending", "status", "dead"}
RPcs == {"nonce", "token", "askPin", "pinRes", "verify", "list", "select", "files",
         "dead"}
Statuses == {"SdpExchanged", "PinRequired", "Connected", "TooManyAttempts",
             "Declined", "Finished", "Error"}
Kinds == {"nonce", "token", "tokenRes", "pin", "pinRes", "header", "success",
          "failure", "delimiter", "bin"}

\* Every variable has its type; in particular no task is at a control point
\* of the other one, and nothing that is not a message is queued.
TypeOK ==
    /\ [pin |-> pin, expect |-> expect, faults |-> faults] \in Scenarios
    /\ \A p \in Peers : nonce[p] # None => validate_nonce(nonce[p])
    /\ pc["S"] \in SPcs /\ pc["R"] \in RPcs
    /\ \A p \in Peers : \A i \in 1..Len(q[p]) : q[p][i].k \in Kinds
    /\ tries \in [Peers -> Nat]
    /\ typed \in [Peers -> SUBSET Guesses]
    /\ end \in [Peers -> {"running", "finished", "failed"}]
    /\ told \in [Peers -> SUBSET Statuses]
    /\ fileMap \subseteq Files /\ given \subseteq Files /\ selected \subseteq Files
    /\ cur \in Files \cup {None} /\ open \in Files \cup {None}
    /\ read \in [Files -> Nat]
    /\ fileErrors \subseteq Files \cup {None}
    /\ answer \in [Files -> {"none", "success", "failure"}]

\* The PIN of p has been typed at the other peer, or p asks for none.
Unlocked(p) == pin[p] \in {NoPin, EmptyPin} \cup typed[Other(p)]

\* The receiver sees the file list, and may select from it, only when each
\* user who set a PIN had it typed by the other one (webrtc.rs:295-393).
PinGate ==
    "Connected" \in told["S"] \/ "Connected" \in told["R"] =>
        /\ Unlocked("S")
        /\ Unlocked("R")
        /\ \A p \in Peers : expect[p] \in {None, SigningKey(Other(p))}

\* A peer whose app asked for the other peer's very key accepts its token: both
\* put the nonces together in the same order, and each checks the token against
\* the nonce it has itself (webrtc.rs:236-246, 678-692).
RightKeyAccepted ==
    \A p \in Peers :
        /\ outcome[p] = "untrusted" => expect[p] # SigningKey(Other(p))
        /\ outcome[p] = "rejected" => expect[Other(p)] # SigningKey(p)

\* verify_pin consumes at most max_tries PINs, and a peer that rejected that
\* many has failed: no later PIN is looked at.
TriesBounded ==
    \A p \in Peers :
        /\ tries[p] <= MaxTries
        /\ tries[p] = MaxTries /\ pc[p] = "verify" => MaxTries = 0

\* The two inner tasks never wait for each other: while both outer tasks run,
\* a peer that waits for a message has one on its way or the other peer is
\* about to do something (the order of receives and sends of the two tasks).
Waits(p) ==
    /\ pc[p] \in {"nonce", "token", "pinRes", "verify", "selection", "list", "files", "status"}
    /\ q[p] = <<>>
NeverBothWait ==
    ~(Running("S") /\ Running("R") /\ Waits("S") /\ Waits("R"))

\* PINs that the protocol can do with.  A receiver with the PIN "" is satisfied
\* before it is sent one, and meets the sender's PIN where it waits for the list;
\* a sender that grants no try refuses the receiver at its list, where the receiver
\* does not expect it (webrtc.rs:1187-1207, 818-824).
UsablePins == pin["R"] # EmptyPin /\ (MaxTries > 0 \/ pin["S"] \in {NoPin, EmptyPin})

\* As long as the apps play along and select something, and the PINs are usable,
\* neither task ever meets a message it does not expect at its control point, also
\* when the network fails.  (An empty selection makes the receiver take the
\* delimiter for a header.)
NoParseError ==
    faults \subseteq {"netFail"} /\ UsablePins =>
        \A p \in Peers : outcome[p] \notin {"parse", "unexpected"}

\* What the receiver passed to its app for a file is a prefix of the file, and
\* once it reported success it is all that the sender's app had produced,
\* although binary messages carry no file id and chunks are cut anew.
FileIntegrity ==
    \A f \in Files :
        /\ IsPrefix(got[f], Content(f))
        /\ answer[f] # "none" => Len(got[f]) = read[f] /\ f # cur
        /\ got[f] # <<>> => f \in selected

\* Nothing the sender sends is refused by the receiver: every header names a
\* selected file and all binary data follows a header.
NoStrayData == fileErrors = {}

\* A sender that completes by itself has its last status: every file it sent
\* was answered by the receiver ("Wait for the last status to be sent",
\* webrtc.rs:913).
CompletedMeansAnswered ==
    outcome["S"] = "completed" => \A f \in fileMap \cap given : answer[f] # "none"

\* With a single file the status the sender waits for is the last one, also when
\* the connection is lost around it or an app gives up.
SingleFileAnswered == Cardinality(fileMap \cap given) = 1 => CompletedMeansAnswered

\* Both functions return when the tokens are accepted, the PINs are usable, nobody
\* gives up and the network works (webrtc.rs:602-625, 1027-1048).
Cooperative ==
    faults = {} /\ UsablePins /\ \A p \in Peers : expect[p] \in {None, SigningKey(Other(p))}
BothEnd == Cooperative ~> \A p \in Peers : ~Running(p)
=============================================================================
