# A TLA+ verification of xclouseau

xclouseau is a fork of LocalSend that adds remote terminals. Devices find each
other by multicast, by scanning the network or through a *signaling server*;
they exchange files over HTTP in the local network or over a WebRTC data
channel that the signaling server helps to set up; and a paired device may open
a terminal of another one over a websocket.

This directory models the parts of the program in which the difficulty is in
the order of events, checks them with TLC on small instances, and proves the
most important invariants with TLAPS for every value of the constants.
`PROJECT.json` lists the components, runs, hazards, findings and theorems and
maps every definition to the lines it translates. Paths below are relative to
the root of the repository.

## 1. Inventory

| Component | State | Operations | What is hard | What makes it correct |
|---|---|---|---|---|
| **Signaling server** `server/src` | `tx_map` (IP group -> peer id -> channel and client info), `request_count_map`, one bounded channel per peer, three tasks per connection | connect, update, offer, answer, disconnect, hourly reset | the lock is released between deciding whom to tell and telling them; sends block on full channels; `abort` takes effect later | nobody misses anybody, no traffic between IP groups, the limit holds, a dead connection leaves, Hello arrives |
| **Device roster** `app/lib/provider/network/webrtc/signaling_provider.dart`, `nearby_devices_provider.dart` | devices per fingerprint | register, unregister on each server message | depends on the order in which messages arrive | lists the peers that are there, with their current info |
| **WebRTC transfer** `core/src/webrtc/webrtc.rs` | control of two sequential tasks, chunk buffers, PIN tries, tokens of the selected files | nonce and token exchange, two PIN challenges, file list, selection, content, statuses | a strict alternation of sends and receives; close racing the last messages; content without file ids | no file list without both PINs, the tasks never wait for each other, content whole and in order, both sides return |
| **Signaling client** `core/src/webrtc/signaling.rs` | writing, reading and listening task, channels of 1, 1 and 16, pending answer callbacks | connect, send, register callback, pass on | one task both delivers Hello to `connect` and feeds a channel nobody reads before; a callback registered after the offer was sent | connect returns; each answer reaches the call that waits for it, and only that |
| **FFI** `app/rust/src/api/webrtc.rs`, the wire functions of `frb_generated.rs`, `util/bytes.rs` | the lock of a controller, one-shot slots for streams, selection and PIN, channels of 1 | the calls Dart makes, at any time and at the same time | a slot filled by a task of its own, a controller locked by an endless stream | a PIN answers the request that waits, selection or refusal but not both, the end is told, content is whole |
| **HTTP receive** `.../controller/receive_controller.dart`, `common.dart` | the single receive session, PIN attempts | prepare-upload, upload, cancel, accept, decline | awaits between the check of the session and its change | one session at a time, no effect on a later session |
| **HTTP send** `send_provider.dart`, `send_controller.dart` | send sessions by id | start, upload, cancel, close | a cancel while a request is under way | a cancelled session stays cancelled |
| **HTTP server lifecycle** `server_provider.dart` | the running server | start, stop, restart | check, bind, write | at most one server |
| **Terminal host** `terminal_controller.dart`, `terminal_provider.dart`, `terminal_viewers_provider.dart` | live terminals, viewers by session | create, attach, input, resize, close | exit of a process racing a new terminal with its id | output reaches the viewers of its session only; viewers learn of the end |
| **Pairing and approval** `terminal_access_provider.dart`, `terminal_approval_provider.dart`, `pairing_controller.dart` | paired devices, active PIN, pending approvals | pair, unpair, approve, expire | list computed before an await and written after | an unpaired device has no access, one PIN pairs one device |
| **Remote terminal client** `remote_terminal_provider.dart` | connection, attempts | connect, disconnect, reconnect | a socket that opens after the disconnect | no connection survives a disconnect, retries are bounded |
| **Projects and tabs** `project_provider.dart` | projects, sessions, closed tabs, the saved copy | add, remove, close, restore | read, await the save, write | no lost update, no lost tab |
| **Discovery** `nearby_devices_provider.dart`, `scan_facade.dart` | devices, last seen | register, expire, clear | await between two writes | what is not seen expires |
| **Tokens and nonces** `core/src/crypto` | none | generate, verify | unsigned time arithmetic; two nonces put together by two peers | exactly the right key, nonce and hour are accepted |
| **HTTP core library** `core/src/http` | two listeners, two nonce maps on either side | start, stop, nonce, register, prepare-upload, upload, cancel | two maps with two mutexes; stores before the answer arrives; listeners that fail alone | the maps describe the same exchanges, Ok means served, calls return |
| **Demo** `core/src/main.rs` | a message loop | offer to whoever joins, accept offers | it reads no messages during a transfer | a second consumer under which the client library must work |

The web preview proxy, the isolates that run uploads, the user interface,
settings, history, platform folders and generated bindings have no protocol of
their own; they are listed in `PROJECT.json` with the reason they are left out.

How the parts interact. The app connects to the server through the signaling
client; the server's messages feed the device roster and, for offers and
answers, the WebRTC transfer. A transfer talks to its app over channels: it
asks for a PIN, shows the file list, takes a selection, reports statuses. The
HTTP server of the app dispatches to the receive, terminal and pairing
controllers, which share the app's providers.

The models follow these seams. `RtcSignaling` extends `SignalingRoom`, the
abstract server that `SignalingServer` is shown to implement, so the client is
checked against what the server really guarantees. `RtcTransfer` and `HttpCore`
extend `Token`. `RtcControllers` sees the tasks of `RtcTransfer` through the
channels between them.

## 2. Plan

| # | Module | What it covers | Composes | State |
|---|---|---|---|---|
| 1 | `SignalingServer` | the server and the roster its clients build | server tasks, channels, clients | modelled, checked, six theorems |
| 2 | `SignalingRoom`, `SignalingRefinement` | what the server promises, and that it keeps it | - | checked, the refinement proved |
| 3 | `RtcSignaling` | signaling client, SDP exchange, FFI connection, demo | the room of module 2 and its clients | modelled, checked, two theorems |
| 4 | `RtcTransfer`, `Token` | both ends of a WebRTC transfer; tokens and nonces | two peers, two queues, the network | modelled, checked; nine theorems, and two about `Token` |
| 5 | `FileTransfer`, `RtcRefinement` | what a transfer promises its two users, and that it keeps it | - | checked, the refinement proved |
| 6 | `RtcControllers` | the FFI controllers under concurrent calls | bridge, controllers, core tasks | modelled, checked, five theorems |
| 7 | `HttpCore` | the HTTP library of the core | server, clients, network | modelled, checked, four theorems |
| 8 | `HttpReceive`, `HttpSend` | the app's upload protocol over the single session, server lifecycle | composed over lost or delayed requests | planned |
| 9 | `TerminalAccess`, `RemoteTerminal` | pairing, approval, attach, viewers; connect and reconnect | host and client over one socket | planned |
| 10 | `ProjectState`, `NearbyDevices` | projects and closed tabs with asynchronous saves; expiry | provider and disk | planned |

Every safety property that a passing run checks is also a theorem. Two
abstract specifications are implemented: the room by the server, and the file transfer
by the WebRTC transfer. The second is worth instantiating again for the HTTP upload.

## 3. Modules

### SignalingServer

Each websocket connection is a process. Its control point `pc` follows
`handle_socket`:

    idle --Accept--> joining --SendHello--> serving --SelectExit--> closing --Disconnect--> leaving
      \--Reject--> rejected

* `Accept` is the critical section of lines 104-143: limit, request count,
  snapshot of the peers, insertion. What follows the unlock are steps of their
  own: one `SendJoin` per peer, in any order of the hash map, then `SendHello`.
* `SendTaskWrite`, `SendTaskBreak`: the task that drains the channel.
* `RecvUpdate`, `RecvSdp`, `RecvOverLimit` are the part of the reading task up to
  the unlock; `SendOut` is each of its sends.
* `SelectExit` is the `select!` on both tasks. `abort` is a request: the aborted
  task may take more steps before `SendTaskCancelled` or `RecvTaskCancelled`.
* `Disconnect` removes the peer and, if it was the last, its group; `SendLeft`
  tells the others.
* `ClearRequests` is the hourly job, `ClientClose` the environment.

A channel is a sequence of at most `ChanCap` messages; a send to a full one
waits (`CanPush`), a send to a dropped receiver is ignored (`Pushed`).

`get_ip_group` keeps what the code keeps: a whole IPv4 address, the /64 of an
IPv6 one. The client's end of the socket is its roster, updated by `Register`
and `Unregister` as the Dart actions do, including the grouping by fingerprint.

Abstracted: SDP texts, aliases and device models (an *info* is a model value
with a token), query decoding and pings. A uuid is the connection's own
identity, so ids are never reused.

### SignalingRoom and SignalingRefinement

`SignalingRoom` has no locks, tasks or snapshots. Entering a room *owes* one Join to
everybody present and a Hello to the newcomer; leaving owes one Left to everybody
who remains; each debt is paid once, in any order, into bounded mailboxes; what a
peer posts itself reaches peers of its room only. `SignalingRefinement` maps the
server to it: `present` is `tx_map`, `owed` is what the handlers still have on
their lists after the unlock, a mailbox is a channel, closed when its receiver is
dropped. `ImplementsRoom` says that every step of the server is a step of the room
or none: in particular a handler that works from a stale snapshot tells nobody
twice, forgets nobody, and posts its Hello after its Joins.

### RtcSignaling

Per client: `Connect`, `ReadHello`, `ReadMessage`, `ConnectReturns` and
`ConnectPanics` are `SignalingConnection::connect` and its two tasks;
`ListenerTake`, `ListenerForward` and `ListenerPanics` the listener; `FfiMessage`
the loop of the FFI and the app behind it, `DemoMessage` and `DemoReturns` the
loop of the demo, which reads nothing while a transfer runs and drops its receiver
when it returns. Per session: `NewOffer`, `SendOffer`, `RegisterCallback` follow
`send_offer` up to the data channel, `SendAnswer` and `AnswerImpossible` follow
`accept_offer`. The server's part is `SignalingRoom`'s; `SocketLost` loses all that
is under way in either direction. An app whose key is refused by
`parse_private_key` ends its message loop at the first offer (`BadKeys`).

### RtcTransfer

The two peers `"S"` (send_offer) and `"R"` (accept_offer) each have an *inner*
task that speaks the protocol (`pc`) and an *outer* one that waits for the inner
task or for the Disconnected state, whichever comes first (`end`). An inner task
whose outer task was woken by Disconnected is left running, as in the code.

A step is one message, or one answer of the user, with all that the task sends
until it waits again: the code between two awaits that depend on the other peer.
Strings sent with `send_string_in_chunks` are `StrChunks` binary messages and a
delimiter, and parse only if exactly their pieces were collected. File content
is a sequence of units `<<file, index>>`; the app hands it over in pieces of any
size and `process_in_chunks` cuts it anew (`FullChunks`, `Leftover`), so
that mixing, loss and reordering of content are visible in `got`.

`Proceed`, `Fail` and `Complete` are the three ways a step of a task can end: go
on, return an error, return normally. Each contains all effects on the queues,
the statuses told to the app and the outer task.

Assumptions about what is not in the repository (the webrtc crate): the data
channel is reliable and ordered; closing a connection may lose any suffix of
what is under way; a send on a channel closed by this peer fails, on one closed
by the other peer it may fail or be lost; a connection whose function returned
an error without closing it is not closed by anybody else.

Nonces and tokens are values of module `Token`: each peer concatenates the two
nonces as the code does (`SenderNonce`, `ReceiverNonce`), signs the result and,
if it expects a key, verifies the other's token over its own nonce.

Not in the module: the SDP exchange before the channel opens (`RtcSignaling`),
the sender's answer to a pairing request (webrtc.rs:408-470: no receiver in this
repository sends one), and the moment between the announcement of the data
channel and the registration of its message handler.

### FileTransfer and RtcRefinement

`FileTransfer` has no messages, tasks, chunks or connections. A PIN is a lock, open
once the other user has typed it; the list is shown only when no lock is left and the
keys are right; the receiver chooses from it once; the sender hands over chosen files
one after the other, each of them once, and produces the content of the one at hand;
what has arrived of a file is the beginning of its content and never more than was
produced; a file is reported on once, when the sender is through with it and all that
was produced has arrived, and nothing arrives of it afterwards. `RtcRefinement` maps
`RtcTransfer` to it. A file that the sender is given without holding a token for it is
skipped, so what is handed over is `Accepted`; the list has been shown when the
receiver's app was told `Connected`. `ImplementsTransfer` says that every step of the
two peers is one of those steps or none. It says more than the invariants do: those
speak of one state, this also of what a step may never do, such as showing the list
first and opening a lock later, changing the selection, sending a file again, or
delivering content behind a report. A transfer may stop anywhere: that it ends is
`BothEnd`.

### Token

Operators, without state: `generate_token_nonce`, `generate_token_timestamp`,
`verify_token_with_result` with its checks in their order, `verify_token_nonce` and
`verify_token_timestamp`, whose age is computed modulo `U64` (2^64 in the program).
SHA-256 is taken as injective, a signature as something only its key can make.
`TimestampWindow` has no run: only a test verifies a time-stamped token, so no action
of a model does; it is proved.

### RtcControllers

One end of a transfer as the app sees it; `side` says which. Every call of the app
is one of the wire functions of the bridge, all of the form `Wire(op, mode, enter,
step)`: wait for the controller's fair read-write lock, enter the method, keep the
lock until it has returned. A stream is a method that runs until its channel is
closed. `Listen`, `Take`, `send_pin`, `Choose` and the rest are the bodies. Behind
them run the task that moves PIN requests into the controller (`PinTask`), the inner
task (`VerifyPin`, `HandlePin`, `Connected`, `Selected`, `SendFiles`, `ShowFiles`,
`ReceiveFiles`), reduced to what it does with the channels, the remote peer being a
choice, and the outer task (`Outer`): the exchange of descriptions, which may fail
before and after `SdpExchanged`, and the `select!` (`AwaitEnd`) on the end of the inner
task and on the loss of the connection (`Disconnect`). A loss wakes only the outer
task. The inner one may take what is in its channel, and may wait for the rest for
ever: the sender of that channel lives in a closure of the data channel that the
task itself keeps alive. `Freed` is the drop of the controller, which closes its ends of the channels: the app has disposed of its
handle and no call holds one. One file is transferred, in units, through
`buffer_receiver` on the receiving side.

### HttpCore

`Bind`, `ListenerFails` and `Stop` are the listeners and the `select!` of
`start_with_port`. A call of a client is a record with a state of its own: `Request`
connects and sends, `NotFound`, `register`, `RejectNonce`, `StoreNonce` and
`GenerateNonce` are the handlers, split where they wait for a mutex; `Return`,
`SaveReceived` and `SaveGenerated` are the client's side. `ConnectionBreaks` ends a
call at any point while the handler goes on. A response is its status and what its body
can be parsed as: `register` of the client looks at the body only, the other calls at
the status first. A setup says whether there is TLS,
whose certificate has expired, which clients share an address, whether calls of a
client overlap, connections break or listeners fail; clients in `Foreign` are not
this library and send what they like. hyper may also drop a handler whose client
is gone; that it could do so between the two maps is not modelled.

### MC modules

`MCSignalingServer` gives addresses and tokens (one IPv4 address, a proxy with
two networks, one IPv6 /64); `MCRtcTransfer` gives files, sizes, selections, keys
and faults; `MCRtcSignaling` one room; `MCHttpCore` setups and foreign requests.
`RtcControllers` needs none.

## 4. Runs

Passing:

| Run | Instance | Shows |
|---|---|---|
| `signaling_roster` (about 290 000 states) | three connections of one group, limit two, channels of two | `TypeOK`; `ConnectionLimit`; `NoMissingPeer`: each of two members lists the other, or the message that will make it do so is queued or still to be sent; `JoinThenLeft`: a Join of a departed peer has a Left behind it; `ImplementsRoom` |
| `signaling_updates` (3.4 million) | two connections, two infos with one token, updates | `UpdateNotLost`: the last announcement on its way to a peer is the current info of the other |
| `signaling_isolation` (212 000) | two networks behind one proxy, all kinds of requests to any id | `RoomIsolation` |
| `signaling_liveness` (100 000) | two connections, updates and offers, channels of one, so that handlers and tasks block in sends; either socket breaks; `FairSpec` | `ImplementsRoom` with requests: what room mates relay to each other crosses with Joins, Hellos and Lefts, comes only from a peer whose own Hello is queued, and costs nobody a message that is owed; `HelloUnlessBlocked`: an accepted client gets its Hello, and `GoneLeavesRoom`: a dead connection leaves, both unless a peer of the room hangs before its own Hello |
| `rtc_transfer` (165 000) | two files of a chunk and a rest and of a full chunk, no, empty and real PINs and expected keys on either side, two tries; users who give up, select nothing, or cooperate, and a network that fails or not; `FairSpec` | `PinGate`, `RightKeyAccepted`, `TriesBounded`, `NeverBothWait`, `NoParseError`, `FileIntegrity`, `NoStrayData`, `SingleFileAnswered`, `BothEnd`, `ImplementsTransfer` |
| `rtc_signaling` (419 000) | an app that offers and accepts and the demo, two sessions, three calls, all channels of one; either socket lost at any point where at most one call was made, a key that may be refused, updates; `FairSpec` | `AnswerMatchesOffer`: a call goes on with the answer to its own offer and no callback outlives its call; `AnswerArrives`: full channels hold an answer up only behind a demo that is stuck |
| `rtc_controllers` (801 000, both sides) | every call at any time, a PIN asked for twice, a file larger than the buffer, lost connections, disposal; `FairSpec` | `PinAnswersRequest`, `SelectionObeyed`, `EndIsTold`, `ContentWhole`, `ReceiveEnds` |
| `http_core` (295 000) | two clients of the library and a foreign one, three calls, maps of two entries, four setups; `FairSpec` | `MapsAgree`, `InSync`, `OkMeansServed`, `CallEnds` |

Violations, each a disagreement between the code and a sentence of the
repository (quoted under `findings`):

| Run | What happens |
|---|---|
| `signaling_hello_blocked` | With the code's capacity of four, updates of another peer fill the channel of a peer whose own Hello is not yet queued; the task that drains the channel is spawned only after that Hello, so the handler waits for ever. |
| `rtc_connect_blocked` | Two peers that connect at the same time as a third put their Joins ahead of its Hello; the third one's reading task blocks on the second Join, in a channel of one that is read only after `connect` has had its Hello. |
| `rtc_last_status` | With two files the sender takes the status of the first for the last one, reports Finished and closes before the second was answered. |
| `rtc_sender_listens` | The stream of the sender's statuses holds the controller's write lock until the transfer ends, and the transfer ends when the controller is dropped: it never does, and nothing can be sent meanwhile. |

**Bounds.** All properties of the server are about pairs of peers of a group
and a third that disturbs them; three connections with a limit of two include
rejection, a full channel (capacity two), and every crossing of two joins and a
leave. Channel capacities below the code's four make blocking happen with fewer
messages; the finding on Hello uses four itself. In
`signaling_liveness` two connections and channels of one make every message meet a full
channel, also one whose reader is gone while its sender waits. Request limits of one to five
make the limit be met. In a transfer two files suffice for everything that can
go wrong between a file and the next; three units and chunks of two give a full
chunk, a rest and every cut between them; strings of two chunks distinguish a
missing chunk from a missing delimiter; two tries distinguish the first, the
last and one too many.

In `rtc_signaling` all channels have room for one message instead of up to 16, so that
three calls fill them: the demo, which does not read during a transfer, blocks its
listener, its reading task and the server, also for good (`DemoStuck`, without which
`AnswerArrives` is violated); two sessions are enough for two offers to cross.
Behaviours that lose a socket make one call (`MaxLossyCalls`), the others three: with
two peers a loss ends the session of either, so more calls add nothing but states.
`rtc_connect_blocked` uses the code's capacities. In `rtc_controllers` all channels of capacity one have it;
two PIN requests are a request and a retry; three units and a buffer of two give a
full buffer and a rest. In `http_core` three calls over maps of two entries evict
one, and three handlers at once are one more than can be between the two locks.

**Deadlock.** Connections are served once and a transfer ends, so all runs end
in states without successors; the waiting that must not happen is stated as
`NeverBothWait`, `BothEnd`, `HelloUnlessBlocked`, `GoneLeavesRoom`, `AnswerArrives`,
`ReceiveEnds` and `CallEnds` instead.

**Fairness.** Server: tokio runs every ready task (weak fairness of the steps of
both tasks and of the handler); its channels serve waiting senders in order, so
a blocked send is not overtaken for ever (strong fairness of the sends). The
client is assumed to read its socket while it is open. Connecting, making
requests, closing and the hourly job are not forced. Transfer: both runtimes run
their tasks, users answer, the app hands over the files that were selected, and
a peer notices that the other one closed. The network's failure is not forced.
Signaling client: the runtimes run the tasks of each client and the server serves;
nobody has to connect, offer or update. Controllers: tokio runs the tasks and the
bridge its calls; the app listens to all streams, types a PIN when asked, selects,
reads and reports, and a sending app disposes of its controller after its file;
declining, failing and losing the connection are not forced. The inner task, whose
steps include those of the remote peer, is forced to go on only while the connection is
there (`link = "open"`): `ReceiveEnds` therefore promises that the app is told of the
end, but the end of the stream of statuses only where no connection was lost. HTTP: both runtimes run handlers and calls and
tokio's mutexes are handed on in order; no request has to be made.

Every property of a passing run has a mutant: a definition of the model changed
as a plausible bug would change the code (an off-by-one limit, a guard dropped, a
buffer cleared, a status not awaited), defined beside the original, under which
TLC finds the property violated.

## 5. Proofs

`SignalingServerProofs` proves, for any finite set of connections, any
addresses, infos, limits and channel capacity:

| Theorem | Statement | Inductive invariant |
|---|---|---|
| `TypeCorrect` | `Spec => []TypeOK` | `TypeInv`: `TypeOK` and `SendingHasTarget`, needed because `SendOut` takes the head of its targets |
| `LimitHolds` | `Spec => []ConnectionLimit` | with `TypeInv` and `MembersByControl`: only a handler that is `idle` inserts, so it inserts somebody new and the group grows by one |
| `RoomsAreIsolated` | `Spec => []RoomIsolation` | `IsolationInv`: also `PendingIsolated` (what is still to be sent stays in the group) and `OutIsOwn` (a task sends in its own name) |
| `NobodyIsMissed` | `Spec => []NoMissingPeer` | `RosterInv` with `IsolationInv`: also `LeftMeansGone` (a queued Left names a peer whose handler is past its removal, so it cannot erase a member), `NoneBeforeServing` and `MembersByControl` |

The argument of `NobodyIsMissed`: when the second of two peers is inserted, the
first is in its snapshot and it is on the first one's list of those to be told, both
in the same critical section. From then on each link of the chain (to be sent,
queued, applied) is handed to the next by one step, and the only step that
removes an entry from a roster is a Left, which by `LeftMeansGone` is not about a
member. The chain breaks only when the receiving task is over, which the
property excepts.

It also proves the refinement, and `SignalingDeliveryProofs` extends it with the order
of what is queued:

| Theorem | Statement | Inductive invariant |
|---|---|---|
| `ServerImplementsRoom` | `Spec => ImplementsRoom`: every step is a step of `SignalingRoom` under the mapping of `SignalingRefinement`, or leaves the room as it is | `RefinementInv`: the invariants above with `TodoOnce` (a handler has each peer to tell once, else the room's set of those owed a message would shrink twice), `TasksAfterHello` and `ErrorToSelf` (an Error is no message of the room) |
| `JoinsAreSettled` | `Spec => []JoinThenLeft` | `SettledInv`, about all pairs of a member and somebody who is none: what is queued for the member ends with the Left, or the Left is still to be sent; with `EnteredInv` (nobody sends to or about a connection that has not entered) and `LeftMeansGone` |
| `UpdatesArrive` | `Spec => []UpdateNotLost` | `DeliveryInv`: also `JoiningIsCurrent`, `UpdateIsCurrent` (what a task is still sending is the info of `tx_map`) and `HelloIsSnapshot` |

The room's set of peers that are owed a message is the union of what each handler
has left to tell (`OwedBy`); a send removes one element of one of these sets,
which is the step of the room. `UpdatesArrive` looks at the last announcement of a
peer in a queue: a send puts the current info last, a receive either takes an older
announcement or applies the last one.

The assumptions are the named ones of the module: finitely many connections, at
least one info, natural limits, positive capacity.

`RtcSignalingProofs` proves, for any peers, rooms, sessions and capacities, any
number of calls and lost messages:

| Theorem | Statement | Inductive invariant |
|---|---|---|
| `TypeCorrect` | `Spec => []TypeOK` | `TypeInv` |
| `AnswerCorrect` | `Spec => []AnswerMatchesOffer` | with `MessageInv` (an offer on its way is that of its caller to its target, an answer comes from the target and goes to the caller) and `OnceInv` (an offer is at one of its stations only: written, in the mailbox, in the reader's channel, in its hand, in the listener's channel; so no target accepts it twice) |

The named assumptions say that capacities are positive and that `None` is no
message.

`RtcControllersProofs` proves, for any number of PIN requests, any length of the
file and any buffer sizes:

| Theorem | Statement | Inductive invariant |
|---|---|---|
| `TypeCorrect` | `Spec => []TypeOK` | `TypeInv` |
| `PinsCorrect` | `Spec => []PinAnswersRequest` | `PinInv`: while the inner task waits its request is in exactly one of channel, slot and answer, otherwise in none |
| `SelectionCorrect` | `Spec => []SelectionObeyed` | `SelectionInv`: the oneshot carries the call that was accepted, and only files make the task go on |
| `EndCorrect` | `Spec => []EndIsTold` | `EndInv`: an outer task that is over has its last status in the channel or shown, and the listener is there until then |
| `ContentCorrect` | `Spec => []ContentWhole` | `ContentInv`: what came out, the buffer and the channel are one run of units |

`HttpCoreProofs` proves, for any clients, any number of calls, any capacity of the
maps and all setups:

| Theorem | Statement | Inductive invariant |
|---|---|---|
| `TypeCorrect` | `Spec => []TypeOK` | `CallTypes`, `CacheInv` |
| `MapsCorrect` | `Spec => []MapsAgree` | `ServerMaps`, `ClientMaps`: inside the critical section the second map is exactly one `Put` behind, outside they are equal, in the order of their entries too, so that both evict the same one |
| `SyncCorrect` | `Spec => []InSync` | `SyncInv`: for a client whose calls do not overlap and are not disturbed, the server's entry is that of the exchange under way, or of the last one |
| `OkCorrect` | `Spec => [][...]`, the action property `OkMeansServed` | `AnswerInv`: a 200 is on its way only for a call whose route has a handler in this setup |

The lemmas about the cache (`PutIs`, `WithoutIs`, `EntriesOfPut`) say what the LRU
operations do to the entries of a key and to those of others.

`RtcTransferProofs` proves, for any files and sizes, any size of chunks, PINs,
keys, selections and number of tries, whatever the apps do and wherever the
connection is lost:

| Theorem | Statement | Inductive invariant |
|---|---|---|
| `TypeCorrect` | `Spec => []TypeOK` | `TaskTypes`, `FileTypes`: also that every queued message is one of the protocol with the value that belongs to its kind |
| `PinGateCorrect` | `Spec => []PinGate` | `GateInv`: every control point, message, buffered chunk and status tells what has been checked before it |
| `KeysCorrect` | `Spec => []RightKeyAccepted` | `GateInv`: the nonce of a task that is past the exchange is the one common to both |
| `TriesCorrect` | `Spec => []TriesBounded` | `TriesInv`: a peer that waits for a PIN has tries left |

The argument of `PinGateCorrect`: what was typed stays typed and nobody is
configured anew, so whatever a message or a control point tells stays true
(`Stable`). It remains that each step sends, reports and goes to what it may: a
queued `pinRes` *ok* is sent by a receiver whose PIN has just been compared with one
that arrived, hence was typed; an accepted `tokenRes` comes with the key that was
asked for; and a chunk of the file list, wherever it is, in the queue or in the
receiver's buffer, was sent behind both. A receiver that can parse the list has
such a chunk. All steps go through `Fail`, `Proceed`, `Complete` and
`Write`, so the proof is once about these four and then, per action, about what it
passes to them.

Scenarios are records of exactly the three fields; the module's assumption says so.

It also proves two facts about the operators of `Token`:

| Theorem | Statement | From |
|---|---|---|
| `WindowHolds` | `TimestampWindow`: for every width of the clock, a time-stamped token is accepted exactly from the time it names to an hour later | `AgeWraps`: the wrapped age of a future salt is at least `U64 - salt + now`, more than an hour once the clock is past its first hour |
| `NonceTokenIsAuthentic` | a generated token is accepted over a nonce exactly when signer, method and nonce are the expected ones | the definitions |

`RtcStreamProofs` extends `RtcTransferProofs` with the stream of files, under the same
assumptions; `SingleCorrect` also uses that the files of a transfer are finitely many
(`FilesAssumption`, the code has them in a `Vec`), since it speaks of their number:

| Theorem | Statement | Inductive invariant |
|---|---|---|
| `IntegrityCorrect` | `Spec => []FileIntegrity` | `FlowInv`: `PhaseInv`, `StringInv`, `FileInv`, `StreamInv` and `StatusInv` |
| `NoStrayCorrect` | `Spec => []NoStrayData` | the same |
| `SingleCorrect` | `Spec => []SingleFileAnswered` | the same with `DoneInv`: a sender that is done and had files to send has the result of one of them |

The heart is `StreamInv`: while the receiver is in its file loop, the messages queued
for it are a `Chain` of places in files. Each leads from behind so many units of a
file to behind some more (binary data), to the beginning of a file (a header) or to
nowhere (the delimiter); the chain starts where the receiver is (`Received`) and, as
long as both peers run, ends where the sender goes on, which is what it has read
less what is in the buffer of `process_in_chunks`. A text comes only behind a file
that is `Settled`: the sender has left it and will not read more of it, so when the
receiver reports a result at that text it has everything. Messages that a lost
connection cuts off are the last ones of the chain, which stays one. A header
names a file that was given and selected and of which the receiver's app knows nothing
(`Fresh`), and none comes twice; that is why no content is ever appended to a file
that was already answered.

The other parts are what `StreamInv` needs. `FileInv` says what each loop knows of its
own files: what is buffered and what was passed on are runs of units of one file.
`PhaseInv` says how far the tasks can be apart: the sender hands over files only
behind the receiver's choice, and nothing is queued for a receiver that has just chosen.
`StringInv` gives the reason: the text that ends a file list is the last message of
all, so nothing of the list is left for the file loop, and the parts of an answer that
are on their way or collected name files that were selected.

`SingleCorrect` needs the other direction, `StatusInv`: the text that ends the answer to
the file list is the last message to a sender that has not read it, so a sender in its
file loop is sent results only, and each of them is one that the receiver has given.
The one status that the sender waits for is therefore the result of a file; when it
sent a single file, it is that file's. With more files it may be the first one's, which is
the violation that `rtc_last_status` shows.

`RtcExchangeProofs` extends that with the exchange of messages:

| Theorem | Statement | Inductive invariant |
|---|---|---|
| `NeverBothWaitCorrect` | `Spec => []NeverBothWait` | `ReadInv`, `LinkInv` |
| `NoParseCorrect` | `Spec => []NoParseError` | the same with `LoopInv` |
| `TransferImplemented` | `Spec => ImplementsTransfer`: every step is a step of `FileTransfer` under the mapping of `RtcRefinement`, or leaves all that it speaks of as it is | `AllInv` and `FlowInv` with `ViewInv` and `BoundInv` |

`LinkInv` is a table: the pairs of control points the two tasks can be at while both
peers run, and what is then on its way between them. Of a string in chunks some are
collected and the rest is queued (`ComesAll`). In each row somebody has a message to
read or something to do, which is `NeverBothWait`; every step of a task leads from one
row to another. The table has no row for a task that has returned, nor for a
connection that is lost: then neither waits in the sense of the property.

A task may read on when the other one has returned or the connection is lost, so
`NoParseError` needs an invariant that holds also then. `ReadInv` says what may be
queued for a task at its control point, each message expected there, whatever the
other task is at; it is closed under losing the last messages, and `LinkInv` tells
what a step of the other task may add. In the file loop the invariant is `LoopInv`: a
delimiter comes only where a file is open. As long as nothing has been handed over
that was also selected, the chain of `StreamInv` may end nowhere; a sender ends the
files only when it has handed over all that were selected, which are some.

The first two theorems are about PINs too. With the empty PIN at the receiver the challenge
passes before the sender has typed anything; its PIN then arrives where the receiver
waits for the file list, and parses as nothing. `Astray` is the row of the table for
this case, so that `NeverBothWaitCorrect` covers it. With `max_tries` 0 at the sender
the refusal reaches the receiver before it has sent a PIN, where it is unexpected.
`UsablePins` excludes both from `NoParseError` (and from `BothEnd`); without it TLC
finds either.

`TransferImplemented` takes the guards of `FileTransfer` from the invariants above. What
is shown: a complete list at the receiver opens the gate (`GateInv`). What is handed
over and reported: `FileInv`, before the step for the file that is open and behind it
for the result that was given. Two facts are new. `ViewInv`: the receiver's user is
asked only when the list was shown, and the sender only sends files it holds a token
for. `BoundInv`: no unit is on its way to the file loop that the sender's app has not
produced; with `StreamInv`, which says where in the file the units stand, what arrives
is the next piece of the beginning that was produced. The lost connection needs no
case of its own in the abstract specification: it only removes messages, of which the
users see nothing.

TLC has checked the inductive invariants on the instances of the runs, with 0 to 2
tries and with empty PINs, and it evaluates the assumptions on every run.

Only model-checked: all liveness properties (`HelloUnlessBlocked`, `GoneLeavesRoom`,
`AnswerArrives`, `ReceiveEnds`, `CallEnds`, `BothEnd`), since fairness and ENABLED are
outside the proof system's reach. The violations are, of course, TLC's.

## 6. Not modelled

* The Dart side of the app: the HTTP receive and send sessions, the life of the
  app's HTTP server, discovery, terminals, pairing, projects. Each is a state
  machine of its own with awaits between reading and writing the state of a
  provider; rows 8 to 10 of the plan. The most important hazards of these parts are
  listed in `PROJECT.json` at the lines where they bite, with the planned module.
* The codecs of `frb_generated.rs` and the mirrored types, which are generated;
  key generation and the parsing of keys; logging.
* Handlers of the demo (`send_handler`, `receive_handler`): clients of the two
  functions of `RtcTransfer` with fixed answers.

Limits of what is modelled:

* A client does not reconnect within one behaviour; a reconnection is another
  connection of the instance. A socket of the server delivers what was written at
  once; a client that is slow to read is a `send_task` that takes no step.
* An answer that arrives before its callback is registered (webrtc.rs:575, 585) is
  lost in `RtcSignaling` as in the code, and that call waits for ever; so does one
  whose socket is lost. `AnswerArrives` speaks of registered callbacks and sockets
  that stay open, and excepts a demo that waits for an answer which its own listener
  cannot reach (`DemoStuck`). In the code that takes 17 messages ahead of the answer,
  16 in the listener's channel and one in its hand: the demo awaits `send_offer` in its
  message loop (main.rs:245) and reads nothing meanwhile, and then waits for ever.
* A peer that hangs before its Hello (`signaling_hello_blocked`) stays in its room for
  ever, and so may those whose tasks wait to send to it. `GoneLeavesRoom` and
  `HelloUnlessBlocked` except such rooms (`BlockedBeforeHello`) and speak of all others.
* A client whose reading task hangs before Hello would not notice a lost socket;
  `ConnectPanics` lets `connect` end there.
* In the transfer, a task that returns an error leaves the connection open, and the
  other side may wait for ever; `BothEnd` is about behaviours without such errors.
  A receiver that selects nothing takes the delimiter for a header; that choice is
  among the faults, and excluded from `NoParseError` and `BothEnd`, as are an empty PIN
  of the receiver and a sender that grants no try (`UsablePins`).
* `RtcControllers` has one file per transfer, and its remote peer never violates
  the protocol. An app that disposes of the controller while a PIN is asked for
  leaves the core waiting. After a lost connection the inner task may stay behind with
  its sender of statuses, so the app is told `Finished` but its stream may stay open.
* `InSync` is about clients with an identity of their own whose calls neither overlap
  nor break. With a lost answer, overlapping calls or a shared address the two sides
  disagree until the next exchange. That a failing IPv6 listener does not end the
  server is the guard of one step (`EndsServer`) and no property of its own.
* Connections that `HttpCore`'s listeners accepted before a stop are served to
  their end, as in the code.
