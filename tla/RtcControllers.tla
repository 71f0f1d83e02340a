--------------------------- MODULE RtcControllers ---------------------------
(***************************************************************************)
(* The controllers through which the app drives one end of a transfer:     *)
(* RTCSendController and RTCReceiveController of app/rust/src/api/         *)
(* webrtc.rs, called over the generated bridge (frb_generated.rs), and the *)
(* tasks behind them.  The variable side says which of the two it is.      *)
(*                                                                         *)
(* Every call of the app is a wire function: it waits for the lock of the  *)
(* controller, a fair read-write lock, and holds it until the method has   *)
(* returned.  A method that takes &mut self needs the lock for itself.     *)
(*                                                                         *)
(* Behind the controller are the outer and the inner task of send_offer or *)
(* accept_offer (RtcTransfer has their protocol; here they are reduced to  *)
(* what they do with their ends of the channels, and the remote peer to a  *)
(* choice of how it goes on) and the task that puts requests for a PIN     *)
(* into the controller.  One file is transferred.                          *)
(***************************************************************************)
EXTENDS Naturals, Sequences, SequencesExt, FiniteSets

CONSTANTS
    Sides,          \* subset of {"S", "R"}: the controllers looked at
    MaxRounds,      \* bound on the requests for a PIN
    Units,          \* bound on the units of content of the file
    BufferSize,     \* BUFFER_SIZE of buffer_receiver, in units
    BinCap,         \* capacity of a file's channel
    Disconnects     \* TRUE: the peer connection may be lost

ASSUME BoundsAssumption ==
    /\ MaxRounds \in Nat /\ Units \in Nat
    /\ BufferSize \in Nat \ {0} /\ BinCap \in Nat \ {0}
ASSUME SidesAssumption == Sides \subseteq {"S", "R"} /\ Disconnects \in BOOLEAN

\* The methods of the two controllers.
Wires ==
    [S |-> {"listen_status", "listen_selected_files", "listen_error", "send_pin", "send_file"},
     R |-> {"listen_status", "listen_files", "listen_error", "listen_receiving", "send_pin",
            "send_selection", "decline", "send_file_status"}]

VARIABLES
    side,
    queue,      \* calls that wait for the lock: <<method, mode>>
    held,       \* calls that hold it
    disposed,   \* the app has dropped its handle of the controller
    slots,      \* Option slots of the controller that are still Some
    accepted,   \* calls of send_selection and decline that returned Ok
    todo,       \* PIN exchanges ahead of the inner task: "ask" and "verify"
    inner,      \* control of the inner task
    outer,      \* control of the outer task
    link,       \* data channel to the remote peer: "none", "open" or "lost"
    status,     \* status channel, capacity 1
    shown,      \* Finished or Error has been added to the sink of the app
    errors,     \* length of the channel of RTCFileErrors, capacity 1
    round,      \* requests for a PIN so far
    pinChan,    \* requests on their way to the controller, capacity 1
    pinSlot,    \* request in the controller, or 0
    pinGiven,   \* request that got a PIN the inner task has not seen, or 0
    choice,     \* what the oneshot of the selection carries: "none", "files", "declined"
    listed,     \* the oneshot of the file list has been sent
    files,      \* length of the channel of RTCFiles, capacity 1
    results,    \* length of the channel of RTCSendFileResponses, capacity 1
    reader,     \* the file: "none", "offered", "reading", "over", "refused"
    bin,        \* channel of its content
    binOpen,    \* the sending end of bin has not been dropped
    made,       \* units put into bin so far
    buffer,     \* buffer of buffer_receiver
    got         \* content that has come out

lock == <<queue, held, disposed>>
core == <<todo, inner, outer, link>>
pin == <<round, pinChan, pinSlot, pinGiven>>
statuses == <<status, shown>>
choices == <<accepted, choice, listed>>
file == <<files, results, reader, bin, binOpen, made, buffer, got>>
vars == <<side, lock, slots, core, statuses, errors, pin, choices, file>>

----------------------------------------------------------------------------
(* The bridge *)

Calls == held \cup ToSet(queue)
Busy(op) == \E h \in Calls : h[1] = op
Freed == disposed /\ Calls = {}

\* The lock can be taken: shared by "ref" calls, alone by "ref_mut" ones.
Compatible(mode) == IF mode = "ref_mut" THEN held = {} ELSE \A h \in held : h[2] = "ref"

\* A wire function: the app calls op, which waits in the queue of the lock
\* unless it can have it, enters the method and holds the guard for as long
\* as the method runs.
Wire(op, mode, enter, step) ==
    \/ /\ ~disposed /\ ~Busy(op)
       /\ \/ /\ queue = <<>> /\ Compatible(mode)
             /\ enter /\ UNCHANGED <<side, queue, disposed, core>>
          \/ /\ ~(queue = <<>> /\ Compatible(mode))
             /\ queue' = Append(queue, <<op, mode>>)
             /\ UNCHANGED <<side, held, disposed, slots, core, statuses, errors, pin, choices, file>>
    \/ /\ queue # <<>> /\ Head(queue) = <<op, mode>> /\ Compatible(mode)
       /\ queue' = Tail(queue)
       /\ enter /\ UNCHANGED <<side, disposed, core>>
    \/ /\ <<op, mode>> \in held
       /\ step /\ UNCHANGED <<side, queue, disposed, core>>

Holds(op, mode) == held' = held \cup {<<op, mode>>}
Returns(op) == held' = {h \in held : h[1] # op}

\* The app drops its handle.
Dispose ==
    /\ ~disposed
    /\ disposed' = TRUE
    /\ UNCHANGED <<side, queue, held, slots, core, statuses, errors, pin, choices, file>>

----------------------------------------------------------------------------
(* Methods of both controllers *)

InnerOver == inner \in {"done", "err"}

\* The status channel is closed: both tasks have dropped their senders.
AllOver == outer = "over" /\ InnerOver

\* lock().await.take() of a slot.
Take(slot) == slots' = slots \ {slot}

\* What a method waits for is taken out of its slot; a second call finds
\* nothing there and returns an error.  (The sending controller has no slot for
\* its streams.)
Listen(op, mode, slot, owned) ==
    /\ \/ (owned \/ slot \in slots) /\ Take(slot) /\ Holds(op, mode)
       \/ ~owned /\ slot \notin slots /\ UNCHANGED <<held, slots>>
    /\ UNCHANGED <<statuses, errors, pin, choices, file>>

listen_status ==
    /\ \/ /\ status # <<>> /\ status' = <<>> /\ UNCHANGED held
          /\ shown' = (shown \/ Head(status) \in {"Finished", "Error"})
       \/ status = <<>> /\ AllOver /\ Returns("listen_status") /\ UNCHANGED statuses
    /\ UNCHANGED <<slots, errors, pin, choices, file>>

\* Only the inner task can send an RTCFileError.
listen_error ==
    /\ \/ errors = 1 /\ errors' = 0 /\ UNCHANGED held
       \/ errors = 0 /\ InnerOver /\ Returns("listen_error") /\ UNCHANGED errors
    /\ UNCHANGED <<slots, statuses, pin, choices, file>>

\* Mutant: the request stays in the controller when its PIN is sent.
PinTakenNever == UNCHANGED pinSlot
PinTaken == pinSlot' = 0

\* The request is taken and answered, or there is none ("Pin already sent").
\* The channel of a request is closed when the inner task has gone.
send_pin ==
    /\ \/ /\ pinSlot # 0 /\ PinTaken
          /\ pinGiven' = IF inner = "waitPin" THEN pinSlot ELSE pinGiven
       \/ pinSlot = 0 /\ UNCHANGED <<pinSlot, pinGiven>>
    /\ UNCHANGED <<held, slots, statuses, errors, round, pinChan, choices, file>>

----------------------------------------------------------------------------
(* Methods of RTCSendController *)

\* Waits for the oneshot of the selection, which the inner task may drop.
listen_selected_files ==
    /\ choice = "files" \/ InnerOver
    /\ Returns("listen_selected_files")
    /\ UNCHANGED <<slots, statuses, errors, pin, choices, file>>

\* A file is put into the channel, and the app holds the sender of its content
\* (bound: a second file is not passed on).  An error when the inner task has
\* gone.
send_file ==
    /\ \/ /\ reader = "none" /\ ~InnerOver
          /\ files' = 1 /\ binOpen' = TRUE /\ reader' = "offered"
       \/ (InnerOver \/ reader # "none") /\ UNCHANGED <<files, binOpen, reader>>
    /\ UNCHANGED <<held, slots, statuses, errors, pin, choices, results, bin, made, buffer, got>>

\* RTCFileSender::send
send ==
    /\ made < Units /\ Len(bin) < BinCap /\ ~InnerOver /\ reader # "refused"
    /\ bin' = Append(bin, made + 1) /\ made' = made + 1
    /\ UNCHANGED binOpen

\* The wire function of send, and the drop of the RTCFileSender at the end of
\* the file.  Its lock is taken by its own calls only.
RtcFileSender_send ==
    /\ side = "S" /\ binOpen
    /\ send \/ (binOpen' = FALSE /\ UNCHANGED <<bin, made>>)
    /\ UNCHANGED <<side, lock, slots, core, statuses, errors, pin, choices, files, results,
                   reader, buffer, got>>

----------------------------------------------------------------------------
(* Methods of RTCReceiveController *)

listen_files ==
    /\ listed \/ InnerOver
    /\ Returns("listen_files")
    /\ UNCHANGED <<slots, statuses, errors, pin, choices, file>>

\* The sender of the selection is taken by send_selection or by decline.
Choose(op, c) ==
    /\ \/ /\ "selection" \in slots /\ Take("selection")
          /\ \/ ~InnerOver /\ choice' = c /\ accepted' = accepted \cup {op}
             \/ InnerOver /\ UNCHANGED <<choice, accepted>>
       \/ "selection" \notin slots /\ UNCHANGED <<slots, choice, accepted>>
    /\ UNCHANGED <<held, statuses, errors, pin, listed, file>>

send_selection == Choose("send_selection", "files")
decline == Choose("decline", "declined")

\* A file is passed to the app as an RTCFileReceiver.
listen_receiving ==
    /\ \/ files = 1 /\ files' = 0 /\ reader' = "reading" /\ UNCHANGED held
       \/ files = 0 /\ InnerOver /\ Returns("listen_receiving") /\ UNCHANGED <<files, reader>>
    /\ UNCHANGED <<slots, statuses, errors, pin, choices, results, bin, binOpen, made, buffer, got>>

\* Waits while the last result has not been taken; bound: one result.
send_file_status ==
    /\ \/ results = 0 /\ ~InnerOver /\ reader = "over" /\ results' = 1
       \/ InnerOver /\ UNCHANGED results
    /\ UNCHANGED <<held, slots, statuses, errors, pin, choices, files, reader, bin, binOpen, made,
                   buffer, got>>

\* Mutant: what is left in the buffer at the end is dropped.
NoFlush == got
Flush == got \o buffer

\* Mutant: the buffer may be exceeded by one unit.
FullLate(b) == Len(b) > BufferSize
Full(b) == Len(b) >= BufferSize

\* buffer_receiver: data is passed on when the buffer is full, and at the end.
buffer_receiver ==
    \/ /\ bin # <<>>
       /\ LET b == Append(buffer, Head(bin))
          IN  \/ Full(b) /\ got' = got \o b /\ buffer' = <<>>
              \/ ~Full(b) /\ buffer' = b /\ UNCHANGED got
       /\ bin' = Tail(bin)
       /\ UNCHANGED reader
    \/ /\ bin = <<>> /\ ~binOpen
       /\ got' = Flush /\ buffer' = <<>>
       /\ reader' = "over"
       /\ UNCHANGED bin

\* RTCFileReceiver::receive: the content goes to the app through buffer_receiver.
receive == reader = "reading" /\ buffer_receiver

\* Its wire function.
RtcFileReceiver_receive ==
    /\ side = "R" /\ receive
    /\ UNCHANGED <<side, lock, slots, core, statuses, errors, pin, choices, files, results,
                   binOpen, made>>

----------------------------------------------------------------------------
(* The bridge: one wire function per method *)

RtcReceiveController_listen_files ==
    side = "R" /\ Wire("listen_files", "ref",
                       Listen("listen_files", "ref", "files", FALSE), listen_files)
RtcReceiveController_listen_status ==
    side = "R" /\ Wire("listen_status", "ref",
                       Listen("listen_status", "ref", "status", FALSE), listen_status)
RtcReceiveController_listen_error ==
    side = "R" /\ Wire("listen_error", "ref",
                       Listen("listen_error", "ref", "error", FALSE), listen_error)
RtcReceiveController_listen_receiving ==
    side = "R" /\ Wire("listen_receiving", "ref",
                       Listen("listen_receiving", "ref", "receiving", FALSE), listen_receiving)
RtcReceiveController_send_pin == side = "R" /\ Wire("send_pin", "ref", send_pin, FALSE)
RtcReceiveController_send_selection ==
    side = "R" /\ Wire("send_selection", "ref", send_selection, FALSE)
RtcReceiveController_decline == side = "R" /\ Wire("decline", "ref", decline, FALSE)
RtcReceiveController_send_file_status ==
    side = "R" /\ Wire("send_file_status", "ref", send_file_status, FALSE)
RtcSendController_listen_status ==
    side = "S" /\ Wire("listen_status", "ref_mut",
                       Listen("listen_status", "ref_mut", "status", TRUE), listen_status)
RtcSendController_listen_error ==
    side = "S" /\ Wire("listen_error", "ref_mut",
                       Listen("listen_error", "ref_mut", "error", TRUE), listen_error)
RtcSendController_listen_selected_files ==
    side = "S" /\ Wire("listen_selected_files", "ref",
                       Listen("listen_selected_files", "ref", "selected", FALSE),
                       listen_selected_files)
RtcSendController_send_pin == side = "S" /\ Wire("send_pin", "ref", send_pin, FALSE)
RtcSendController_send_file == side = "S" /\ Wire("send_file", "ref", send_file, FALSE)

----------------------------------------------------------------------------
(* The tasks behind the controller *)

\* status_tx.send(st).await: waits for room; nobody reads it once the
\* controller is gone.
Told(st) == (status = <<>> \/ Freed) /\ status' = (IF Freed THEN status ELSE <<st>>) /\ UNCHANGED shown

\* The inner task reports st and goes to next; a failed send ends it, where
\* the code has a question mark.
Report(st, next) ==
    /\ Told(st)
    /\ inner' = IF Freed THEN "err" ELSE next

\* Mutant: the error is not passed on.
ErrorIgnored == UNCHANGED statuses
\* The task of the controller reports the error of send_offer or accept_offer.
ErrorTold == Told("Error")

\* The exchange of descriptions: send_offer or accept_offer may fail before it,
\* send_offer also after it, with the answer it got.
ExchangeSdp ==
    \/ /\ outer = "sdp"
       /\ outer' \in {"tell", "error"} /\ UNCHANGED statuses
       /\ link' = IF outer' = "tell" /\ side = "R" THEN "open" ELSE link
    \/ /\ outer = "tell" /\ Told("SdpExchanged")
       /\ \/ /\ ~Freed /\ outer' = "select" /\ link' = IF link = "none" THEN "open" ELSE link
          \/ /\ Freed \/ side = "S"
             /\ outer' = "error" /\ link' = IF link = "open" THEN "lost" ELSE link

InnerEnds == InnerOver /\ outer' = IF inner = "done" THEN "finish" ELSE "error"

\* Mutant: only the end of the inner task is waited for.
AwaitInner == outer = "select" /\ InnerEnds /\ UNCHANGED <<statuses, link>>
\* The select: the inner task has ended, or the connection was lost, which
\* leaves the inner task behind.
AwaitEnd ==
    /\ outer = "select" /\ UNCHANGED <<statuses, link>>
    /\ \/ InnerEnds
       \/ link = "lost" /\ outer' = "finish"

\* The outer task, and the task of the controller that reports its error.
Outer ==
    /\ \/ ExchangeSdp
       \/ AwaitEnd
       \/ outer = "finish" /\ Told("Finished") /\ outer' = "over" /\ UNCHANGED link
       \/ outer = "error" /\ ErrorTold /\ outer' = "over" /\ UNCHANGED link
    /\ UNCHANGED <<side, lock, slots, todo, inner, errors, pin, choices, file>>

\* The connection is lost (state Disconnected): no message comes any more
\* than those that wait to be received.
Disconnect ==
    /\ Disconnects /\ link = "open"
    /\ link' = "lost"
    /\ UNCHANGED <<side, lock, slots, todo, inner, outer, statuses, errors, pin, choices, file>>

\* The data channel has been open.
Active == link # "none"

\* An inner task that waits for the remote peer, or sends to it, may fail; that
\* of the receiver also when the connection is dropped before it has a channel.
InnerFails ==
    /\ ~InnerOver
    /\ \/ Active /\ inner \in {"start", "verifying", "pinSent", "list", "receiving", "file", "last"}
       \/ Active /\ inner = "sending" /\ files = 0 /\ Freed
       \/ Active /\ inner = "select" /\ choice # "none"
       \/ ~Active /\ inner = "start" /\ side = "R" /\ outer \in {"error", "over"}
    /\ inner' = "err"
    /\ binOpen' = (binOpen /\ side = "S")
    /\ UNCHANGED <<side, lock, slots, todo, outer, link, statuses, errors, pin, choices, files,
                   results, reader, bin, made, buffer, got>>

\* verify_pin: the other user has to type a PIN.
VerifyPin ==
    /\ Active
    /\ \/ /\ inner = "start" /\ todo # <<>> /\ Head(todo) = "verify"
          /\ Report("PinRequired", "verifying") /\ UNCHANGED todo
       \/ /\ inner = "verifying"
          /\ inner' = "start" /\ todo' = Tail(todo) /\ UNCHANGED statuses
       \/ /\ inner = "verifying" /\ Report("TooManyAttempts", "err") /\ UNCHANGED todo
    /\ UNCHANGED <<side, lock, slots, outer, link, errors, pin, choices, file>>

\* handle_pin: PinRequired is reported, then the request is sent to the
\* controller; the PIN goes to the other peer, which accepts it or not.
HandlePin ==
    /\ Active
    /\ \/ /\ inner = "start" /\ todo # <<>> /\ Head(todo) = "ask"
          /\ Report("PinRequired", "request") /\ UNCHANGED <<todo, pin>>
       \/ /\ inner = "request" /\ pinChan = <<>>
          /\ pinChan' = <<round + 1>> /\ round' = round + 1
          /\ inner' = "waitPin" /\ UNCHANGED <<todo, statuses, pinSlot, pinGiven>>
       \/ /\ inner = "waitPin" /\ pinGiven # 0
          /\ pinGiven' = 0 /\ inner' = "pinSent"
          /\ UNCHANGED <<todo, statuses, round, pinChan, pinSlot>>
       \/ /\ inner = "pinSent"
          /\ \/ todo' = Tail(todo)
             \/ round < MaxRounds /\ UNCHANGED todo
          /\ inner' = "start" /\ UNCHANGED <<statuses, pin>>
       \/ /\ inner = "pinSent" /\ Report("TooManyAttempts", "err") /\ UNCHANGED <<todo, pin>>
    /\ UNCHANGED <<side, lock, slots, outer, link, errors, choices, file>>

MovesRequest == pinChan # <<>>

\* The task that moves requests into the controller; it keeps the slot alive.
PinTask ==
    /\ MovesRequest
    /\ pinSlot' = Head(pinChan) /\ pinChan' = <<>>
    /\ UNCHANGED <<side, lock, slots, core, statuses, errors, round, pinGiven, choices, file>>

Connected ==
    /\ Active
    /\ inner = "start" /\ todo = <<>>
    /\ Report("Connected", "list")
    /\ UNCHANGED <<side, lock, slots, todo, outer, link, errors, pin, choices, file>>

\* The sender learns the selection and publishes it, which fails when the
\* app has dropped the controller, or that the transfer is declined.
Selected ==
    /\ side = "S" /\ inner = "list"
    /\ \/ /\ Freed /\ "selected" \in slots
          /\ inner' = "err" /\ UNCHANGED <<choice, statuses>>
       \/ /\ ~(Freed /\ "selected" \in slots)
          /\ choice' = "files" /\ inner' = "sending" /\ UNCHANGED statuses
       \/ Told("Declined") /\ inner' = "done" /\ UNCHANGED choice
    /\ UNCHANGED <<side, lock, slots, todo, outer, link, errors, pin, accepted, listed, file>>

\* The sender takes files until the controller, which holds send_tx, is gone.
SendFiles ==
    /\ side = "S"
    /\ \/ /\ inner = "sending" /\ files = 1
          /\ files' = 0
          /\ \/ inner' = "file" /\ reader' = "reading" /\ UNCHANGED errors
             \/ (errors = 0 \/ Freed) /\ errors' = 1 /\ reader' = "refused" /\ UNCHANGED inner
          /\ UNCHANGED <<bin, got>>
       \/ /\ inner = "file" /\ bin # <<>>
          /\ got' = Append(got, Head(bin)) /\ bin' = Tail(bin)
          /\ UNCHANGED <<inner, files, reader, errors>>
       \/ /\ inner = "file" /\ bin = <<>> /\ ~binOpen
          /\ inner' = "sending" /\ reader' = "over"
          /\ UNCHANGED <<files, bin, got, errors>>
       \/ /\ inner = "sending" /\ files = 0 /\ Freed
          /\ inner' = "done"
          /\ UNCHANGED <<files, reader, bin, got, errors>>
    /\ UNCHANGED <<side, lock, slots, todo, outer, link, statuses, pin, choices, results, binOpen,
                   made, buffer>>

\* Mutant: a refusal is taken for an empty selection.
GoesOnAnyway == choice # "none"
GoesOn == choice = "files"

\* The receiver publishes the file list and waits for the selection.
ShowFiles ==
    /\ side = "R"
    /\ \/ /\ inner = "list"
          /\ \/ Freed /\ "files" \in slots /\ inner' = "err" /\ UNCHANGED listed
             \/ ~(Freed /\ "files" \in slots) /\ inner' = "select" /\ listed' = TRUE
       \/ /\ inner = "select" /\ UNCHANGED listed
          /\ \/ GoesOn /\ inner' = "receiving"
             \/ choice # "none" /\ ~GoesOn /\ inner' = "done"
             \/ choice = "none" /\ Freed /\ inner' = "done"
    /\ UNCHANGED <<side, lock, slots, todo, outer, link, statuses, errors, pin, accepted, choice,
                   file>>

\* The receiver: a header opens the file, or is refused; content; the end of
\* the file, for which the result of the app is awaited; the end.
ReceiveFiles ==
    /\ side = "R"
    /\ \/ /\ inner = "receiving" /\ reader = "none" /\ (files = 0 \/ Freed)
          /\ files' = 1 /\ reader' = "offered" /\ binOpen' = TRUE
          /\ inner' = "file"
          /\ UNCHANGED <<errors, results, bin, made>>
       \/ /\ inner = "receiving" /\ reader = "none" /\ (errors = 0 \/ Freed)
          /\ errors' = 1 /\ reader' = "refused"
          /\ UNCHANGED <<inner, files, results, bin, binOpen, made>>
       \/ /\ inner = "file" /\ made < Units
          /\ \/ /\ ~(Freed /\ reader = "offered") /\ Len(bin) < BinCap
                /\ bin' = Append(bin, made + 1) /\ made' = made + 1
                /\ UNCHANGED <<inner, binOpen>>
             \/ /\ Freed /\ reader = "offered"            \* binary_rx was dropped
                /\ inner' = "err" /\ binOpen' = FALSE /\ UNCHANGED <<bin, made>>
          /\ UNCHANGED <<errors, files, reader, results>>
       \/ /\ inner = "file"
          /\ binOpen' = FALSE /\ inner' = "result"
          /\ UNCHANGED <<errors, files, reader, results, bin, made>>
       \/ /\ inner = "result" /\ (results = 1 \/ Freed)
          /\ results' = 0 /\ inner' = "last"
          /\ UNCHANGED <<errors, files, reader, bin, binOpen, made>>
       \/ /\ inner = "last" \/ (inner = "receiving" /\ reader = "refused")
          /\ inner' = IF inner = "last" THEN "done" ELSE "err"
          /\ UNCHANGED <<errors, files, reader, results, bin, binOpen, made>>
    /\ UNCHANGED <<side, lock, slots, todo, outer, link, statuses, pin, choices, buffer, got>>

----------------------------------------------------------------------------
(* Specification *)

\* send_offer and accept_offer of LsSignalingConnection have returned the
\* controller and spawned the tasks.
Slots(s) ==
    IF s = "S" THEN {"selected"} ELSE {"status", "files", "selection", "error", "receiving"}
Exchanges(s) ==
    {<<>>, <<"ask">>, <<"verify">>, IF s = "S" THEN <<"ask", "verify">> ELSE <<"verify", "ask">>}

Init ==
    /\ side \in Sides
    /\ queue = <<>> /\ held = {} /\ disposed = FALSE
    /\ accepted = {}
    /\ slots = Slots(side)
    /\ todo \in Exchanges(side)
    /\ inner = "start" /\ outer = "sdp" /\ link = "none"
    /\ status = <<>> /\ shown = FALSE /\ errors = 0
    /\ round = 0 /\ pinChan = <<>> /\ pinSlot = 0 /\ pinGiven = 0
    /\ choice = "none" /\ listed = FALSE
    /\ files = 0 /\ results = 0 /\ reader = "none"
    /\ bin = <<>> /\ binOpen = FALSE /\ made = 0 /\ buffer = <<>> /\ got = <<>>

Streams ==
    \/ RtcReceiveController_listen_status \/ RtcReceiveController_listen_error
    \/ RtcReceiveController_listen_receiving \/ RtcReceiveController_listen_files
    \/ RtcSendController_listen_status \/ RtcSendController_listen_error
    \/ RtcSendController_listen_selected_files

Answers ==
    \/ RtcReceiveController_send_pin \/ RtcReceiveController_send_selection
    \/ RtcReceiveController_decline \/ RtcReceiveController_send_file_status
    \/ RtcSendController_send_pin \/ RtcSendController_send_file

Inner ==
    \/ VerifyPin \/ HandlePin \/ Connected
    \/ Selected \/ SendFiles \/ ShowFiles \/ ReceiveFiles

Next ==
    \/ Streams \/ Answers \/ RtcFileSender_send \/ RtcFileReceiver_receive \/ Dispose
    \/ Outer \/ Disconnect \/ InnerFails \/ PinTask \/ Inner

Spec == Init /\ [][Next]_vars

\* The runtime runs every task.  The app listens to all it can listen to,
\* types PINs until one is taken, selects files, reads the file and reports
\* on it, and a sending app sends a file and then drops the controller.  The
\* remote peer answers, and goes on while the connection is there: of an inner
\* task that has lost it nothing is assumed, since the channel it waits on never
\* closes.  Declining, failing and losing the connection are free.
FairSpec ==
    /\ Spec
    /\ WF_vars(RtcReceiveController_listen_status) /\ WF_vars(RtcSendController_listen_status)
    /\ WF_vars(RtcReceiveController_listen_error) /\ WF_vars(RtcSendController_listen_error)
    /\ WF_vars(RtcReceiveController_listen_files) /\ WF_vars(RtcReceiveController_listen_receiving)
    /\ WF_vars(RtcReceiveController_send_pin) /\ WF_vars(RtcSendController_send_pin)
    /\ WF_vars(RtcReceiveController_send_selection)
    /\ WF_vars(RtcReceiveController_send_file_status)
    /\ WF_vars(RtcSendController_listen_selected_files) /\ WF_vars(RtcSendController_send_file)
    /\ WF_vars(RtcFileSender_send) /\ WF_vars(RtcFileReceiver_receive)
    /\ WF_vars(side = "S" /\ reader \in {"over", "refused"} /\ Dispose)
    /\ WF_vars(Outer) /\ WF_vars(PinTask) /\ WF_vars(link = "open" /\ Inner)

----------------------------------------------------------------------------
(* Properties *)

\* Every variable has its type and no channel exceeds its capacity.
TypeOK ==
    /\ held \subseteq (Wires[side] \X {"ref", "ref_mut"})
    /\ slots \subseteq Slots(side)
    /\ inner \in {"start", "verifying", "request", "waitPin", "pinSent", "list", "select",
                  "sending", "receiving", "file", "result", "last", "done", "err"}
    /\ outer \in {"sdp", "tell", "select", "finish", "error", "over"}
    /\ link \in {"none", "open", "lost"}
    /\ Len(status) <= 1 /\ Len(pinChan) <= 1 /\ Len(bin) <= BinCap
    /\ errors \in 0..1 /\ files \in 0..1 /\ results \in 0..1
    /\ Len(buffer) < BufferSize

\* A PIN that the app was told has been sent answers the request that the
\* inner task waits for, and there is never a second request beside it: the
\* retries of a wrong PIN cannot get ahead of the task that fills the slot.
PinAnswersRequest ==
    /\ pinGiven # 0 => pinGiven = round /\ inner = "waitPin" /\ pinSlot = 0 /\ pinChan = <<>>
    /\ pinSlot # 0 => pinSlot = round

\* The user's selection and refusal are exclusive however the two calls race,
\* and files arrive only after a selection that was accepted as such.
SelectionObeyed ==
    side = "R" =>
        /\ Cardinality(accepted) <= 1
        /\ reader # "none" => accepted = {"send_selection"}

\* When the stream of statuses ends, the app has been told of the end: also
\* after a lost connection, which leaves the inner task behind as another
\* sender of statuses.
EndIsTold ==
    side = "R" /\ "status" \notin slots /\ ~Busy("listen_status") =>
        shown

\* The app reads the content in order; when the stream of a file ends it has
\* got all of it, also what filled no buffer.
ContentWhole ==
    /\ got = [i \in 1..Len(got) |-> i]
    /\ reader = "over" => Len(got) = made

\* An app that listens and answers is told of the end of every transfer it
\* receives: none of the channels of capacity one, nor the lock, holds it up.
\* Unless the connection is lost, or never made, both tasks end and with them
\* the stream of statuses; the task a lost connection leaves behind may keep it
\* open for ever.
ReceiveEnds == side = "R" ~> (disposed \/ (shown /\ (AllOver \/ link # "open")))

\* The transfer of an app that has sent its file and dropped the controller
\* finishes: "Data channel closed. Connection is closed." (webrtc.rs:159).
SendEnds == (side = "S" /\ reader = "over") ~> AllOver
=============================================================================
