----------------------- MODULE RtcControllersProofs -----------------------
(***************************************************************************)
(* What the controllers guarantee, for any number of PIN requests, any     *)
(* file and any size of the buffers, however the app's calls, the tasks    *)
(* and the loss of the connection interleave.                              *)
(***************************************************************************)
EXTENDS RtcControllers, FiniteSetTheorems, TLAPS

----------------------------------------------------------------------------
(* The invariants *)

Modes == {"ref", "ref_mut"}

TypeInv ==
    /\ side \in {"S", "R"}
    /\ queue \in Seq(Wires[side] \X Modes)
    /\ round \in Nat /\ made \in Nat
    /\ bin \in Seq(Nat) /\ buffer \in Seq(Nat) /\ got \in Seq(Nat)
    /\ reader \in {"none", "offered", "reading", "over", "refused"}
    /\ choice \in {"none", "files", "declined"}
    /\ TypeOK

\* A request for a PIN is in one place only, and only while it is waited for.
PinInv ==
    /\ inner # "waitPin" => pinChan = <<>> /\ pinSlot = 0 /\ pinGiven = 0
    /\ inner = "waitPin" =>
         \/ pinChan = <<round>> /\ pinSlot = 0 /\ pinGiven = 0
         \/ pinChan = <<>> /\ pinSlot = round /\ pinGiven = 0
         \/ pinChan = <<>> /\ pinSlot = 0 /\ pinGiven = round

\* What the oneshot of the selection carries is the call that was accepted, and
\* only files make the receiving task go on.
SelectionInv ==
    side = "R" =>
        /\ choice = "none" => accepted = {}
        /\ choice = "files" => accepted = {"send_selection"}
        /\ choice = "declined" => accepted = {"decline"}
        /\ "selection" \in slots => choice = "none"
        /\ inner \in {"receiving", "file", "result", "last"} => choice = "files"
        /\ files = 1 \/ reader # "none" => choice = "files"

\* The outer task has told the app of the end when it is over, and the listener
\* of the statuses stays until it has shown it.
EndInv ==
    side = "R" =>
        /\ outer = "over" =>
             \/ shown \/ Freed
             \/ status # <<>> /\ Head(status) \in {"Finished", "Error"}
        /\ "status" \notin slots => shown \/ <<"listen_status", "ref">> \in held

\* The units n+1, n+2, ... of the content, in order.
Run(s, n) == s \in Seq(Nat) /\ \A i \in 1..Len(s) : s[i] = n + i

\* The content that has come out, that in the buffer and that in the channel
\* are the units made so far, one after the other.
ContentInv ==
    /\ Len(got) + Len(buffer) + Len(bin) = made
    /\ Run(got, 0) /\ Run(buffer, Len(got)) /\ Run(bin, Len(got) + Len(buffer))
    /\ side = "S" => buffer = <<>>
    /\ reader = "over" => bin = <<>> /\ buffer = <<>> /\ ~binOpen
    /\ files = 1 => reader = "offered"
    /\ inner = "file" => IF side = "R" THEN binOpen ELSE reader = "reading"

----------------------------------------------------------------------------
(* Calls of the app *)

\* What a call does besides taking and releasing the lock: nothing, when it
\* waits, starts or ends a stream, or one step of its method.
Method ==
    \/ UNCHANGED <<statuses, errors, pin, choices, file>>
    \/ listen_status \/ listen_error \/ send_pin
    \/ side = "S" /\ send_file
    \/ side = "R" /\ (send_selection \/ decline \/ listen_receiving \/ send_file_status)

\* Every wire function is such a call: it leaves the tasks alone, and takes things
\* out of their slots only.
LEMMA CallIsMethod ==
    ASSUME Streams \/ Answers
    PROVE  UNCHANGED <<side, disposed, core>> /\ slots' \subseteq slots /\ Method
<1>1. CASE \/ RtcReceiveController_listen_files \/ RtcSendController_listen_selected_files
  BY <1>1 DEF RtcReceiveController_listen_files, RtcSendController_listen_selected_files,
     Wire, Listen, Take, listen_files, listen_selected_files, Method
<1>2. CASE RtcReceiveController_listen_status \/ RtcSendController_listen_status
  BY <1>2 DEF RtcReceiveController_listen_status, RtcSendController_listen_status,
     Wire, Listen, Take, listen_status, Method
<1>3. CASE RtcReceiveController_listen_error \/ RtcSendController_listen_error
  BY <1>3 DEF RtcReceiveController_listen_error, RtcSendController_listen_error,
     Wire, Listen, Take, listen_error, Method
<1>4. CASE RtcReceiveController_listen_receiving
  BY <1>4 DEF RtcReceiveController_listen_receiving, Wire, Listen, Take, listen_receiving, Method
<1>5. CASE RtcReceiveController_send_pin \/ RtcSendController_send_pin
  BY <1>5 DEF RtcReceiveController_send_pin, RtcSendController_send_pin, Wire, send_pin, Method
<1>6. CASE RtcReceiveController_send_selection \/ RtcReceiveController_decline
  BY <1>6 DEF RtcReceiveController_send_selection, RtcReceiveController_decline, Wire,
     send_selection, decline, Choose, Take, Method
<1>7. CASE RtcReceiveController_send_file_status \/ RtcSendController_send_file
  BY <1>7 DEF RtcReceiveController_send_file_status, RtcSendController_send_file, Wire,
     send_file_status, send_file, Method
<1> QED BY <1>1, <1>2, <1>3, <1>4, <1>5, <1>6, <1>7 DEF Streams, Answers

\* A controller is one of the two for good.
LEMMA SideFixed == [Next]_vars => side' = side
<1> SUFFICES ASSUME [Next]_vars PROVE side' = side
  OBVIOUS
<1>1. CASE Streams \/ Answers
  BY <1>1, CallIsMethod
<1>2. CASE Inner
  BY <1>2 DEF Inner, VerifyPin, HandlePin, Connected, Selected, SendFiles, ShowFiles, ReceiveFiles
<1>3. CASE \/ RtcFileSender_send \/ RtcFileReceiver_receive \/ Dispose \/ Outer \/ Disconnect
           \/ InnerFails \/ PinTask \/ UNCHANGED vars
  BY <1>3 DEF RtcFileSender_send, RtcFileReceiver_receive, Dispose, Outer, ExchangeSdp,
     AwaitEnd, InnerEnds, Disconnect,
     InnerFails, PinTask, vars
<1> QED BY <1>1, <1>2, <1>3 DEF Next

----------------------------------------------------------------------------
(* PINs *)

\* Every step keeps a request for a PIN in one place.
LEMMA PinStep == TypeInv /\ PinInv /\ [Next]_vars => PinInv'
<1> SUFFICES ASSUME TypeInv, PinInv, [Next]_vars PROVE PinInv'
  OBVIOUS
<1>1. CASE Streams \/ Answers
  <2>1. UNCHANGED inner /\ Method
    BY <1>1, CallIsMethod DEF core
  <2>2. CASE send_pin
    BY <2>1, <2>2 DEF send_pin, PinTaken, PinInv
  <2>3. CASE UNCHANGED pin
    BY <2>1, <2>3 DEF PinInv, pin
  <2> QED BY <2>1, <2>2, <2>3 DEF Method, listen_status, listen_error, send_file,
             send_selection, decline, Choose, listen_receiving, send_file_status
<1>2. CASE HandlePin
  BY <1>2 DEF HandlePin, Report, Told, PinInv, TypeInv, pin
<1>3. CASE PinTask
  BY <1>3 DEF PinTask, MovesRequest, PinInv, core
<1>4. CASE VerifyPin \/ Connected
  BY <1>4 DEF VerifyPin, Connected, Report, PinInv, pin
<1>5. CASE Selected \/ SendFiles
  BY <1>5 DEF Selected, SendFiles, PinInv, pin
<1>6. CASE ShowFiles \/ ReceiveFiles
  BY <1>6 DEF ShowFiles, ReceiveFiles, PinInv, pin
<1>7. CASE InnerFails
  BY <1>7 DEF InnerFails, PinInv, pin
<1>8. CASE UNCHANGED <<inner, pin>>
  BY <1>8 DEF PinInv, pin
<1>9. CASE \/ RtcFileSender_send \/ RtcFileReceiver_receive \/ Dispose \/ Outer \/ Disconnect
           \/ UNCHANGED vars
  BY <1>8, <1>9 DEF RtcFileSender_send, RtcFileReceiver_receive, Dispose, Outer, ExchangeSdp,
     AwaitEnd, InnerEnds, Disconnect,
     vars, core
<1> QED BY <1>1, <1>2, <1>3, <1>4, <1>5, <1>6, <1>7, <1>9 DEF Next, Inner

----------------------------------------------------------------------------
(* Selection *)

\* Every step keeps the selection and the refusal apart.
LEMMA SelectionStep == TypeInv /\ SelectionInv /\ [Next]_vars => SelectionInv'
<1> SUFFICES ASSUME TypeInv, SelectionInv, [Next]_vars PROVE SelectionInv'
  OBVIOUS
<1>1. CASE Streams \/ Answers
  <2>1. UNCHANGED <<side, inner>> /\ slots' \subseteq slots /\ Method
    BY <1>1, CallIsMethod DEF core
  <2>2. CASE side = "R" /\ (send_selection \/ decline)
    BY <2>1, <2>2 DEF send_selection, decline, Choose, Take, InnerOver, SelectionInv, TypeInv, file
  <2>3. CASE side = "R" /\ (listen_receiving \/ send_file_status)
    BY <2>1, <2>3 DEF listen_receiving, send_file_status, SelectionInv, choices
  <2>4. CASE UNCHANGED <<accepted, choice, files, reader>>
    BY <2>1, <2>4 DEF SelectionInv
  <2> QED BY <2>1, <2>2, <2>3, <2>4 DEF Method, listen_status, listen_error, send_pin,
             send_file, choices, file, SelectionInv
<1>2. CASE VerifyPin \/ HandlePin \/ Connected
  BY <1>2 DEF VerifyPin, HandlePin, Connected, Report, SelectionInv, choices, file
<1>3. CASE Selected \/ SendFiles
  BY <1>3 DEF Selected, SendFiles, SelectionInv
<1>4. CASE ShowFiles
  BY <1>4 DEF ShowFiles, GoesOn, SelectionInv, file
<1>5. CASE ReceiveFiles
  BY <1>5 DEF ReceiveFiles, SelectionInv, choices
<1>6. CASE InnerFails
  BY <1>6 DEF InnerFails, SelectionInv, choices
<1>7. CASE RtcFileReceiver_receive
  BY <1>7 DEF RtcFileReceiver_receive, receive, buffer_receiver, SelectionInv, core, choices
<1>8. CASE UNCHANGED <<side, inner, slots, accepted, choice, files, reader>>
  BY <1>8 DEF SelectionInv
<1>9. CASE \/ RtcFileSender_send \/ Dispose \/ Outer \/ Disconnect \/ PinTask
           \/ UNCHANGED vars
  BY <1>8, <1>9 DEF RtcFileSender_send, Dispose, Outer, ExchangeSdp, AwaitEnd, InnerEnds,
     Disconnect, PinTask, vars, core,
     choices, file
<1> QED BY <1>1, <1>2, <1>3, <1>4, <1>5, <1>6, <1>7, <1>9 DEF Next, Inner

----------------------------------------------------------------------------
(* The end of the status stream *)

\* What a call of the receiving app does with the lock and the statuses.
LEMMA StatusCall ==
    ASSUME TypeInv, side = "R", Streams \/ Answers
    PROVE  /\ UNCHANGED <<side, disposed, core>>
           /\ Freed => FALSE
           /\ \/ /\ status # <<>> /\ status' = <<>> /\ UNCHANGED <<slots, held>>
                 /\ shown' = (shown \/ Head(status) \in {"Finished", "Error"})
              \/ /\ status = <<>> /\ AllOver /\ <<"listen_status", "ref">> \in held
                 /\ UNCHANGED <<slots, statuses>>
              \/ /\ UNCHANGED statuses
                 /\ "status" \notin slots' =>
                       "status" \notin slots \/ <<"listen_status", "ref">> \in held'
                 /\ <<"listen_status", "ref">> \in held => <<"listen_status", "ref">> \in held'
<1>1. ToSet(<<>>) = {} /\ (queue # <<>> => Head(queue) \in ToSet(queue))
  BY DEF ToSet, TypeInv
<1>2. Freed => FALSE
  BY <1>1
  DEF Freed, Calls, Streams, Answers, Wire, 
     RtcReceiveController_listen_files, RtcSendController_listen_selected_files,
     RtcReceiveController_listen_status, RtcSendController_listen_status,
     RtcReceiveController_listen_error, RtcSendController_listen_error,
     RtcReceiveController_listen_receiving, RtcReceiveController_send_pin,
     RtcSendController_send_pin, RtcReceiveController_send_selection,
     RtcReceiveController_decline, RtcReceiveController_send_file_status,
     RtcSendController_send_file
<1>3. CASE RtcReceiveController_listen_status
  BY <1>2, <1>3 DEF RtcReceiveController_listen_status, Wire, Listen, Take, Holds, Returns,
     listen_status, statuses
<1>4. CASE RtcReceiveController_listen_files \/ RtcReceiveController_listen_error
  BY <1>2, <1>4 DEF RtcReceiveController_listen_files, RtcReceiveController_listen_error,
     Wire, Listen, Take, Holds, Returns, listen_files, listen_error
<1>5. CASE RtcReceiveController_listen_receiving
  BY <1>2, <1>5 DEF RtcReceiveController_listen_receiving,
     Wire, Listen, Take, Holds, Returns, listen_receiving
<1>6. CASE RtcReceiveController_send_pin \/ RtcReceiveController_send_file_status
  BY <1>2, <1>6 DEF RtcReceiveController_send_pin, RtcReceiveController_send_file_status,
     Wire, send_pin, send_file_status
<1>7. CASE RtcReceiveController_send_selection \/ RtcReceiveController_decline
  BY <1>2, <1>7 DEF RtcReceiveController_send_selection, RtcReceiveController_decline, Wire,
     send_selection, decline, Choose, Take
<1> QED BY <1>3, <1>4, <1>5, <1>6, <1>7
  DEF Streams, Answers, RtcSendController_listen_selected_files,
      RtcSendController_listen_status, RtcSendController_listen_error,
      RtcSendController_send_pin, RtcSendController_send_file

\* Once the handle and all calls are gone, nothing brings the controller back.
\* A status that is told is there to be read, unless nobody can read it.
LEMMA EndStep == TypeInv /\ EndInv /\ [Next]_vars => EndInv'
<1> SUFFICES ASSUME TypeInv, EndInv, [Next]_vars, side = "R" PROVE EndInv'
  BY SideFixed DEF EndInv
<1>1. CASE Streams \/ Answers
  BY <1>1, StatusCall DEF EndInv, statuses, core, AllOver
<1>3. CASE Outer
  BY <1>3 DEF Outer, ExchangeSdp, AwaitEnd, InnerEnds, Told, ErrorTold, EndInv, lock, Freed,
     Calls, statuses
<1>4. CASE VerifyPin \/ HandlePin \/ Connected
  BY <1>4 DEF VerifyPin, HandlePin, Connected, Report, Told, EndInv, lock, Freed, Calls, statuses
<1>5. CASE Selected
  BY <1>5 DEF Selected, Told, EndInv, lock, Freed, Calls, statuses
<1>6. CASE Dispose
  BY <1>6 DEF Dispose, EndInv, core, statuses, Freed, Calls
<1>7. CASE \/ SendFiles \/ ShowFiles \/ ReceiveFiles \/ InnerFails \/ PinTask \/ Disconnect
           \/ RtcFileSender_send \/ RtcFileReceiver_receive \/ UNCHANGED vars
  <2>1. UNCHANGED <<side, lock, slots, statuses>> /\ (outer' = "over" => outer = "over")
    BY <1>7 DEF SendFiles, ShowFiles, ReceiveFiles, InnerFails, PinTask, Disconnect,
       RtcFileSender_send, RtcFileReceiver_receive, vars, core
  <2> QED BY <2>1 DEF EndInv, lock, Freed, Calls, statuses
<1> QED BY <1>1, <1>3, <1>4, <1>5, <1>6, <1>7 DEF Next, Inner

----------------------------------------------------------------------------
(* Content *)

\* The next unit extends a run.
LEMMA RunAppend ==
    ASSUME NEW s, NEW n \in Nat, NEW x, Run(s, n), x = n + Len(s) + 1
    PROVE  Run(Append(s, x), n) /\ Len(Append(s, x)) = Len(s) + 1
<1>1. s \in Seq(Nat) /\ Len(s) \in Nat /\ x \in Nat
  BY DEF Run
<1>2. Append(s, x) \in Seq(Nat) /\ Len(Append(s, x)) = Len(s) + 1
  BY <1>1
<1>3. ASSUME NEW i \in 1..Len(s) + 1
      PROVE  Append(s, x)[i] = n + i
  <2>1. CASE i = Len(s) + 1
    BY <1>1, <2>1
  <2>2. CASE i \in 1..Len(s)
    BY <1>1, <2>2 DEF Run
  <2> QED BY <1>1, <2>1, <2>2
<1> QED BY <1>2, <1>3 DEF Run

\* Two adjacent runs are one.
LEMMA RunJoin ==
    ASSUME NEW s, NEW t, NEW n \in Nat, Run(s, n), Run(t, n + Len(s))
    PROVE  Run(s \o t, n) /\ Len(s \o t) = Len(s) + Len(t)
<1>1. s \in Seq(Nat) /\ t \in Seq(Nat) /\ Len(s) \in Nat /\ Len(t) \in Nat
  BY DEF Run
<1>2. s \o t \in Seq(Nat) /\ Len(s \o t) = Len(s) + Len(t)
  BY <1>1
<1>3. ASSUME NEW i \in 1..Len(s) + Len(t)
      PROVE  (s \o t)[i] = n + i
  <2>1. CASE i \in 1..Len(s)
    BY <1>1, <2>1 DEF Run
  <2>2. CASE i - Len(s) \in 1..Len(t)
    <3>1. (s \o t)[i] = t[i - Len(s)]
      BY <1>1, <2>2
    <3>2. t[i - Len(s)] = n + Len(s) + (i - Len(s))
      BY <2>2 DEF Run
    <3> QED BY <1>1, <3>1, <3>2
  <2> QED BY <1>1, <2>1, <2>2
<1> QED BY <1>2, <1>3 DEF Run

\* The head of a run is its first unit, and the tail the run after it.
LEMMA RunTail ==
    ASSUME NEW s, NEW n \in Nat, Run(s, n), s # <<>>
    PROVE  Head(s) = n + 1 /\ Run(Tail(s), n + 1) /\ Len(Tail(s)) = Len(s) - 1
<1>1. s \in Seq(Nat) /\ Len(s) \in Nat /\ Len(s) > 0 /\ Head(s) = s[1]
  BY DEF Run
<1>2. Tail(s) \in Seq(Nat) /\ Len(Tail(s)) = Len(s) - 1
  BY <1>1
<1>3. ASSUME NEW i \in 1..Len(Tail(s))
      PROVE  Tail(s)[i] = n + 1 + i
  <2>1. Tail(s)[i] = s[i + 1] /\ i + 1 \in 1..Len(s)
    BY <1>1, <1>2
  <2>2. s[i + 1] = n + (i + 1)
    BY <2>1 DEF Run
  <2> QED BY <2>1, <2>2
<1> QED BY <1>1, <1>2, <1>3 DEF Run

\* Nothing is a run.
LEMMA RunEmpty == ASSUME NEW n PROVE Run(<<>>, n)
  BY DEF Run

\* The lengths are numbers.
LEMMA Lengths ==
    ASSUME ContentInv
    PROVE  Len(got) \in Nat /\ Len(buffer) \in Nat /\ Len(bin) \in Nat
  BY DEF ContentInv, Run

\* A unit that enters the channel is the next one.
LEMMA ContentMade ==
    ASSUME TypeInv, ContentInv, reader # "over",
           bin' = Append(bin, made + 1), made' = made + 1, binOpen' = binOpen,
           UNCHANGED <<side, inner, files, reader, buffer, got>>
    PROVE  ContentInv'
<1>1. Run(bin', Len(got) + Len(buffer)) /\ Len(bin') = Len(bin) + 1
  BY Lengths, RunAppend DEF ContentInv
<1> QED BY <1>1, Lengths DEF ContentInv

\* The steps that only change who reads and who writes.
LEMMA ContentKept ==
    ASSUME TypeInv, ContentInv, UNCHANGED <<side, bin, made, buffer, got>>,
           reader' = "over" => reader = "over" /\ (binOpen' => binOpen),
           files' = 1 => reader' = "offered",
           inner' = "file" => IF side = "R" THEN binOpen' ELSE reader' = "reading"
    PROVE  ContentInv'
  BY DEF ContentInv

\* The head of the channel is the next unit.
LEMMA ContentHead ==
    ASSUME ContentInv, bin # <<>>
    PROVE  /\ Head(bin) = Len(got) + Len(buffer) + 1
           /\ Len(Tail(bin)) = Len(bin) - 1
           /\ Run(Tail(bin), Len(got) + Len(buffer) + 1)
  BY Lengths, RunTail DEF ContentInv

\* A step of buffer_receiver passes the next unit on, or the rest at the end.
LEMMA ContentReceived ==
    ASSUME TypeInv, ContentInv, side = "R", reader = "reading", buffer_receiver,
           UNCHANGED <<side, inner, files, binOpen, made>>
    PROVE  ContentInv' /\ Len(buffer') < BufferSize
<1> DEFINE b == Append(buffer, Head(bin))
<1> USE Lengths
<1>0. 0 < BufferSize
  BY BoundsAssumption
<1>1. CASE bin # <<>> /\ bin' = Tail(bin) /\ UNCHANGED reader /\ ~Full(b)
           /\ buffer' = b /\ UNCHANGED got
  <2>1. Run(b, Len(got)) /\ Len(b) = Len(buffer) + 1
    BY <1>1, ContentHead, RunAppend DEF ContentInv
  <2>2. Len(buffer') < BufferSize
    BY <1>1, <2>1, BoundsAssumption DEF Full
  <2>3. Len(got) + Len(buffer') = Len(got) + Len(buffer) + 1
    BY <1>1, <2>1
  <2>4. Len(got') + Len(buffer') + Len(bin') = made'
    BY <1>1, <2>1, ContentHead DEF ContentInv
  <2>5. Run(bin', Len(got') + Len(buffer'))
    BY <1>1, <2>3, ContentHead
  <2> QED BY <1>1, <2>1, <2>2, <2>4, <2>5 DEF ContentInv
<1>2. CASE bin # <<>> /\ bin' = Tail(bin) /\ UNCHANGED reader /\ Full(b)
           /\ got' = got \o b /\ buffer' = <<>>
  <2>1. Run(b, Len(got)) /\ Len(b) = Len(buffer) + 1
    BY <1>2, ContentHead, RunAppend DEF ContentInv
  <2>2. Run(got', 0) /\ Len(got') = Len(got) + Len(buffer) + 1
    BY <1>2, <2>1, RunJoin DEF ContentInv
  <2>3. Run(buffer', Len(got')) /\ Len(buffer') = 0
    BY <1>2, RunEmpty
  <2>4. Len(got') + Len(buffer') = Len(got) + Len(buffer) + 1
    BY <2>2, <2>3
  <2>5. Len(got') + Len(buffer') + Len(bin') = made'
    BY <1>2, <2>4, ContentHead DEF ContentInv
  <2>6. Run(bin', Len(got') + Len(buffer'))
    BY <1>2, <2>4, ContentHead
  <2> QED BY <1>0, <1>2, <2>2, <2>3, <2>5, <2>6 DEF ContentInv
<1>3. CASE bin = <<>> /\ ~binOpen /\ got' = got \o buffer /\ buffer' = <<>>
           /\ reader' = "over" /\ UNCHANGED bin
  <2>1. Run(got', 0) /\ Len(got') = Len(got) + Len(buffer)
    BY <1>3, RunJoin DEF ContentInv
  <2>2. Run(buffer', Len(got')) /\ Len(buffer') = 0
    BY <1>3, RunEmpty
  <2>3. Len(got') + Len(buffer') = Len(got) + Len(buffer)
    BY <2>1, <2>2
  <2>4. Len(got') + Len(buffer') + Len(bin') = made'
    BY <1>3, <2>3 DEF ContentInv
  <2>5. Run(bin', Len(got') + Len(buffer'))
    BY <1>3, <2>3 DEF ContentInv
  <2>6. files # 1
    BY DEF ContentInv
  <2> QED BY <1>0, <1>3, <2>1, <2>2, <2>4, <2>5, <2>6 DEF ContentInv
<1> QED BY <1>1, <1>2, <1>3 DEF buffer_receiver, Flush

\* Every step keeps the content in order and complete.
LEMMA ContentStep == TypeInv /\ ContentInv /\ [Next]_vars => ContentInv'
<1> SUFFICES ASSUME TypeInv, ContentInv, [Next]_vars PROVE ContentInv'
  OBVIOUS
<1>1. CASE Streams \/ Answers
  <2>1. UNCHANGED <<side, inner>> /\ Method
    BY <1>1, CallIsMethod DEF core
  <2>2. CASE side = "S" /\ send_file
    BY <2>1, <2>2, ContentKept DEF send_file, ContentInv
  <2>3. CASE side = "R" /\ listen_receiving
    BY <2>1, <2>3, ContentKept DEF listen_receiving, ContentInv, TypeInv, TypeOK
  <2>4. CASE UNCHANGED <<files, reader, bin, binOpen, made, buffer, got>>
    BY <2>1, <2>4, ContentKept DEF ContentInv
  <2> QED BY <2>1, <2>2, <2>3, <2>4 DEF Method, listen_status, listen_error, send_pin,
             send_selection, decline, Choose, send_file_status, file
<1>2. CASE VerifyPin \/ HandlePin \/ Connected \/ Selected
  BY <1>2, ContentKept DEF VerifyPin, HandlePin, Connected, Selected, Report, ContentInv, file
<1>3. CASE SendFiles
  <2>1. CASE inner = "file" /\ bin # <<>> /\ got' = Append(got, Head(bin)) /\ bin' = Tail(bin)
             /\ UNCHANGED <<side, inner, files, reader, binOpen, made, buffer>>
    <3>1. side = "S" /\ buffer = <<>>
      BY <1>3 DEF SendFiles, ContentInv
    <3>2. Run(got', 0) /\ Len(got') = Len(got) + 1 /\ Len(buffer) = 0
      BY <2>1, <3>1, Lengths, ContentHead, RunAppend DEF ContentInv
    <3>3. Len(got') + Len(buffer') = Len(got) + Len(buffer) + 1
      BY <2>1, <3>2, Lengths
    <3>4. Len(got') + Len(buffer') + Len(bin') = made'
      BY <2>1, <3>3, Lengths, ContentHead DEF ContentInv
    <3>5. Run(bin', Len(got') + Len(buffer')) /\ Run(buffer', Len(got'))
      BY <2>1, <3>1, <3>3, ContentHead, RunEmpty
    <3> QED BY <2>1, <3>1, <3>2, <3>4, <3>5 DEF ContentInv
  <2>2. CASE inner = "file" /\ inner' = "sending" /\ bin = <<>> /\ ~binOpen /\ reader' = "over"
             /\ UNCHANGED <<side, files, bin, got, binOpen, made, buffer>>
    BY <1>3, <2>2 DEF ContentInv, SendFiles
  <2> QED BY <1>3, <2>1, <2>2, ContentKept DEF SendFiles, ContentInv
<1>4. CASE ShowFiles
  BY <1>4, ContentKept DEF ShowFiles, ContentInv, file
<1>5. CASE ReceiveFiles
  <2>1. CASE inner = "file" /\ made < Units /\ bin' = Append(bin, made + 1) /\ made' = made + 1
             /\ UNCHANGED <<side, inner, files, reader, binOpen, buffer, got>>
    <3>1. reader # "over"
      BY <1>5, <2>1 DEF ReceiveFiles, ContentInv
    <3> QED BY <2>1, <3>1, ContentMade
  <2> QED BY <1>5, <2>1, ContentKept DEF ReceiveFiles, ContentInv
<1>6. CASE InnerFails
  BY <1>6, ContentKept DEF InnerFails, ContentInv
<1>7. CASE RtcFileReceiver_receive
  BY <1>7, ContentReceived DEF RtcFileReceiver_receive, receive, core
<1>8. CASE RtcFileSender_send
  <2>1. CASE send
    <3>1. reader # "over"
      BY <1>8 DEF RtcFileSender_send, ContentInv
    <3> QED BY <1>8, <2>1, <3>1, ContentMade DEF RtcFileSender_send, send, core
  <2>2. CASE binOpen' = FALSE /\ UNCHANGED <<bin, made>>
    BY <1>8, <2>2, ContentKept DEF RtcFileSender_send, ContentInv, core
  <2> QED BY <1>8, <2>1, <2>2 DEF RtcFileSender_send
<1>9. CASE \/ Dispose \/ Outer \/ Disconnect \/ PinTask \/ UNCHANGED vars
  BY <1>9, ContentKept DEF Dispose, Outer, ExchangeSdp, AwaitEnd, InnerEnds, Disconnect,
     PinTask, vars, core, file, ContentInv
<1> QED BY <1>1, <1>2, <1>3, <1>4, <1>5, <1>6, <1>7, <1>8, <1>9 DEF Next, Inner

----------------------------------------------------------------------------
(* Types *)

\* The calls that wait for the lock or hold it are methods of the controller.
LEMMA CallTyped ==
    ASSUME TypeInv, Streams \/ Answers
    PROVE  queue' \in Seq(Wires[side] \X Modes) /\ held' \subseteq Wires[side] \X Modes
<1> DEFINE W == Wires[side] \X Modes
<1>1. ASSUME NEW op \in Wires[side], NEW mode \in Modes,
             \/ queue' = queue
             \/ queue' = Append(queue, <<op, mode>>)
             \/ queue # <<>> /\ queue' = Tail(queue)
      PROVE  queue' \in Seq(W)
  <2>1. queue \in Seq(W) /\ <<op, mode>> \in W
    BY DEF TypeInv
  <2> HIDE DEF W
  <2> QED BY <1>1, <2>1
<1>2. ASSUME NEW op \in Wires[side], NEW mode \in Modes,
             held' = held \/ Holds(op, mode) \/ Returns(op)
      PROVE  held' \subseteq W
  BY <1>2 DEF Holds, Returns, TypeInv, TypeOK, Modes
<1>3. side = "R" => Wires[side] = {"listen_status", "listen_files", "listen_error",
            "listen_receiving", "send_pin", "send_selection", "decline", "send_file_status"}
  BY DEF Wires
<1>4. side = "S" => Wires[side] = {"listen_status", "listen_selected_files", "listen_error",
            "send_pin", "send_file"}
  BY DEF Wires
<1>5. "ref" \in Modes /\ "ref_mut" \in Modes
  BY DEF Modes
<1> HIDE DEF W
<1> DEFINE Lock(op, mode) ==
        /\ \/ queue' = queue
           \/ queue' = Append(queue, <<op, mode>>)
           \/ queue # <<>> /\ queue' = Tail(queue)
        /\ held' = held \/ Holds(op, mode) \/ Returns(op)
<1>6. CASE RtcReceiveController_listen_files
  <2>1. Lock("listen_files", "ref")
    BY <1>6 DEF RtcReceiveController_listen_files, Wire, Listen, listen_files
  <2> QED BY <1>1, <1>2, <1>3, <1>5, <1>6, <2>1 DEF RtcReceiveController_listen_files, W
<1>7. CASE RtcReceiveController_listen_status
  <2>1. Lock("listen_status", "ref")
    BY <1>7 DEF RtcReceiveController_listen_status, Wire, Listen, listen_status
  <2> QED BY <1>1, <1>2, <1>3, <1>5, <1>7, <2>1 DEF RtcReceiveController_listen_status, W
<1>8. CASE RtcReceiveController_listen_error
  <2>1. Lock("listen_error", "ref")
    BY <1>8 DEF RtcReceiveController_listen_error, Wire, Listen, listen_error
  <2> QED BY <1>1, <1>2, <1>3, <1>5, <1>8, <2>1 DEF RtcReceiveController_listen_error, W
<1>9. CASE RtcReceiveController_listen_receiving
  <2>1. Lock("listen_receiving", "ref")
    BY <1>9 DEF RtcReceiveController_listen_receiving, Wire, Listen, listen_receiving
  <2> QED BY <1>1, <1>2, <1>3, <1>5, <1>9, <2>1 DEF RtcReceiveController_listen_receiving, W
<1>10. CASE RtcReceiveController_send_pin
  <2>1. Lock("send_pin", "ref")
    BY <1>10 DEF RtcReceiveController_send_pin, Wire, send_pin
  <2> QED BY <1>1, <1>2, <1>3, <1>5, <1>10, <2>1 DEF RtcReceiveController_send_pin, W
<1>11. CASE RtcReceiveController_send_selection
  <2>1. Lock("send_selection", "ref")
    BY <1>11 DEF RtcReceiveController_send_selection, Wire, send_selection, Choose
  <2> QED BY <1>1, <1>2, <1>3, <1>5, <1>11, <2>1 DEF RtcReceiveController_send_selection, W
<1>12. CASE RtcReceiveController_decline
  <2>1. Lock("decline", "ref")
    BY <1>12 DEF RtcReceiveController_decline, Wire, decline, Choose
  <2> QED BY <1>1, <1>2, <1>3, <1>5, <1>12, <2>1 DEF RtcReceiveController_decline, W
<1>13. CASE RtcReceiveController_send_file_status
  <2>1. Lock("send_file_status", "ref")
    BY <1>13 DEF RtcReceiveController_send_file_status, Wire, send_file_status
  <2> QED BY <1>1, <1>2, <1>3, <1>5, <1>13, <2>1 DEF RtcReceiveController_send_file_status, W
<1>14. CASE RtcSendController_listen_status
  <2>1. Lock("listen_status", "ref_mut")
    BY <1>14 DEF RtcSendController_listen_status, Wire, Listen, listen_status
  <2> QED BY <1>1, <1>2, <1>4, <1>5, <1>14, <2>1 DEF RtcSendController_listen_status, W
<1>15. CASE RtcSendController_listen_error
  <2>1. Lock("listen_error", "ref_mut")
    BY <1>15 DEF RtcSendController_listen_error, Wire, Listen, listen_error
  <2> QED BY <1>1, <1>2, <1>4, <1>5, <1>15, <2>1 DEF RtcSendController_listen_error, W
<1>16. CASE RtcSendController_listen_selected_files
  <2>1. Lock("listen_selected_files", "ref")
    BY <1>16 DEF RtcSendController_listen_selected_files, Wire, Listen, listen_selected_files
  <2> QED BY <1>1, <1>2, <1>4, <1>5, <1>16, <2>1 DEF RtcSendController_listen_selected_files, W
<1>17. CASE RtcSendController_send_pin
  <2>1. Lock("send_pin", "ref")
    BY <1>17 DEF RtcSendController_send_pin, Wire, send_pin
  <2> QED BY <1>1, <1>2, <1>4, <1>5, <1>17, <2>1 DEF RtcSendController_send_pin, W
<1>18. CASE RtcSendController_send_file
  <2>1. Lock("send_file", "ref")
    BY <1>18 DEF RtcSendController_send_file, Wire, send_file
  <2> QED BY <1>1, <1>2, <1>4, <1>5, <1>18, <2>1 DEF RtcSendController_send_file, W
<1> QED BY <1>6, <1>7, <1>8, <1>9, <1>10, <1>11, <1>12, <1>13, <1>14, <1>15, <1>16, <1>17, <1>18
        DEF Streams, Answers, W

\* The variables that are neither of the lock nor sequences.
Plain ==
    /\ slots \subseteq Slots(side)
    /\ round \in Nat /\ made \in Nat
    /\ reader \in {"none", "offered", "reading", "over", "refused"}
    /\ choice \in {"none", "files", "declined"}
    /\ inner \in {"start", "verifying", "request", "waitPin", "pinSent", "list", "select",
                  "sending", "receiving", "file", "result", "last", "done", "err"}
    /\ outer \in {"sdp", "tell", "select", "finish", "error", "over"}
    /\ link \in {"none", "open", "lost"}
    /\ Len(status) <= 1
    /\ errors \in 0..1 /\ files \in 0..1 /\ results \in 0..1

\* A status is put into the channel only when there is room.
LEMMA ToldFits ==
    ASSUME NEW st, Len(status) <= 1, Told(st)
    PROVE  Len(status') <= 1
<1>1. status' = status \/ status' = <<st>>
  BY DEF Told
<1>2. CASE status' = status
  BY <1>2
<1>3. CASE status' = <<st>>
  <2>1. Len(status') = 1
    BY <1>3
  <2> QED BY <2>1
<1> QED BY <1>1, <1>2, <1>3

\* Every step keeps their types.
LEMMA PlainStep == TypeInv /\ [Next]_vars => Plain'
<1> SUFFICES ASSUME Plain, [Next]_vars PROVE Plain'
  BY DEF Plain, TypeInv, TypeOK
<1>0. side' = side
  BY SideFixed
<1> USE ToldFits
<1>1. CASE Streams \/ Answers
  <2>1. UNCHANGED <<side, disposed, core>> /\ slots' \subseteq slots /\ Method
    BY <1>1, CallIsMethod
  <2>2. CASE listen_status \/ listen_error \/ send_pin \/ send_file_status
    BY <2>1, <2>2 DEF Plain, core, listen_status, listen_error, send_pin, send_file_status,
       statuses, pin, choices, file
  <2>3. CASE send_file \/ send_selection \/ decline \/ listen_receiving
    BY <2>1, <2>3 DEF Plain, core, send_file, send_selection, decline, Choose, listen_receiving,
       statuses, pin, choices, file
  <2>4. CASE UNCHANGED <<statuses, errors, pin, choices, file>>
    BY <2>1, <2>4 DEF Plain, core, statuses, pin, choices, file
  <2> QED BY <2>1, <2>2, <2>3, <2>4 DEF Method
<1>2. CASE VerifyPin \/ Connected
  BY <1>2 DEF Plain, VerifyPin, Connected, Report, lock, statuses, pin, choices, file
<1>3. CASE HandlePin
  BY <1>3 DEF Plain, HandlePin, Report, lock, statuses, pin, choices, file
<1>4. CASE Selected \/ ShowFiles
  BY <1>4 DEF Plain, Selected, ShowFiles, lock, statuses, pin, choices, file
<1>5. CASE SendFiles
  BY <1>5 DEF Plain, SendFiles, lock, statuses, pin, choices
<1>6. CASE ReceiveFiles
  BY <1>6 DEF Plain, ReceiveFiles, lock, statuses, pin, choices
<1>7. CASE InnerFails
  BY <1>7 DEF Plain, InnerFails, lock, statuses, pin, choices
<1>8. CASE Outer \/ Disconnect
  BY <1>8 DEF Plain, Outer, ExchangeSdp, AwaitEnd, InnerEnds, Disconnect, ErrorTold, lock,
     statuses, pin, choices, file
<1>9. CASE RtcFileReceiver_receive
  BY <1>9 DEF Plain, RtcFileReceiver_receive, receive, buffer_receiver, lock, core, statuses,
     pin, choices
<1>10. CASE RtcFileSender_send
  <2>1. /\ made' = made + 1 \/ made' = made
        /\ UNCHANGED <<slots, inner, outer, link, statuses, errors, round, choices, files, results,
                       reader>>
    BY <1>10 DEF RtcFileSender_send, send, core, pin
  <2> QED BY <1>0, <2>1 DEF Plain, statuses, choices
<1>11. CASE Dispose \/ PinTask \/ UNCHANGED vars
  BY <1>11 DEF Plain, Dispose, PinTask, vars, lock, core, statuses, pin, choices, file
<1> QED BY <1>1, <1>2, <1>3, <1>4, <1>5, <1>6, <1>7, <1>8, <1>9, <1>10, <1>11 DEF Next, Inner

\* No step puts more into the content's channel and buffer than fits.
LEMMA CapacityStep ==
    ASSUME TypeInv, ContentInv, [Next]_vars
    PROVE  Len(bin') <= BinCap /\ Len(buffer') < BufferSize
<1> DEFINE Kept == bin' = bin /\ buffer' = buffer
           Made == bin' = Append(bin, made + 1) /\ Len(bin) < BinCap /\ buffer' = buffer
           Sent == bin # <<>> /\ bin' = Tail(bin) /\ buffer' = buffer
<1>0. bin \in Seq(Nat) /\ made \in Nat /\ BinCap \in Nat /\ Len(bin) <= BinCap
      /\ Len(buffer) < BufferSize
  BY BoundsAssumption DEF TypeInv, TypeOK
<1>1. CASE Kept
  BY <1>0, <1>1
<1>2. CASE Made
  BY <1>0, <1>2
<1>3. CASE Sent
  BY <1>0, <1>3
<1>4. CASE Streams \/ Answers
  BY <1>1, <1>4, CallIsMethod DEF Method, listen_status, listen_error, send_pin,
     send_file_status, send_file, send_selection, decline, Choose, listen_receiving, file
<1>5. CASE RtcFileReceiver_receive
  <2>1. Len(buffer') < BufferSize
    BY <1>5, ContentReceived DEF RtcFileReceiver_receive, receive, core
  <2>2. bin' = bin \/ (bin # <<>> /\ bin' = Tail(bin))
    BY <1>5 DEF RtcFileReceiver_receive, receive, buffer_receiver
  <2> QED BY <1>0, <2>1, <2>2
<1>6. CASE RtcFileSender_send
  BY <1>1, <1>2, <1>6 DEF RtcFileSender_send, send
<1>7. CASE SendFiles
  BY <1>1, <1>3, <1>7 DEF SendFiles
<1>8. CASE ReceiveFiles
  BY <1>1, <1>2, <1>8 DEF ReceiveFiles
<1>9. CASE \/ VerifyPin \/ HandlePin \/ Connected \/ Selected \/ ShowFiles \/ InnerFails
           \/ Outer \/ Disconnect \/ Dispose \/ PinTask \/ UNCHANGED vars
  BY <1>1, <1>9 DEF VerifyPin, HandlePin, Connected, Selected, ShowFiles, InnerFails, Outer,
     ExchangeSdp, AwaitEnd, InnerEnds, Disconnect, Dispose, PinTask, vars, file
<1> QED BY <1>4, <1>5, <1>6, <1>7, <1>8, <1>9 DEF Next, Inner

\* Every step keeps the types and the capacities.
LEMMA TypeStep == TypeInv /\ PinInv /\ ContentInv /\ [Next]_vars => TypeInv'
<1> SUFFICES ASSUME TypeInv, PinInv, ContentInv, [Next]_vars PROVE TypeInv'
  OBVIOUS
<1>1. side' = side /\ Plain' /\ Len(bin') <= BinCap /\ Len(buffer') < BufferSize
  BY SideFixed, PlainStep, CapacityStep
<1>2. bin' \in Seq(Nat) /\ buffer' \in Seq(Nat) /\ got' \in Seq(Nat)
  BY ContentStep DEF ContentInv, Run
<1>3. Len(pinChan') <= 1
  <2>1. pinChan' = <<>> \/ pinChan' = <<round'>>
    BY PinStep DEF PinInv
  <2>2. CASE pinChan' = <<>>
    BY <2>2
  <2>3. CASE pinChan' = <<round'>>
    <3>1. Len(pinChan') = 1
      BY <2>3
    <3> QED BY <3>1
  <2> QED BY <2>1, <2>2, <2>3
<1>4. queue' \in Seq(Wires[side] \X Modes) /\ held' \subseteq Wires[side] \X Modes
  <2>1. CASE UNCHANGED <<queue, held>>
    BY <2>1 DEF TypeInv, TypeOK, Modes
  <2>2. CASE Streams \/ Answers
    BY <2>2, CallTyped
  <2> QED BY <2>1, <2>2 DEF Next, Inner, VerifyPin, HandlePin, Connected, Selected, SendFiles,
             ShowFiles, ReceiveFiles, InnerFails, Outer, ExchangeSdp, AwaitEnd, InnerEnds,
     Disconnect, Dispose, PinTask,
             RtcFileSender_send, RtcFileReceiver_receive, vars, lock
<1>5. side \in {"S", "R"}
  BY DEF TypeInv
<1> QED BY <1>1, <1>2, <1>3, <1>4, <1>5 DEF TypeInv, TypeOK, Plain, Modes

----------------------------------------------------------------------------
(* The theorems *)

AllInv == TypeInv /\ PinInv /\ SelectionInv /\ EndInv /\ ContentInv

\* The invariants hold when the controller has been created.
LEMMA InitAll == Init => AllInv
<1> SUFFICES ASSUME Init PROVE AllInv
  OBVIOUS
<1>1. TypeInv
  <2>1. 0 < BufferSize /\ 0 <= BinCap
    BY BoundsAssumption
  <2>2. side \in {"S", "R"}
    BY SidesAssumption DEF Init
  <2> QED BY <2>1, <2>2 DEF Init, TypeInv, TypeOK, Slots
<1>2. PinInv
  BY DEF Init, PinInv
<1>3. SelectionInv
  BY DEF Init, SelectionInv
<1>4. EndInv
  BY DEF Init, EndInv, Slots
<1>5. ContentInv
  BY RunEmpty DEF Init, ContentInv
<1> QED BY <1>1, <1>2, <1>3, <1>4, <1>5 DEF AllInv

\* The invariants hold throughout.
LEMMA Always == Spec => []AllInv
<1>1. AllInv /\ [Next]_vars => AllInv'
  BY TypeStep, PinStep, SelectionStep, EndStep, ContentStep DEF AllInv
<1> QED BY InitAll, <1>1, PTL DEF Spec

\* No channel of a controller exceeds its capacity, the lock is held and awaited by
\* methods of that controller only, and buffer_receiver's buffer stays below
\* BUFFER_SIZE.
THEOREM TypeCorrect == Spec => []TypeOK
<1>1. AllInv => TypeOK
  BY DEF AllInv, TypeInv
<1> QED BY Always, <1>1, PTL

\* send_pin answers the request that handle_pin waits for, for any number of
\* retries: a PIN typed for one request is never taken for another.
THEOREM PinsCorrect == Spec => []PinAnswersRequest
<1>1. AllInv => PinAnswersRequest
  <2> SUFFICES ASSUME AllInv PROVE PinAnswersRequest
    OBVIOUS
  <2> QED BY DEF AllInv, PinInv, PinAnswersRequest
<1> QED BY Always, <1>1, PTL

\* send_selection and decline exclude each other, and accept_offer receives files
\* only after a selection.
THEOREM SelectionCorrect == Spec => []SelectionObeyed
<1>1. AllInv => SelectionObeyed
  <2> SUFFICES ASSUME AllInv, side = "R" PROVE SelectionObeyed
    BY DEF SelectionObeyed
  <2>1. accepted = {} \/ accepted = {"send_selection"} \/ accepted = {"decline"}
    BY DEF AllInv, TypeInv, SelectionInv
  <2>2. Cardinality(accepted) \in {0, 1}
    BY <2>1, FS_EmptySet, FS_Singleton
  <2> QED BY <2>2 DEF AllInv, SelectionInv, SelectionObeyed
<1> QED BY Always, <1>1, PTL

\* The status stream of a receiving app ends only after Finished or Error, however
\* the inner and the outer task, the loss of the connection and the app's calls
\* interleave.
THEOREM EndCorrect == Spec => []EndIsTold
<1>1. AllInv => EndIsTold
  <2> SUFFICES ASSUME AllInv, side = "R", "status" \notin slots, ~Busy("listen_status")
               PROVE  shown
    BY DEF EndIsTold
  <2>1. <<"listen_status", "ref">> \notin held
    BY DEF Busy, Calls
  <2> QED BY <2>1 DEF AllInv, EndInv
<1> QED BY Always, <1>1, PTL

\* The app reads a file's content in order and without a gap, and all of it when
\* the stream ends, for every file length, buffer size and channel capacity.
THEOREM ContentCorrect == Spec => []ContentWhole
<1>1. AllInv => ContentWhole
  <2> SUFFICES ASSUME ContentInv PROVE ContentWhole
    BY DEF AllInv
  <2>1. got = [i \in 1..Len(got) |-> i]
    BY DEF ContentInv, Run
  <2>2. reader = "over" => Len(got) = made
    BY Lengths DEF ContentInv
  <2> QED BY <2>1, <2>2 DEF ContentWhole
<1> QED BY Always, <1>1, PTL
=============================================================================
