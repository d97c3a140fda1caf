---------------------------- MODULE WebSocketCodec ----------------------------
(***************************************************************************)
(* A connection in WebSocket mode, from the upgrade on: processFrames and  *)
(* dispatchFrame over a stream that is cut anywhere, sendFrame into the    *)
(* write ring, the edge-triggered reads and writes of the epoll build, and *)
(* what the two builds do when processFrames says that the connection is   *)
(* over.                                                                   *)
(*                                                                         *)
(* A client's frame comes in pieces: its first two bytes, the extended     *)
(* length if there is one, the mask if there is one, and the payload, a    *)
(* piece per unit of length.  A frame of the server is a head and, unless  *)
(* it is empty, a payload.  A step is one turn of processFrames' loop, or  *)
(* one syscall.                                                            *)
(*                                                                         *)
(* At the modelled commit getHeader returns no header, upgradeToWebSocket  *)
(* therefore refuses, and no client gets as far as Init: the module is     *)
(* about the code behind that refusal.                                     *)
(***************************************************************************)
EXTENDS Naturals, SequencesExt

CONSTANTS
    Scripts,    \* the sequences of frames a client may send
    Routes,     \* what onMessage and onClose do
    Builds,     \* "epoll", "uring"
    MaxControl, \* WS_CONTROL_MAX_PAYLOAD, the longest length without extension
    MaxBody,    \* Settings::max_body_size
    ReadRoom,   \* max_request_size: pieces that fit the read ring
    WriteRoom   \* max_response_size: pieces that fit the write ring

(* "data" is text or binary, "cont" every other opcode that is not one of  *)
(* a control frame: continuation, and what the protocol reserves.          *)
Control == {"ping", "pong", "close"}
Frames == [op : {"data", "cont"} \cup Control, fin : BOOLEAN, masked : BOOLEAN,
           wide : BOOLEAN, len : Nat]

(* onMessage sends the payload back, or calls WebSocketContext::close;     *)
(* onClose sends a frame or does nothing.                                  *)
Callbacks == [message : {"echo", "close"}, onClose : {"nothing", "send"}]

ASSUME CodecAssumption ==
    /\ \A script \in Scripts :
          /\ script \in Seq(Frames)
          /\ \A i \in DOMAIN script : script[i].len > MaxControl => script[i].wide
    /\ Routes \subseteq Callbacks
    /\ Builds \subseteq {"epoll", "uring"}
    /\ {MaxControl, MaxBody, ReadRoom, WriteRoom} \subseteq Nat \ {0}

VARIABLES
    build, route, \* the build and the route of this connection
    frames,    \* what this client sends
    stream,    \* and the pieces it comes in
    arrived,   \* pieces that have reached the server's socket
    got,       \* pieces received into _readBuffer
    parsed,    \* pieces consumed from it
    done,      \* history: the frames handed to dispatchFrame
    closeSent, \* WsState::closeSent
    out,       \* _writeBuffer
    put,       \* history: every piece that was written to it
    cut,       \* history: a frame did not fit it
    wire,      \* epoll: every piece handed to the kernel
    full,      \* epoll: send has said EAGAIN and the client not read since
    edge,      \* epoll: an event for this socket waits
    evOut,     \* epoll: the event in hand has EPOLLOUT
    status,    \* "open", "closing" (uring: no more recv), "closed"
    pc         \* "frames": in processFrames; else what comes next, below

inVars == <<frames, stream, route, build>>
outVars == <<out, put, cut, wire>>
pollVars == <<full, edge, evOut>>
vars == <<inVars, arrived, got, parsed, done, closeSent, outVars, pollVars, status, pc>>

Encode(i, f) ==
    <<[frame |-> i, kind |-> "head"]>>
    \o (IF f.wide THEN <<[frame |-> i, kind |-> "length"]>> ELSE <<>>)
    \o (IF f.masked THEN <<[frame |-> i, kind |-> "mask"]>> ELSE <<>>)
    \o [k \in 1 .. f.len |-> [frame |-> i, kind |-> "byte"]]

(* Where frame i ends in the stream.                                       *)
End(i) == Max({0} \cup {p \in DOMAIN stream : stream[p].frame <= i})
Size(i) == End(i) - End(i - 1)

(* sendFrame: what of, 0 for a payload of the server's own.                *)
Reply(op, of, empty) ==
    [part \in 1 .. (IF empty THEN 1 ELSE 2) |-> [op |-> op, of |-> of, part |-> part]]

(* The 101 response, and the "connected" of onOpen.                        *)
Handshake == <<[op |-> "http", of |-> 0, part |-> 1]>> \o Reply("data", 0, FALSE)

(* Faulty variant: the ring grows.                                         *)
FittingAll(pieces) == pieces

(* writeAll stops where the ring is full, and nobody looks.                *)
Fitting(pieces) ==
    LET room == WriteRoom - Len(out)
    IN  SubSeq(pieces, 1, IF Len(pieces) < room THEN Len(pieces) ELSE room)

(* epoll_wait, onReadReady's loop, its flush, and onWriteReady.  io_uring  *)
(* has one place to be in: "recv".                                         *)
Points == IF build = "epoll" THEN {"wait", "recv", "frames", "flush", "write"}
          ELSE {"recv", "frames"}

(* Every variable has its type and no ring holds more than it can.         *)
TypeOK ==
    /\ frames \in Scripts /\ route \in Routes /\ build \in Builds
    /\ parsed \in 0 .. got /\ got \in 0 .. arrived /\ arrived \in 0 .. Len(stream)
    /\ got - parsed <= ReadRoom
    /\ done \in Seq(1 .. Len(frames))
    /\ \A p \in ToSet(out) \cup ToSet(put) \cup ToSet(wire) :
          p \in [op : {"http", "data", "pong", "close"}, of : 0 .. Len(frames), part : 1 .. 2]
    /\ Len(out) <= WriteRoom
    /\ {closeSent, cut, full, edge, evOut} \subseteq BOOLEAN
    /\ status \in {"open", "closing", "closed"} /\ pc \in Points

(* upgradeToWebSocket has accepted; the client waits for its 101.          *)
Init ==
    /\ build \in Builds /\ route \in Routes /\ frames \in Scripts
    /\ stream = FlattenSeq([i \in DOMAIN frames |-> Encode(i, frames[i])])
    /\ arrived = 0 /\ got = 0 /\ parsed = 0
    /\ done = <<>>
    /\ closeSent = FALSE
    /\ out = SubSeq(Handshake, 1, IF Len(Handshake) < WriteRoom THEN Len(Handshake) ELSE WriteRoom)
    /\ put = out /\ cut = (Len(Handshake) > WriteRoom)
    /\ wire = <<>>
    /\ full = FALSE /\ edge = FALSE /\ evOut \in BOOLEAN
    /\ status = "open"
    /\ pc = IF build = "epoll" THEN "flush" ELSE "recv"

-----------------------------------------------------------------------------
(***************************************************************************)
(* The sockets and the rings.                                              *)
(***************************************************************************)

ClientSend(p) ==
    /\ status = "open"
    /\ p > arrived
    /\ arrived' = p
    /\ edge' = (build = "epoll")
    /\ UNCHANGED <<inVars, got, parsed, done, closeSent, outVars, full, evOut, status, pc>>

(* Room in the socket's send buffer again: EPOLLOUT.                       *)
ClientReads ==
    /\ status # "closed"
    /\ full
    /\ full' = FALSE
    /\ edge' = TRUE
    /\ UNCHANGED <<inVars, arrived, got, parsed, done, closeSent, outVars, evOut, status, pc>>

(* After onReadReady: onWriteReady, if the event says so.                  *)
AfterRead(writable) == IF writable THEN "write" ELSE "wait"

(* epoll_wait: the event names all that the socket is ready for, and is    *)
(* not repeated.                                                           *)
Wake ==
    /\ status = "open" /\ pc = "wait" /\ edge
    /\ edge' = FALSE
    /\ evOut' = ~full
    /\ pc' = IF got < arrived THEN "recv" ELSE AfterRead(~full)
    /\ UNCHANGED <<inVars, arrived, got, parsed, done, closeSent, outVars, full, status>>

RecvRoom == ReadRoom - (got - parsed)

(* recv: all that has arrived and has room.                                *)
Recv ==
    /\ status = "open" /\ pc = "recv"
    /\ RecvRoom > 0 /\ got < arrived
    /\ got' = IF arrived - got < RecvRoom THEN arrived ELSE got + RecvRoom
    /\ pc' = "frames"
    /\ UNCHANGED <<inVars, arrived, parsed, done, closeSent, outVars, pollVars, status>>

(* recv says EAGAIN.                                                       *)
RecvEmpty ==
    /\ build = "epoll" /\ status = "open" /\ pc = "recv"
    /\ RecvRoom > 0 /\ got = arrived
    /\ pc' = AfterRead(evOut)
    /\ UNCHANGED <<inVars, arrived, got, parsed, done, closeSent, outVars, pollVars, status>>

(* The ring is full and there is no frame in it: close(), or, in the       *)
(* io_uring build, the NOP that ends the whole worker in UringWorker.      *)
RecvFull ==
    /\ status = "open" /\ pc = "recv"
    /\ RecvRoom = 0
    /\ status' = "closed" /\ out' = <<>>
    /\ UNCHANGED <<inVars, arrived, got, parsed, done, closeSent, put, cut, wire, pollVars, pc>>

(* Faulty variant: the last of what was sent stays in the ring.            *)
LeftLessOne(n) == IF n = 0 THEN out ELSE SubSeq(out, n, Len(out))

Left(n) == SubSeq(out, n + 1, Len(out))

(* onWriteReady: send until the ring is empty, or until EAGAIN.            *)
Sent(n) ==
    /\ full => n = 0
    /\ wire' = wire \o SubSeq(out, 1, n)
    /\ out' = Left(n)
    /\ full' = (n < Len(out))
    /\ UNCHANGED <<inVars, arrived, got, parsed, done, closeSent, put, cut, edge, evOut, status>>

(* Faulty variant: onWriteReady is left to the event.                      *)
FlushedToWait(n) == "wait"

(* "If onWriteReady hit EAGAIN, stop reading".                             *)
AfterFlush(n) == IF n = Len(out) THEN "recv" ELSE AfterRead(evOut)

(* onReadReady flushes what the frames have written.                       *)
Flush ==
    /\ status = "open" /\ pc = "flush"
    /\ \E n \in 0 .. Len(out) : Sent(n) /\ pc' = AfterFlush(n)

(* EPOLLOUT.                                                               *)
HandleOut ==
    /\ status = "open" /\ pc = "write"
    /\ \E n \in 0 .. Len(out) : Sent(n)
    /\ pc' = "wait"

(* io_uring: F_NOTIF frees the front of the ring.  What has been on the    *)
(* wire by then, perhaps twice, is UringWorker's matter.                   *)
Released ==
    /\ build = "uring" /\ status # "closed" /\ pc = "recv"
    /\ \E n \in 1 .. Len(out) : out' = Left(n)
    /\ UNCHANGED <<inVars, arrived, got, parsed, done, closeSent, put, cut, wire, pollVars,
                   status, pc>>

(* The client goes away, the wheel turns, or the last of a closing         *)
(* connection's answers is out.                                            *)
ConnectionEnds ==
    /\ status # "closed" /\ pc # "frames"
    /\ status' = "closed" /\ out' = <<>>
    /\ UNCHANGED <<inVars, arrived, got, parsed, done, closeSent, put, cut, wire, pollVars, pc>>

-----------------------------------------------------------------------------
(***************************************************************************)
(* processFrames.                                                          *)
(***************************************************************************)

Data == SubSeq(stream, parsed + 1, got)
InFrames == status = "open" /\ pc = "frames"

(* The frame whose head is first in the data.                              *)
Current == Data[1].frame
Header == frames[Current]

HasHead == Len(Data) >= 1
HasLength == HasHead /\ Len(Data) >= (IF Header.wide THEN 2 ELSE 1)

(* Found as soon as the bytes that show it are there.                      *)
Refused ==
    \/ HasHead /\ ~Header.masked
    \/ HasLength /\ Header.op \in Control /\ Header.len > MaxControl
    \/ HasLength /\ Header.len > MaxBody

(* Faulty variant: the mask stays in the ring.                             *)
OffsetNoMask == IF Header.wide THEN 2 ELSE 1

(* offset, behind the mask.                                                *)
Offset == IF Header.wide THEN 3 ELSE 2

(* Faulty variant: one more byte is waited for.                            *)
WholeAndMore == HasLength /\ Len(Data) > Offset + Header.len

Whole == HasLength /\ Len(Data) >= Offset + Header.len

(* Faulty variant: the result of dispatchFrame is ignored.                 *)
OverNever == status' = status /\ pc' = pc

(* processFrames has returned false: close() in the epoll build, with      *)
(* whatever is in the write ring; Closing in the io_uring build, where it  *)
(* may still be sent.                                                      *)
Over ==
    /\ status' = IF build = "epoll" THEN "closed" ELSE "closing"
    /\ pc' = "recv"

(* What becomes of pieces written when the connection is over.             *)
Abandoned(pieces) == IF build = "epoll" THEN <<>> ELSE pieces

Write(reply) ==
    /\ put' = put \o Fitting(reply)
    /\ cut' = (cut \/ Len(out \o reply) > WriteRoom)

(* Faulty variant: one frame per call.                                     *)
NextCall == pc' = "recv"

(* dispatchFrame returned true: on with the loop.                          *)
NextFrame == pc' = pc

(* dispatchFrame, when the connection goes on.                             *)
Answer ==
    /\ LET reply == CASE Header.op = "data" /\ route.message = "echo" ->
                            Reply("data", Current, Header.len = 0)
                      [] Header.op = "data" /\ route.message = "close" -> Reply("close", 0, FALSE)
                      [] Header.op = "ping" -> Reply("pong", Current, Header.len = 0)
                      [] Header.op = "pong" -> <<>>
       IN  Write(reply) /\ out' = out \o Fitting(reply)
    /\ NextFrame
    /\ UNCHANGED <<closeSent, status>>

(* onClose.                                                                *)
Farewell == IF route.onClose = "send" THEN Reply("data", 0, FALSE) ELSE <<>>

(* dispatchFrame, when it does not: a Close is answered with its payload,  *)
(* and onClose has its say behind the answer; all else gets a 1002.        *)
Goodbye ==
    /\ LET reply == IF Header.fin /\ Header.op = "close"
                    THEN (IF closeSent THEN <<>> ELSE Reply("close", Current, Header.len = 0))
                         \o Farewell
                    ELSE Reply("close", 0, FALSE)
       IN  Write(reply) /\ out' = Abandoned(out \o Fitting(reply))
    /\ closeSent' = TRUE
    /\ Over

Dispatch ==
    /\ InFrames
    /\ Whole /\ ~Refused
    /\ parsed' = parsed + Offset + Header.len
    /\ done' = Append(done, Current)
    /\ IF Header.fin /\ Header.op \in {"data", "ping", "pong"} THEN Answer ELSE Goodbye
    /\ UNCHANGED <<inVars, arrived, got, wire, pollVars>>

Refuse ==
    /\ InFrames
    /\ Refused
    /\ Over
    /\ out' = Abandoned(out)
    /\ UNCHANGED <<inVars, arrived, got, parsed, done, closeSent, put, cut, wire, pollVars>>

(* The next frame has not all arrived; what is there of it stays.          *)
AwaitMore ==
    /\ InFrames
    /\ ~Refused /\ ~Whole
    /\ pc' = IF build = "epoll" THEN "flush" ELSE "recv"
    /\ UNCHANGED <<inVars, arrived, got, parsed, done, closeSent, outVars, pollVars, status>>

Server ==
    \/ Wake \/ Recv \/ RecvEmpty \/ RecvFull \/ Flush \/ HandleOut
    \/ Dispatch \/ Refuse \/ AwaitMore

Next ==
    \/ Server
    \/ \E p \in 1 .. Len(stream) : ClientSend(p)
    \/ ClientReads
    \/ Released
    \/ ConnectionEnds

Spec == Init /\ [][Next]_vars

(* The worker runs, and the client reads what it is sent: one that does    *)
(* not is served no further, and left to the timer wheel.                  *)
FairSpec == Spec /\ WF_vars(Server) /\ WF_vars(ClientReads)

-----------------------------------------------------------------------------
(* However the stream is cut, each frame is handed on once, in order, and  *)
(* the next one is looked for where it begins.                             *)
FramesInOrder ==
    /\ \A k \in DOMAIN done : done[k] = k
    /\ parsed = End(Len(done))

(* No whole frame is left in the ring when processFrames has returned to   *)
(* wait for more: the client might be waiting for the answer.              *)
NothingLeft ==
    status = "open" /\ pc # "frames" => \A i \in DOMAIN frames : got >= End(i) => Len(done) >= i

(* A ring that is full of a part of a frame is the fault of a frame that   *)
(* cannot fit.                                                             *)
FullOfOneFrame ==
    status = "open" /\ pc # "frames" /\ RecvRoom = 0 => Size(stream[parsed + 1].frame) > ReadRoom

(* What the client's frame i is due.                                       *)
Due(i) ==
    LET f == frames[i] IN
    CASE ~f.fin \/ f.op = "cont" -> Reply("close", 0, FALSE)
      [] f.fin /\ f.op = "data" /\ route.message = "echo" -> Reply("data", i, f.len = 0)
      [] f.fin /\ f.op = "data" /\ route.message = "close" -> Reply("close", 0, FALSE)
      [] f.fin /\ f.op = "ping" -> Reply("pong", i, f.len = 0)
      [] f.fin /\ f.op = "pong" -> <<>>
      [] f.fin /\ f.op = "close" -> Reply("close", i, f.len = 0) \o Farewell

AllDue == Handshake \o FlattenSeq([k \in DOMAIN done |-> Due(done[k])])

(* Unless the write ring overflows, the handshake and what each frame is   *)
(* due are written to it, whole and in order.  What the epoll build        *)
(* transmits is what was written, each piece once and in order, through    *)
(* EAGAIN and partial sends; for io_uring see WireInOrder of UringWorker.  *)
RepliesIntact ==
    /\ ~cut => put = AllDue
    /\ build = "epoll" =>
         IF status = "closed" THEN IsPrefix(wire, put) ELSE wire \o out = put

(* Once dispatchFrame has sent a Close or answered one, and onClose has    *)
(* had its say, no frame is handed on and nothing more is written.  The    *)
(* Close that WebSocketContext::close writes is not one of these.          *)
SilentOnceOver == [][closeSent => UNCHANGED <<done, put>>]_vars

LongestScript == Max({Len(script) : script \in Scripts})

(* A frame that has arrived is handled, unless the connection is over,     *)
(* also when receiving was stopped because the client had not read.        *)
EachFrameHandled ==
    \A i \in 1 .. LongestScript :
        (i <= Len(frames) /\ arrived >= End(i)) ~> (Len(done) >= i \/ status # "open")
=============================================================================
