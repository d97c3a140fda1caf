---------------------------- MODULE HttpConnection ----------------------------
(***************************************************************************)
(* One connection of the epoll build from its client's bytes to the bytes  *)
(* of its answers: Session::onReadReady, parseRequest, handleRequest,      *)
(* upgradeToWebSocket and onWriteReady over the session's two rings, with  *)
(* the socket and the client on the other side.                            *)
(*                                                                         *)
(* The client's bytes come in pieces.  A line, its CRLF included, is two:  *)
(* some of its characters, then the rest, named for what the line says.  A *)
(* body has a piece per unit of length, an answer two: head and body.      *)
(* TCP cuts the stream anywhere, so any number of pieces may arrive at     *)
(* once.  A step is one syscall with what is done with its result, or one  *)
(* call of parseRequest or of handleRequest.                               *)
(***************************************************************************)
EXTENDS Naturals, SequencesExt

CONSTANTS
    Streams,   \* the sequences of requests a client may send
    MaxBody,   \* Settings::max_body_size
    ReadRoom,  \* max_request_size: pieces that fit the read ring
    WriteRoom, \* max_response_size: pieces that fit the write ring
    SendRoom   \* pieces that fit the socket's send buffer

(* What one request says: does its path name an endpoint that echoes the   *)
(* body, none, one whose handler throws, or a WebSocket route; does it     *)
(* name an agent; does it say "Connection: close"; how long is its body;   *)
(* does it ask for an upgrade.                                             *)
Routes == {"echo", "none", "throw", "ws"}
Shapes == [route : Routes, agent : BOOLEAN, close : BOOLEAN, body : Nat, upgrade : BOOLEAN]

ASSUME HttpAssumption ==
    /\ Streams \subseteq Seq(Shapes)
    /\ MaxBody \in Nat
    /\ {ReadRoom, WriteRoom, SendRoom} \subseteq Nat \ {0}

VARIABLES
    requests,  \* what this client sends
    stream,    \* and the pieces it comes in
    patient,   \* it has the manners of OneAtATime
    client,    \* "sending", "ended" its side of the stream, or "gone"
    arrived,   \* pieces that have reached the server's socket
    got,       \* pieces received into _readBuffer
    parsed,    \* pieces consumed from it
    cur,       \* the request _req holds
    path,      \* what _req.path() names
    upgrade,   \* the three upgrade flags of _req.presentHeaders()
    body,      \* the request whose body _req.body() shows, 0 = none
    keepAlive, \* Session::_keepAlive
    out,       \* _writeBuffer
    wire,      \* every piece handed to the socket
    taken,     \* how many of them the client has read
    open,      \* _socket is a descriptor
    edge,      \* kernel: the connection is on the epoll set's ready list
    pc,        \* where the worker is with this session
    evOut,     \* the event being handled has EPOLLOUT
    served,    \* history: the requests handleRequest has been called for
    torn       \* history: one was taken for whole that had not all been received

clientVars == <<requests, stream, patient, client, arrived, taken>>
reqVars == <<cur, path, upgrade, body>>
vars == <<clientVars, got, parsed, reqVars, keepAlive, out, wire, open, edge, pc, evOut, served,
          torn>>

-----------------------------------------------------------------------------
(***************************************************************************)
(* Requests and answers.                                                   *)
(***************************************************************************)

LineEnds == {"line", "agent", "close", "upgrade", "length", "blank"}

Piece(i, kind) == [req |-> i, kind |-> kind]
Line(i, kind) == <<Piece(i, "text"), Piece(i, kind)>>

Encode(i, r) ==
    Line(i, "line")
    \o (IF r.agent THEN Line(i, "agent") ELSE <<>>)
    \o (IF r.close THEN Line(i, "close") ELSE <<>>)
    \o (IF r.upgrade THEN Line(i, "upgrade") ELSE <<>>)
    \o (IF r.body > 0 THEN Line(i, "length") ELSE <<>>)
    \o Line(i, "blank")
    \o [k \in 1 .. r.body |-> Piece(i, "byte")]

(* Where request i ends in the stream.                                     *)
End(i) == Max({0} \cup {p \in DOMAIN stream : stream[p].req <= i})

(* A header's name is found in HeaderStrings under its HeaderType, which   *)
(* is a bit, not an index.                                                 *)
HeaderType == [Connection |-> 2 ^ 3, ContentLength |-> 2 ^ 2]
HeaderStrings ==
    <<"Server", "Content-Type", "Content-Length", "Connection", "User-Agent", "Accept",
      "Accept-Encoding", "Host", "Authorization", "Cache-Control", "Upgrade",
      "Sec-WebSocket-Key", "Sec-WebSocket-Version", "Sec-WebSocket-Accept">>
Header(key, value) == [name |-> HeaderStrings[HeaderType[key] + 1], value |-> value]

(* What the head of an answer says of the connection and the body.         *)
HeadLines(close) ==
    <<Header("Connection", IF close THEN "close" ELSE "keep-alive"),
      Header("ContentLength", "length")>>

(* HttpResponse::setBody.                                                  *)
Response(to, shown, close) ==
    [part \in 1 .. 2 |-> [to |-> to, body |-> shown, head |-> HeadLines(close), part |-> part]]

(* Every variable has its type and no buffer holds more than it can.       *)
TypeOK ==
    /\ requests \in Streams /\ patient \in BOOLEAN
    /\ client \in {"sending", "ended", "gone"}
    /\ parsed \in 0 .. got /\ got \in 0 .. arrived /\ arrived \in 0 .. Len(stream)
    /\ got - parsed <= ReadRoom
    /\ cur \in 0 .. Len(requests) /\ body \in 0 .. Len(requests) /\ path \in Routes
    /\ upgrade \in BOOLEAN /\ keepAlive \in BOOLEAN
    /\ \A p \in ToSet(out \o wire) :
          p \in [to : 1 .. Len(requests), body : 0 .. Len(requests),
                 head : {HeadLines(TRUE), HeadLines(FALSE)}, part : 1 .. 2]
    /\ Len(out) <= WriteRoom
    /\ taken \in 0 .. Len(wire) /\ Len(wire) - taken <= SendRoom
    /\ open \in BOOLEAN /\ edge \in BOOLEAN /\ evOut \in BOOLEAN
    /\ pc \in {"idle", "recv", "parse", "handle", "flush", "write", "crashed"}
    /\ served \in Seq(1 .. Len(requests)) /\ torn \in BOOLEAN

(* The Session has been constructed and its descriptor registered.         *)
Init ==
    /\ requests \in Streams
    /\ stream = FlattenSeq([i \in DOMAIN requests |-> Encode(i, requests[i])])
    /\ patient \in BOOLEAN
    /\ client = "sending"
    /\ arrived = 0 /\ got = 0 /\ parsed = 0
    /\ cur = 0 /\ path = "none" /\ upgrade = FALSE /\ body = 0
    /\ keepAlive = FALSE
    /\ out = <<>> /\ wire = <<>> /\ taken = 0
    /\ open = TRUE
    /\ edge = TRUE
    /\ pc = "idle" /\ evOut = FALSE
    /\ served = <<>> /\ torn = FALSE

-----------------------------------------------------------------------------
(***************************************************************************)
(* The worker: an event, and the receive loop of onReadReady.              *)
(***************************************************************************)

Readable == got < arrived \/ client # "sending"
Writable == Len(wire) - taken < SendRoom

(* epoll_wait reports all that holds of the socket now, not just the edge. *)
EpollWait ==
    /\ pc = "idle" /\ open /\ edge
    /\ edge' = FALSE
    /\ evOut' = Writable
    /\ pc' = IF Readable THEN "recv" ELSE IF Writable THEN "write" ELSE "idle"
    /\ UNCHANGED <<clientVars, got, parsed, reqVars, keepAlive, out, wire, open, served, torn>>

(* onReadReady returns; the write handler runs if the event has EPOLLOUT.  *)
AfterRead == IF evOut THEN "write" ELSE "idle"

(* close(); the handler that called it returns, and no other handler runs. *)
CloseSocket == open' = FALSE /\ pc' = "idle"

RecvRoom == ReadRoom - (got - parsed)

(* No room for more and no whole request in the ring.                      *)
RecvFull ==
    /\ pc = "recv"
    /\ RecvRoom = 0
    /\ CloseSocket
    /\ UNCHANGED <<clientVars, got, parsed, reqVars, keepAlive, out, wire, edge, evOut, served, torn>>

RecvData ==
    /\ pc = "recv"
    /\ RecvRoom > 0 /\ got < arrived
    /\ got' = IF arrived - got < RecvRoom THEN arrived ELSE got + RecvRoom
    /\ pc' = "parse"
    /\ UNCHANGED <<clientVars, parsed, reqVars, keepAlive, out, wire, open, edge, evOut, served, torn>>

(* Behind the last of the data, the end of the stream or an error.         *)
RecvEnd ==
    /\ pc = "recv"
    /\ RecvRoom > 0 /\ client # "sending" /\ got = arrived
    /\ CloseSocket
    /\ UNCHANGED <<clientVars, got, parsed, reqVars, keepAlive, out, wire, edge, evOut, served, torn>>

(* EAGAIN.                                                                 *)
RecvEmpty ==
    /\ pc = "recv"
    /\ RecvRoom > 0 /\ client = "sending" /\ got = arrived
    /\ pc' = AfterRead
    /\ UNCHANGED <<clientVars, got, parsed, reqVars, keepAlive, out, wire, open, edge, evOut,
                   served, torn>>

-----------------------------------------------------------------------------
(***************************************************************************)
(* parseRequest.                                                           *)
(***************************************************************************)

Data == SubSeq(stream, parsed + 1, got)

(* The first line has two spaces, and so a method, a path and a version: a *)
(* request line, or "User-Agent: " and two words or more.                  *)
HasLine == Len(Data) >= 2 /\ Data[2].kind \in {"line", "agent"}

(* Where the header loop stops: at the blank line, or where the data end.  *)
Blanks == {k \in DOMAIN Data : Data[k].kind = "blank"}
HeadEnd == IF Blanks = {} THEN Len(Data) ELSE Min(Blanks)
Headers == {Data[k] : k \in 3 .. HeadEnd}
Says(kind) == \E h \in Headers : h.kind = kind
Lengths == {k \in 3 .. HeadEnd : Data[k].kind = "length"}
ContentLength == IF Lengths = {} THEN 0 ELSE requests[Data[Max(Lengths)].req].body

(* Faulty variant: one more byte is waited for.                            *)
WholeAndMore ==
    /\ Data[HeadEnd].kind \in LineEnds
    /\ ContentLength <= MaxBody
    /\ Len(Data) > HeadEnd + ContentLength

(* Every line up to there has its CRLF, the length is allowed and the body *)
(* is there.                                                               *)
Whole ==
    /\ Data[HeadEnd].kind \in LineEnds
    /\ ContentLength <= MaxBody
    /\ Len(Data) >= HeadEnd + ContentLength

(* Faulty variant: without a body nothing is consumed.                     *)
ConsumedBodyOnly == IF ContentLength = 0 THEN 0 ELSE HeadEnd + ContentLength

(* advanceReadPos.                                                         *)
Consumed == HeadEnd + ContentLength

(* _keepAlive after the headers of the data.                               *)
KeepByDefault == ~Says("close")

(* What any call that finds a request line leaves behind, whether or not   *)
(* it finds the rest of the request.                                       *)
ParseHead ==
    /\ cur' = Data[2].req
    /\ path' = IF Data[2].kind = "line" THEN requests[cur'].route ELSE "none"
    /\ keepAlive' = KeepByDefault
    /\ upgrade' = (upgrade \/ Says("upgrade"))

ParseWhole ==
    /\ pc = "parse"
    /\ HasLine /\ Whole
    /\ ParseHead
    /\ parsed' = parsed + Consumed
    /\ body' = IF ContentLength > 0 THEN cur' ELSE body
    /\ torn' = (torn \/ got < End(cur'))
    /\ pc' = "handle"
    /\ UNCHANGED <<clientVars, got, out, wire, open, edge, evOut, served>>

ParsePart ==
    /\ pc = "parse"
    /\ ~(HasLine /\ Whole)
    /\ IF HasLine THEN ParseHead ELSE UNCHANGED <<cur, path, keepAlive, upgrade>>
    /\ pc' = "flush"
    /\ UNCHANGED <<clientVars, got, parsed, body, out, wire, open, edge, evOut, served, torn>>

(* The upgrade headers are stored by their bit value, far outside the      *)
(* array that has a place for each header: the write may fault.            *)
ParseFault ==
    /\ pc = "parse"
    /\ HasLine /\ Says("upgrade")
    /\ pc' = "crashed"
    /\ UNCHANGED <<clientVars, got, parsed, reqVars, keepAlive, out, wire, open, edge, evOut,
                   served, torn>>

-----------------------------------------------------------------------------
(***************************************************************************)
(* handleRequest.                                                          *)
(***************************************************************************)

(* Faulty variant: the ring grows.                                         *)
WrittenAll(answer) == out \o answer

(* writeAll stops where the ring is full, and nobody looks.                *)
Written(answer) ==
    LET all == out \o answer
    IN  SubSeq(all, 1, IF Len(all) < WriteRoom THEN Len(all) ELSE WriteRoom)

Answer(shown, close) == out' = Written(Response(cur, shown, close))

(* An endpoint's answer, or "Endpoint not found."                          *)
Reply ==
    /\ ~upgrade /\ path \in {"echo", "none", "ws"}
    /\ Answer(IF path = "echo" THEN body ELSE 0, ~keepAlive)
    /\ UNCHANGED keepAlive

(* The handler throws: an error answer that closes.                        *)
ReplyError ==
    /\ ~upgrade /\ path = "throw"
    /\ Answer(0, TRUE)
    /\ keepAlive' = FALSE

(* getHeader is always empty, so the upgrade of a route is a bad request;  *)
(* where there is no route nothing at all is answered.                     *)
ReplyUpgrade ==
    /\ upgrade
    /\ IF path = "ws"
       THEN Answer(0, TRUE) /\ keepAlive' = FALSE
       ELSE UNCHANGED <<out, keepAlive>>

HandleRequest ==
    /\ pc = "handle"
    /\ Reply \/ ReplyError \/ ReplyUpgrade
    /\ served' = Append(served, cur)
    /\ pc' = "parse"
    /\ UNCHANGED <<clientVars, got, parsed, reqVars, wire, open, edge, evOut, torn>>

-----------------------------------------------------------------------------
(***************************************************************************)
(* onWriteReady and onWriteComplete.                                       *)
(***************************************************************************)

(* Faulty variant: the request is not reset.                               *)
ResetNothing == UNCHANGED reqVars

(* HttpRequest::reset.                                                     *)
Reset == cur' = 0 /\ path' = "none" /\ upgrade' = FALSE /\ body' = 0

(* Faulty variant: HTTP/1.0.                                               *)
NeverKept == FALSE

(* What onWriteComplete asks before it resets.                             *)
Kept == keepAlive

Sent == LET room == SendRoom - (Len(wire) - taken)
        IN  IF Len(out) < room THEN Len(out) ELSE room

(* send until the ring is empty or the socket is full; an empty ring means *)
(* that the request is done with, or the connection.  Then go on at next,  *)
(* or, with something left, at blocked.                                    *)
WriteReady(next, blocked) ==
    \/ /\ out = <<>>
       /\ pc' = next
       /\ UNCHANGED <<out, wire, open, reqVars>>
    \/ /\ out # <<>> /\ client = "gone"
       /\ CloseSocket
       /\ UNCHANGED <<out, wire, reqVars>>
    \/ /\ out # <<>> /\ client # "gone"
       /\ wire' = wire \o SubSeq(out, 1, Sent)
       /\ out' = SubSeq(out, Sent + 1, Len(out))
       /\ IF out' # <<>> THEN pc' = blocked /\ UNCHANGED <<open, reqVars>>
          ELSE IF Kept THEN pc' = next /\ Reset /\ UNCHANGED open
          ELSE CloseSocket /\ UNCHANGED reqVars

(* Within onReadReady, after the requests of one recv; it returns if the   *)
(* socket is full.                                                         *)
Flush ==
    /\ pc = "flush"
    /\ WriteReady("recv", AfterRead)
    /\ UNCHANGED <<clientVars, got, parsed, keepAlive, edge, evOut, served, torn>>

(* For EPOLLOUT.                                                           *)
HandleOut ==
    /\ pc = "write"
    /\ WriteReady("idle", "idle")
    /\ UNCHANGED <<clientVars, got, parsed, keepAlive, edge, evOut, served, torn>>

-----------------------------------------------------------------------------
(***************************************************************************)
(* The client.                                                             *)
(***************************************************************************)

Answered == taken \div 2

(* The manners of a patient client: the next request only after the answer *)
(* to the one before, and no segment that ends right behind a header line. *)
OneAtATime(p) ==
    /\ stream[p].req <= Answered + 1
    /\ stream[p].kind \notin LineEnds \ {"blank"}

ClientSend(p) ==
    /\ client = "sending" /\ open
    /\ p > arrived
    /\ patient => OneAtATime(p)
    /\ arrived' = p
    /\ edge' = TRUE
    /\ UNCHANGED <<requests, stream, patient, client, taken, got, parsed, reqVars, keepAlive, out, wire,
                   open, pc, evOut, served, torn>>

(* Room in a full send buffer is an edge.                                  *)
ClientRead ==
    /\ client # "gone" /\ taken < Len(wire)
    /\ taken' = taken + 1
    /\ edge' = (edge \/ ~Writable)
    /\ UNCHANGED <<requests, stream, patient, client, arrived, got, parsed, reqVars, keepAlive, out, wire,
                   open, pc, evOut, served, torn>>

(* The client ends its stream, a patient one when it has all its answers,  *)
(* or goes away.                                                           *)
ClientEnd(how) ==
    /\ client = "sending" /\ open
    /\ patient => how = "ended" /\ arrived = End(Answered)
    /\ client' = how
    /\ edge' = TRUE
    /\ UNCHANGED <<requests, stream, patient, arrived, taken, got, parsed, reqVars, keepAlive, out, wire,
                   open, pc, evOut, served, torn>>

Worker ==
    \/ EpollWait \/ RecvFull \/ RecvData \/ RecvEnd \/ RecvEmpty
    \/ ParseWhole \/ ParsePart \/ ParseFault
    \/ HandleRequest \/ Flush \/ HandleOut

Next ==
    \/ Worker
    \/ \E p \in 1 .. Len(stream) : ClientSend(p)
    \/ ClientRead
    \/ \E how \in {"ended", "gone"} : ClientEnd(how)

Spec == Init /\ [][Next]_vars

(* The worker runs and the client reads what it is sent.                   *)
FairSpec == Spec /\ WF_vars(Worker) /\ WF_vars(ClientRead)

-----------------------------------------------------------------------------
(* Whatever the client does, handleRequest is called for its requests once *)
(* each and in order, unless a segment has ended, or the read ring has     *)
(* been full, right behind a header line: nothing else makes the server    *)
(* lose, repeat or swap a request.                                         *)
InOrder == ~torn => \A k \in DOMAIN served : served[k] = k

(* The server closes behind its answer to request i.                       *)
Parting(i) == requests[i].close \/ requests[i].route = "throw" \/ requests[i].upgrade

(* What a client has asked for with request i, were it the only one.       *)
Due(i) ==
    LET r == requests[i] IN
    IF r.upgrade /\ r.route # "ws" THEN <<>>
    ELSE Response(i, IF r.route = "echo" /\ r.body > 0 THEN i ELSE 0, Parting(i))

(* The head of request i fits the read ring: of one that does not,         *)
(* parseRequest may take the lines there are for a whole request.          *)
HeadFits(i) == End(i) - End(i - 1) - requests[i].body <= ReadRoom

(* A patient client whose requests the server has room for.                *)
Mannered == patient /\ \A i \in DOMAIN requests : HeadFits(i)

(* A patient client gets the answers to its requests, whole, in order, and *)
(* each as if the request were alone: the echo of its own body, and the    *)
(* header values its own request calls for, under whatever name.  No field *)
(* of _req survives from one request to the next.                          *)
OwnAnswers ==
    Mannered => IsPrefix(wire \o out, FlattenSeq([i \in DOMAIN requests |-> Due(i)]))

(* Request i is consumed before the read ring is full, or leaves it room.  *)
Fits(i) ==
    LET size == End(i) - End(i - 1)
    IN  size <= ReadRoom /\ (requests[i].body > MaxBody => size < ReadRoom)

(* The server closes a patient client's connection only when it has sent   *)
(* all of its answer to a request that asks for the close, for an upgrade  *)
(* or for a handler that throws, when a request cannot fit the ring, or    *)
(* when the client ends: every other request leaves the connection open.   *)
CloseJustified ==
    [][open /\ ~open' /\ patient =>
          \/ out' = <<>> /\ wire' # <<>> /\ Parting(Last(wire').to)
          \/ client = "ended"
          \/ \E i \in DOMAIN requests : ~Fits(i)]_vars

Answerable(r) == r.body <= MaxBody /\ (r.upgrade => r.route = "ws")
LongestStream == Max({Len(rs) : rs \in Streams})

(* A request of a patient client that the code has an answer for is        *)
(* answered, or the connection ends: no edge is lost, no data forgotten.   *)
EachAnswered ==
    \A i \in 1 .. LongestStream :
        (patient /\ i <= Len(requests) /\ Answerable(requests[i]) /\ arrived >= End(i))
          ~> (Answered >= i \/ ~open \/ pc = "crashed")

-----------------------------------------------------------------------------
(* No request is handled before all of it has been received.               *)
OnlyWholeRequests == ~torn
=============================================================================
