----------------------------- MODULE UringWorker -----------------------------
(***************************************************************************)
(* A worker thread of the io_uring build (EventLoop::runWorker under       *)
(* USE_IOURING) with the transport half of its Sessions: one ring, one     *)
(* pool, one wheel, and the kernel on the other side of the ring.          *)
(*                                                                         *)
(* The worker handles one completion per step.  When it finds the          *)
(* completion queue empty it runs the wheel and publishes what it has      *)
(* prepared; a completion that arrives meanwhile is handled next time,     *)
(* which is the same as arriving later.  The kernel thread (SQPOLL) takes  *)
(* published entries, runs operations and posts completions at any time.   *)
(* A send_zc posts two: the result, and F_NOTIF when the pages are free.   *)
(*                                                                         *)
(* A session's write ring holds the units head + 1 .. tail of what its     *)
(* handlers have written; a unit is any number of bytes.                   *)
(***************************************************************************)
EXTENDS Naturals, Sequences, FiniteSets, Functions

CONSTANTS
    Sessions,   \* the slots of the session pool
    Fds,        \* the descriptors left for connections
    NoFd,       \* SOCKET_ERROR_VALUE
    NoSession,  \* no connection behind a descriptor
    Unclaimed,  \* a connection accepted whose completion is not yet handled
    SqSize,     \* io_params.sq_entries
    CqSize,     \* io_params.cq_entries
    MaxUnits,   \* bound: units written to one connection
    MaxSends,   \* bound: sends the kernel is not done with when data arrives
    PromptKernel \* the kernel takes entries well within connection_timeout_ms

ASSUME UringAssumption ==
    /\ NoFd \notin Fds
    /\ {NoSession, Unclaimed} \cap Sessions = {} /\ NoSession # Unclaimed
    /\ {SqSize, CqSize, MaxUnits, MaxSends} \subseteq Nat \ {0}
    /\ PromptKernel \in BOOLEAN

VARIABLES
    status,    \* Session::_status; "Free" for a slot without a Session
    io,        \* Session::_ioFlags
    socket,    \* Session::_socket
    keepAlive, \* Session::_keepAlive
    head, tail, locked,  \* _writeBuffer and _lockedZcBytes
    linked,    \* the sessions on the timer wheel
    prep,      \* submission entries filled in, not yet published
    sq,        \* entries published by io_uring_submit
    cq,        \* completions the worker has not seen
    pc,        \* "loop", "done", or the null pointer that ended the process
    owner,     \* kernel: the connection behind each descriptor
    armed,     \* kernel: the multishot accept is in place
    recvs,     \* kernel: recv operations waiting, per session
    sends,     \* kernel: send_zc operations in hand, per session
    notifs,    \* kernel: sends whose pages the NIC still holds, per session
    wired      \* units an Active session's client has got in order, or Garbled

bufferVars == <<keepAlive, head, tail, locked, wired>>
workerVars == <<status, io, socket, bufferVars, linked, prep, pc>>
kernelVars == <<armed, recvs, sends, notifs>>
vars == <<workerVars, sq, cq, owner, kernelVars>>

Garbled == MaxUnits + 1
IoFlags == {"READING", "WRITING", "WAITING_ZC"}
NullPointers == {"noSession", "noEntry"}

Recv(s) == [op |-> "recv", s |-> s, fd |-> socket[s]]
Send(s, from, to) == [op |-> "send", s |-> s, fd |-> socket[s], from |-> from, to |-> to]
Nop == [op |-> "nop"]
Accept == [op |-> "accept"]
AcceptEnd == [op |-> "acceptEnd"]

Sqes == [op : {"recv"}, s : Sessions, fd : Fds \cup {NoFd}] \cup {Nop, Accept}
        \cup [op : {"send"}, s : Sessions, fd : Fds \cup {NoFd},
              from : 0 .. MaxUnits, to : 0 .. MaxUnits]
Cqes == [op : {"recv"}, s : Sessions, ok : BOOLEAN] \cup {Nop}
        \cup [op : {"send"}, s : Sessions, ok : BOOLEAN, n : 0 .. MaxUnits, more : BOOLEAN]
        \cup [op : {"notif"}, s : Sessions]
        \cup [op : {"accept"}, fd : Fds, more : BOOLEAN] \cup {AcceptEnd}

(* Every variable has its type and no ring holds more than it can.         *)
TypeOK ==
    /\ status \in [Sessions -> {"Free", "Active", "Closing"}]
    /\ io \in [Sessions -> SUBSET IoFlags]
    /\ socket \in [Sessions -> Fds \cup {NoFd}]
    /\ keepAlive \in [Sessions -> BOOLEAN]
    /\ {head, tail, locked} \subseteq [Sessions -> 0 .. MaxUnits]
    /\ linked \in SUBSET Sessions
    /\ prep \in Seq(Sqes) /\ sq \in Seq(Sqes) /\ Len(prep) + Len(sq) <= SqSize
    /\ cq \in Seq(Cqes) /\ Len(cq) <= CqSize
    /\ pc \in {"loop", "done"} \cup NullPointers /\ armed \in BOOLEAN
    /\ owner \in [Fds -> Sessions \cup {NoSession, Unclaimed}]
    /\ {recvs, notifs} \subseteq [Sessions -> Nat]
    /\ sends \in [Sessions -> Seq([from : 0 .. MaxUnits, to : 0 .. MaxUnits])]
    /\ wired \in [Sessions -> 0 .. Garbled]

(* The multishot accept is submitted before the loop.                      *)
Init ==
    /\ status = [s \in Sessions |-> "Free"]
    /\ io = [s \in Sessions |-> {}]
    /\ socket = [s \in Sessions |-> NoFd]
    /\ keepAlive = [s \in Sessions |-> FALSE]
    /\ head = [s \in Sessions |-> 0]
    /\ tail = [s \in Sessions |-> 0]
    /\ locked = [s \in Sessions |-> 0]
    /\ linked = {}
    /\ prep = <<>>
    /\ sq = <<Accept>>
    /\ cq = <<>>
    /\ pc = "loop"
    /\ owner = [fd \in Fds |-> NoSession]
    /\ armed = FALSE
    /\ recvs = [s \in Sessions |-> 0]
    /\ sends = [s \in Sessions |-> <<>>]
    /\ notifs = [s \in Sessions |-> 0]
    /\ wired = [s \in Sessions |-> 0]

-----------------------------------------------------------------------------
(***************************************************************************)
(* What the handlers share.                                                *)
(***************************************************************************)

Entries(q) == {q[i] : i \in DOMAIN q}

(* Faulty variant: published entries are taken to be consumed.             *)
RoomAfterSubmit(k) == Len(prep) + k < SqSize

(* io_uring_get_sqe has an entry to give, after k others.                  *)
Room(k) == Len(prep) + Len(sq) + k < SqSize

(* The next completion is e; handling it takes it off the queue.           *)
Handling(op) ==
    /\ pc = "loop"
    /\ cq # <<>>
    /\ Head(cq).op = op
    /\ cq' = Tail(cq)

(* Faulty variant: _socket is reset before ::close can be given it.        *)
CloseNothing(s) ==
    /\ socket' = [socket EXCEPT ![s] = NoFd]
    /\ owner' = owner

(* Faulty variant: _socket is not reset.                                   *)
CloseKeepsSocket(s) ==
    /\ socket' = socket
    /\ owner' = [fd \in Fds |-> IF fd = socket[s] THEN NoSession ELSE owner[fd]]

(* Session::close.                                                         *)
Close(s) ==
    /\ socket' = [socket EXCEPT ![s] = NoFd]
    /\ owner' = [fd \in Fds |-> IF fd = socket[s] THEN NoSession ELSE owner[fd]]

KeepOpen == UNCHANGED <<socket, owner>>

(* releaseSession then tryFreeSession: off the wheel, shut down, destroyed *)
(* and back in the pool.  What the slot's memory holds matters no more.    *)
Free(s) ==
    /\ Close(s)
    /\ status' = [status EXCEPT ![s] = "Free"]
    /\ linked' = linked \ {s}
    /\ keepAlive' = [keepAlive EXCEPT ![s] = FALSE]
    /\ head' = [head EXCEPT ![s] = 0]
    /\ tail' = [tail EXCEPT ![s] = 0]
    /\ locked' = [locked EXCEPT ![s] = 0]
    /\ wired' = [wired EXCEPT ![s] = 0]

SetClosing(s) == status' = [status EXCEPT ![s] = "Closing"]

-----------------------------------------------------------------------------
(***************************************************************************)
(* Completions of the listener.                                            *)
(***************************************************************************)

(* getSqeSafe finds no entry and submits what is prepared.                 *)
FlushFull ==
    /\ pc = "loop"
    /\ cq # <<>> /\ Head(cq).op \in {"accept", "acceptEnd"}
    /\ ~Room(0) /\ prep # <<>>
    /\ sq' = sq \o prep
    /\ prep' = <<>>
    /\ UNCHANGED <<status, io, socket, bufferVars, linked, pc, cq, owner, kernelVars>>

(* Faulty variant: the wheel is left alone.                                *)
NotTimed(s) == linked

(* timerWheel.update.                                                      *)
Timed(s) == linked \cup {s}

(* A connection that came without F_MORE was the last one: the second half *)
(* of its handling is that of an end of the accept, and comes next.        *)
AcceptsLeft(c) == IF c.more THEN <<>> ELSE <<AcceptEnd>>

(* A connection: construct, put on the wheel, start to read; or, when the  *)
(* kernel has not made room since the flush, drop it.                      *)
HandleAccept(s) ==
    /\ pc = "loop"
    /\ cq # <<>> /\ Head(cq).op = "accept"
    /\ cq' = AcceptsLeft(Head(cq)) \o Tail(cq)
    /\ status[s] = "Free"
    /\ LET fd == Head(cq).fd IN
       \/ /\ Room(0)
          /\ status' = [status EXCEPT ![s] = "Active"]
          /\ socket' = [socket EXCEPT ![s] = fd]
          /\ owner' = [owner EXCEPT ![fd] = s]
          /\ linked' = Timed(s)
          /\ prep' = Append(prep, [Recv(s) EXCEPT !.fd = fd])
          /\ io' = [io EXCEPT ![s] = {"READING"}]
       \/ /\ ~Room(0) /\ prep = <<>>
          /\ owner' = [owner EXCEPT ![fd] = NoSession]
          /\ UNCHANGED <<status, socket, linked, prep, io>>
    /\ UNCHANGED <<bufferVars, pc, sq, kernelVars>>

(* Faulty variant: the end of the multishot accept is only logged.         *)
HandleAcceptEndUnarmed ==
    /\ Handling("acceptEnd")
    /\ UNCHANGED <<workerVars, sq, owner, kernelVars>>

(* The multishot accept has ended: re-arm it.  The entry is not checked    *)
(* for null.                                                               *)
HandleAcceptEnd ==
    /\ Handling("acceptEnd")
    /\ \/ /\ Room(0)
          /\ prep' = Append(prep, Accept)
          /\ UNCHANGED pc
       \/ /\ ~Room(0) /\ prep = <<>>
          /\ pc' = "noEntry"
          /\ UNCHANGED prep
    /\ UNCHANGED <<status, io, socket, bufferVars, linked, sq, owner, kernelVars>>

-----------------------------------------------------------------------------
(***************************************************************************)
(* Completions of sessions.                                                *)
(***************************************************************************)

(* A NOP carries no IoRequest: its null session pointer is followed.       *)
HandleNop ==
    /\ Handling("nop")
    /\ pc' = "noSession"
    /\ UNCHANGED <<status, io, socket, bufferVars, linked, prep, sq, owner, kernelVars>>

(* Not Active.  A Closing session with no flag set is freed; for any other *)
(* the completion is ignored and its flag stays as it is.                  *)
HandleInactive(s) ==
    /\ Handling(Head(cq).op)
    /\ Head(cq).op \in {"recv", "send", "notif"}
    /\ Head(cq).s = s
    /\ status[s] # "Active"
    /\ IF status[s] = "Closing" /\ io[s] = {}
       THEN Free(s)
       ELSE UNCHANGED <<status, socket, bufferVars, linked, owner>>
    /\ UNCHANGED <<io, prep, pc, sq, kernelVars>>

(* processRead of an error or the end: close unless a response is queued.  *)
HandleReadEnd(s) ==
    /\ Handling("recv")
    /\ Head(cq).s = s /\ ~Head(cq).ok
    /\ status[s] = "Active"
    /\ io' = [io EXCEPT ![s] = @ \ {"READING"}]
    /\ SetClosing(s)
    /\ IF tail[s] = head[s]
       THEN Close(s) /\ UNCHANGED keepAlive
       ELSE keepAlive' = [keepAlive EXCEPT ![s] = FALSE] /\ KeepOpen
    /\ UNCHANGED <<head, tail, locked, wired, linked, prep, pc, sq, kernelVars>>

(* Faulty variant: the flag of a recv is not recorded.                     *)
ReadFlagLost(rearm) == {}

(* updateIoState(IO_READING, ...) as onReadReady leaves it.                *)
ReadFlag(rearm) == IF \E i \in DOMAIN rearm : rearm[i].op = "recv" THEN {"READING"} ELSE {}

(* processRead of data: the handlers of the complete requests write units, *)
(* leave _keepAlive at what the last request parsed, however far, says,    *)
(* and set Closing when one of them was not to be kept alive.  Then a      *)
(* send_zc if one is needed and, still Active, a new recv, as far as       *)
(* entries are to be had.  A read ring left full, no request in it being   *)
(* complete, closes the socket and prepares a NOP instead.                 *)
HandleReadData(s, units, closing, full) ==
    LET end == tail[s] + units
        write == IF end > head[s] /\ "WRITING" \notin io[s] /\ Room(0)
                 THEN <<Send(s, head[s], end)>> ELSE <<>>
        read == IF closing \/ ~Room(Len(write)) THEN <<>>
                ELSE IF full THEN <<Nop>> ELSE <<Recv(s)>>
    IN
    /\ Handling("recv")
    /\ Head(cq).s = s /\ Head(cq).ok
    /\ status[s] = "Active"
    /\ end <= MaxUnits
    /\ full => units = 0 /\ ~closing
    /\ tail' = [tail EXCEPT ![s] = end]
    /\ \E keep \in BOOLEAN : keepAlive' = [keepAlive EXCEPT ![s] = keep]
    /\ IF closing THEN SetClosing(s) ELSE UNCHANGED status
    /\ prep' = prep \o write \o read
    /\ io' = [io EXCEPT ![s] = (@ \ {"READING"}) \cup ReadFlag(read)
                               \cup (IF write # <<>> THEN {"WRITING"} ELSE {})]
    /\ IF read = <<Nop>> THEN Close(s) ELSE KeepOpen
    /\ UNCHANGED <<head, locked, wired, linked, pc, sq, kernelVars>>

(* Faulty variant: IO_WRITING stays until F_NOTIF, which does not clear it. *)
ResultFlagsKept(s, more) == io[s] \cup (IF more THEN {"WAITING_ZC"} ELSE {})

(* IO_WAITING_ZC is set when F_NOTIF is to follow; IO_WRITING is cleared.  *)
ResultFlags(s, more) == (io[s] \ {"WRITING"}) \cup (IF more THEN {"WAITING_ZC"} ELSE {})

(* processWrite of a result: the units sent stay locked until F_NOTIF.     *)
HandleSendResult(s) ==
    LET c == Head(cq) IN
    /\ Handling("send")
    /\ c.s = s
    /\ status[s] = "Active"
    /\ io' = [io EXCEPT ![s] = ResultFlags(s, c.more)]
    /\ IF c.ok
       THEN locked' = [locked EXCEPT ![s] = c.n] /\ KeepOpen /\ UNCHANGED status
       ELSE Close(s) /\ SetClosing(s) /\ UNCHANGED locked
    /\ UNCHANGED <<keepAlive, head, tail, wired, linked, prep, pc, sq, kernelVars>>

(* processWrite of F_NOTIF: release the locked units, send what is left,   *)
(* or close when nothing is left and the client did not ask to keep the    *)
(* connection.                                                             *)
HandleNotif(s) ==
    LET freed == IF head[s] + locked[s] > tail[s] THEN tail[s] ELSE head[s] + locked[s] IN
    /\ Handling("notif")
    /\ Head(cq).s = s
    /\ status[s] = "Active"
    /\ head' = [head EXCEPT ![s] = freed]
    /\ locked' = [locked EXCEPT ![s] = 0]
    /\ \/ /\ tail[s] > freed /\ Room(0)
          /\ prep' = Append(prep, Send(s, freed, tail[s]))
          /\ io' = [io EXCEPT ![s] = (@ \ {"WAITING_ZC"}) \cup {"WRITING"}]
          /\ KeepOpen /\ UNCHANGED status
       \/ /\ IF tail[s] > freed THEN ~Room(0) ELSE keepAlive[s]
          /\ io' = [io EXCEPT ![s] = @ \ {"WAITING_ZC"}]
          /\ KeepOpen /\ UNCHANGED <<status, prep>>
       \/ /\ tail[s] = freed /\ ~keepAlive[s]
          /\ io' = [io EXCEPT ![s] = @ \ {"WAITING_ZC"}]
          /\ Close(s) /\ SetClosing(s) /\ UNCHANGED prep
    /\ UNCHANGED <<keepAlive, tail, wired, linked, pc, sq, kernelVars>>

-----------------------------------------------------------------------------
(***************************************************************************)
(* The rest of an iteration, once the completion queue is empty.           *)
(***************************************************************************)

(* processExpired on one session: close it, and free it unless a flag says *)
(* that the kernel is not done with it.  It is off the wheel either way.   *)
Expire(s) ==
    /\ pc = "loop"
    /\ cq = <<>>
    /\ s \in linked
    /\ PromptKernel => \A e \in Entries(prep \o sq) : e.op \in {"recv", "send"} => e.s # s
    /\ IF io[s] = {}
       THEN Free(s)
       ELSE /\ Close(s)
            /\ SetClosing(s)
            /\ linked' = linked \ {s}
            /\ UNCHANGED bufferVars
    /\ UNCHANGED <<io, prep, pc, sq, cq, kernelVars>>

(* io_uring_submit at the end of the iteration.                            *)
Submit ==
    /\ pc = "loop"
    /\ cq = <<>> /\ prep # <<>>
    /\ sq' = sq \o prep
    /\ prep' = <<>>
    /\ UNCHANGED <<status, io, socket, bufferVars, linked, pc, cq, owner, kernelVars>>

(* stop() may clear _running at any time.  io_uring_queue_exit cancels     *)
(* what the kernel has in hand; the sessions are left as they are.         *)
LoopExit ==
    /\ pc = "loop"
    /\ cq = <<>> /\ prep = <<>>
    /\ pc' = "done"
    /\ sq' = <<>>
    /\ armed' = FALSE
    /\ recvs' = [s \in Sessions |-> 0]
    /\ sends' = [s \in Sessions |-> <<>>]
    /\ notifs' = [s \in Sessions |-> 0]
    /\ UNCHANGED <<status, io, socket, bufferVars, linked, prep, cq, owner>>

-----------------------------------------------------------------------------
(***************************************************************************)
(* The kernel and, through it, the clients.                                *)
(***************************************************************************)

(* IORING_FEAT_NODROP: a completion waits in the kernel for room.          *)
Post(c) ==
    /\ Len(cq) < CqSize
    /\ cq' = Append(cq, c)

(* The descriptor of an entry no longer names a connection.                *)
BadFd(e) == e.fd = NoFd \/ owner[e.fd] = NoSession

(* The SQPOLL thread takes an entry.  An operation keeps its connection    *)
(* whatever becomes of the descriptor afterwards.                          *)
TakeSqe ==
    LET e == Head(sq) IN
    /\ sq # <<>>
    /\ sq' = Tail(sq)
    /\ CASE e.op = "nop" -> Post(Nop) /\ UNCHANGED <<armed, recvs, sends>>
         [] e.op = "accept" -> armed' = TRUE /\ UNCHANGED <<cq, recvs, sends>>
         [] e.op = "recv" ->
              /\ IF BadFd(e)
                 THEN Post([op |-> "recv", s |-> e.s, ok |-> FALSE]) /\ UNCHANGED recvs
                 ELSE recvs' = [recvs EXCEPT ![e.s] = @ + 1] /\ UNCHANGED cq
              /\ UNCHANGED <<armed, sends>>
         [] e.op = "send" ->
              /\ IF BadFd(e)
                 THEN /\ Post([op |-> "send", s |-> e.s, ok |-> FALSE, n |-> 0, more |-> FALSE])
                      /\ UNCHANGED sends
                 ELSE /\ sends' = [sends EXCEPT ![e.s] =
                                     Append(@, [from |-> e.from, to |-> e.to])]
                      /\ UNCHANGED cq
              /\ UNCHANGED <<armed, recvs>>
    /\ UNCHANGED <<workerVars, owner, notifs>>

(* Data, the end of the stream or an error for a waiting recv.             *)
RecvDone(s, ok) ==
    /\ recvs[s] > 0
    /\ ok => SumFunction([t \in Sessions |-> Len(sends[t]) + notifs[t]]) < MaxSends
    /\ recvs' = [recvs EXCEPT ![s] = @ - 1]
    /\ Post([op |-> "recv", s |-> s, ok |-> ok])
    /\ UNCHANGED <<workerVars, sq, owner, armed, sends, notifs>>

(* A send_zc puts n of its units on the wire, or fails and puts none.  The *)
(* pages are held until Notify.                                            *)
SendDone(s, n) ==
    LET e == Head(sends[s]) IN
    /\ sends[s] # <<>>
    /\ n <= e.to - e.from
    /\ sends' = [sends EXCEPT ![s] = Tail(@)]
    /\ notifs' = [notifs EXCEPT ![s] = @ + 1]
    /\ wired' = [wired EXCEPT ![s] = IF status[s] # "Active" \/ n = 0 THEN @
                                     ELSE IF e.from = @ THEN @ + n ELSE Garbled]
    /\ Post([op |-> "send", s |-> s, ok |-> n > 0, n |-> n, more |-> TRUE])
    /\ UNCHANGED <<status, io, socket, keepAlive, head, tail, locked, linked, prep, pc,
                   sq, owner, armed, recvs>>

(* The pages of a send are free again: F_NOTIF.                            *)
Notify(s) ==
    /\ notifs[s] > 0
    /\ notifs' = [notifs EXCEPT ![s] = @ - 1]
    /\ Post([op |-> "notif", s |-> s])
    /\ UNCHANGED <<workerVars, sq, owner, armed, recvs, sends>>

(* A client connects.  The completion may be the last of the multishot     *)
(* accept: that is how an overflow of the completion queue ends it.        *)
(* Bound: the pool has a slot for it.                                      *)
AcceptDone(fd, more) ==
    /\ armed
    /\ owner[fd] = NoSession
    /\ Cardinality({f \in Fds : owner[f] = Unclaimed})
         < Cardinality({s \in Sessions : status[s] = "Free"})
    /\ owner' = [owner EXCEPT ![fd] = Unclaimed]
    /\ armed' = more
    /\ Post([op |-> "accept", fd |-> fd, more |-> more])
    /\ UNCHANGED <<workerVars, sq, recvs, sends, notifs>>

(* An error ends the multishot accept: no descriptor is free, a client has *)
(* gone before it was accepted.                                            *)
AcceptFails ==
    /\ armed
    /\ armed' = FALSE
    /\ Post(AcceptEnd)
    /\ UNCHANGED <<workerVars, sq, owner, recvs, sends, notifs>>

Handle ==
    \/ FlushFull \/ HandleAcceptEnd \/ HandleNop
    \/ \E s \in Sessions :
        \/ HandleAccept(s) \/ HandleInactive(s) \/ HandleReadEnd(s)
        \/ HandleSendResult(s) \/ HandleNotif(s)
        \/ \E units \in 0 .. MaxUnits, closing, full \in BOOLEAN :
                HandleReadData(s, units, closing, full)

Kernel ==
    \/ TakeSqe \/ AcceptFails
    \/ \E fd \in Fds, more \in BOOLEAN : AcceptDone(fd, more)
    \/ \E s \in Sessions :
        \/ Notify(s)
        \/ \E ok \in BOOLEAN : RecvDone(s, ok)
        \/ \E n \in 0 .. MaxUnits : SendDone(s, n)

Next == Handle \/ Submit \/ LoopExit \/ Kernel \/ \E s \in Sessions : Expire(s)

Spec == Init /\ [][Next]_vars

(* The worker runs, the kernel takes entries and finishes sends, and the   *)
(* wheel is turned in every iteration, however completions keep arriving;  *)
(* a client may stay silent for ever.                                      *)
FairSpec ==
    /\ Spec
    /\ WF_vars(Handle) /\ WF_vars(Submit) /\ WF_vars(TakeSqe)
    /\ \A s \in Sessions :
        /\ SF_vars(Expire(s))
        /\ WF_vars(Notify(s))
        /\ WF_vars(\E n \in 0 .. MaxUnits : SendDone(s, n))

-----------------------------------------------------------------------------
Count(q, op, s) == Cardinality({i \in DOMAIN q : q[i].op = op /\ q[i].s = s})

(* The recv operations of s that have been prepared and not yet handled,   *)
(* and the same for send_zc results and for notifications.                 *)
RecvsOut(s) == Count(prep \o sq \o cq, "recv", s) + recvs[s]
SendsOut(s) == Count(prep \o sq \o cq, "send", s) + Len(sends[s])
NotifsOut(s) == Count(cq, "notif", s) + notifs[s]

(* The kernel never has two recvs into one read ring, and never one into   *)
(* the ring of a slot that has been given back to the pool.                *)
RecvPinned ==
    \A s \in Sessions :
        /\ RecvsOut(s) <= 1
        /\ RecvsOut(s) = 1 => status[s] # "Free" /\ "READING" \in io[s]

(* While the loop runs, an Active session never waits for a completion     *)
(* that will not come: behind each of its flags there is an operation.     *)
FlagsBacked ==
    \A s \in Sessions : pc # "done" /\ status[s] = "Active" =>
        /\ "READING" \in io[s] => RecvsOut(s) > 0
        /\ "WRITING" \in io[s] => SendsOut(s) > 0
        /\ "WAITING_ZC" \in io[s] => NotifsOut(s) > 0

(* A session in use is on the wheel, which will end it if nothing else     *)
(* does; or the wheel has been there: the session is closed and some flag  *)
(* of it was set then, so that its slot waits for a completion.  Whether   *)
(* that completion does give it back is the question of ClosingReleased.   *)
NoLimbo ==
    \A s \in Sessions : status[s] # "Free" =>
        \/ s \in linked
        \/ (status[s] = "Closing" /\ socket[s] = NoFd /\ io[s] # {})

(* No descriptor leaks, and none is closed by a session that does not hold *)
(* it, whatever order accepts, closes and completions come in.             *)
FdOwnership ==
    \A fd \in Fds :
        /\ \A s \in Sessions : owner[fd] = s <=> status[s] # "Free" /\ socket[s] = fd
        /\ owner[fd] = Unclaimed <=>
             \E c \in Entries(cq) : c.op = "accept" /\ c.fd = fd

(* The entries and completions behind which there will be an accept.       *)
Listening == {Accept, AcceptEnd} \cup [op : {"accept"}, fd : Fds, more : {FALSE}]

(* Until the loop ends, or fails to re-arm, there is exactly one accept:   *)
(* armed, on its way to the kernel, or ended, by an error or along with a  *)
(* connection, and about to be re-armed.                                   *)
ListenerArmed ==
    LET pending == prep \o sq \o cq IN
    pc \notin {"done", "noEntry"} =>
        Cardinality({i \in DOMAIN pending : pending[i] \in Listening})
          + (IF armed THEN 1 ELSE 0) = 1

(* The life of a slot: a Closing session may still have its socket.        *)
Phase ==
    [s \in Sessions |-> IF status[s] = "Free" THEN "free"
                        ELSE IF socket[s] = NoFd THEN "closed" ELSE "open"]

Slots == INSTANCE SlotLifecycle WITH phase <- Phase, holds <- socket

(* The worker implements SlotLifecycle, as that of the epoll build does,   *)
(* although three ways lead to the release of a slot: a completion, the    *)
(* wheel, and a completion after the wheel.                                *)
SlotsKept == Slots!Spec

(* What a client receives is what the handlers wrote: each byte once and   *)
(* in order.                                                               *)
WireInOrder == \A s \in Sessions : wired[s] # Garbled

(* A session's operation runs on that session's connection or not at all.  *)
NoForeignIo ==
    \A e \in Entries(sq) : e.op \in {"recv", "send"} /\ e.fd # NoFd =>
        owner[e.fd] \in {e.s, NoSession}

(* Closing ends once the kernel has returned all it holds of the session.  *)
ClosingReleased ==
    \A s \in Sessions :
        (status[s] = "Closing" /\ RecvsOut(s) + SendsOut(s) + NotifsOut(s) = 0)
          ~> (status[s] = "Free" \/ pc # "loop")
=============================================================================
