----------------------------- MODULE EpollWorker -----------------------------
(***************************************************************************)
(* The worker threads of the epoll build: EventLoop::runWorker under       *)
(* USE_EPOLL.  Every worker has a listener, an epoll set, a session table, *)
(* a session pool and a timer wheel of its own; what workers share is the  *)
(* process's file descriptors: one that a worker closes may be the next    *)
(* one another worker accepts.                                             *)
(*                                                                         *)
(* A step is one syscall or one handler: reading the clock, epoll_wait,    *)
(* one accept4, one event, one tick of the wheel.  Of what onReadReady and *)
(* onWriteReady do, only the result and the closing of the socket matter.  *)
(*                                                                         *)
(* Time is counted in TIMERWHELL_TICK_INTERVALs and kept relative to the   *)
(* wheel, so that no last instant is needed: due[w] intervals separate the *)
(* wheel of w from the clock, loopDue[w] separate it from currentLoopTime. *)
(***************************************************************************)
EXTENDS Naturals, FiniteSets

CONSTANTS
    Workers,     \* the threads; a worker also names its listener's descriptor
    Sessions,    \* the slots of all session pools
    Home,        \* Home[s]: the worker whose pool holds slot s
    Fds,         \* the descriptors left for connections
    NoFd,        \* SOCKET_ERROR_VALUE
    NoSession,   \* nullptr; also: no connection behind a descriptor
    WheelSlots,  \* connection_timeout_ms / 1000
    MaxLag       \* bound: intervals that pass during one iteration

ASSUME WorkerAssumption ==
    /\ Home \in [Sessions -> Workers]
    /\ Fds \cap Workers = {}
    /\ NoFd \notin Fds
    /\ NoSession \notin Sessions
    /\ WheelSlots \in Nat \ {0}
    /\ MaxLag \in Nat \ {0}

VARIABLES
    running,      \* EventLoop::_running
    pc,           \* where each worker is: "run", "wait", "accept" or "done"
    batch,        \* what is left of events[0 .. nfds-1]
    backlog,      \* kernel: connections waiting at each listener
    ready,        \* kernel: the descriptors on their epoll set's ready list
    owner,        \* kernel: the connection behind each open descriptor
    sessionTable, \* sessionTable[fd] of each worker
    live,         \* the slots that hold a constructed Session
    socket,       \* Session::_socket
    ttl,          \* wheel ticks until the session expires, 0 = not linked
    age,          \* intervals from lastActivityTick to currentLoopTime, up to 2
    due, loopDue  \* see above

loopVars == <<running, pc, batch>>
kernelVars == <<backlog, ready, owner>>
sessionVars == <<sessionTable, live, socket>>
timerVars == <<ttl, age, due, loopDue>>
vars == <<loopVars, kernelVars, sessionVars, timerVars>>

Pool(w) == {s \in Sessions : Home[s] = w}

(* What w's epoll set holds: its listener and the open connections it      *)
(* accepted.  Closing a descriptor takes it out of the set.                *)
Registered(w) == {w} \cup {fd \in Fds : owner[fd] \in Pool(w)}

(* Every variable has its type; no session outlives a turn of the wheel.   *)
TypeOK ==
    /\ running \in BOOLEAN
    /\ pc \in [Workers -> {"run", "wait", "accept", "done"}]
    /\ batch \in [Workers -> SUBSET (Fds \cup Workers)]
    /\ backlog \in [Workers -> Nat]
    /\ ready \in SUBSET (Fds \cup Workers)
    /\ owner \in [Fds -> Sessions \cup {NoSession}]
    /\ sessionTable \in [Workers -> [Fds -> Sessions \cup {NoSession}]]
    /\ live \in SUBSET Sessions
    /\ socket \in [Sessions -> Fds \cup {NoFd}]
    /\ ttl \in [Sessions -> 0 .. WheelSlots]
    /\ age \in [Sessions -> 0 .. 2]
    /\ due \in [Workers -> 0 .. MaxLag]
    /\ loopDue \in [Workers -> 0 .. MaxLag]

(* Past socket, bind, listen and epoll_create1, before the loop.           *)
Init ==
    /\ running = TRUE
    /\ pc = [w \in Workers |-> "run"]
    /\ batch = [w \in Workers |-> {}]
    /\ backlog = [w \in Workers |-> 0]
    /\ ready = {}
    /\ owner = [fd \in Fds |-> NoSession]
    /\ sessionTable = [w \in Workers |-> [fd \in Fds |-> NoSession]]
    /\ live = {}
    /\ socket = [s \in Sessions |-> NoFd]
    /\ ttl = [s \in Sessions |-> 0]
    /\ age = [s \in Sessions |-> 2]
    /\ due = [w \in Workers |-> 0]
    /\ loopDue = [w \in Workers |-> 0]

-----------------------------------------------------------------------------
(***************************************************************************)
(* The loop: the clock, epoll_wait, the batch, the wheel.                  *)
(***************************************************************************)

Goto(w, label) == pc' = [pc EXCEPT ![w] = label]

(* The batch is handled and the wheel has caught up with currentLoopTime.  *)
IterationOver(w) == pc[w] = "run" /\ batch[w] = {} /\ loopDue[w] = 0

(* Faulty variant: while (true).                                           *)
LoopTopForever(w) ==
    /\ IterationOver(w)
    /\ Goto(w, "wait")
    /\ loopDue' = [loopDue EXCEPT ![w] = due[w]]
    /\ UNCHANGED <<running, batch, kernelVars, sessionVars, ttl, age, due>>

(* while (_running): currentLoopTime is read before the wait and is not    *)
(* read again in this iteration.                                           *)
LoopTop(w) ==
    /\ IterationOver(w)
    /\ running
    /\ Goto(w, "wait")
    /\ age' = [s \in Sessions |->
                 IF Home[s] # w THEN age[s]
                 ELSE IF age[s] + due[w] > 2 THEN 2 ELSE age[s] + due[w]]
    /\ loopDue' = [loopDue EXCEPT ![w] = due[w]]
    /\ UNCHANGED <<running, batch, kernelVars, sessionVars, ttl, due>>

(* close(listenFd) resets what waits in its queue, close(epfd) drops the   *)
(* ready list; the sessions are left as they are.                          *)
LoopExit(w) ==
    /\ IterationOver(w)
    /\ ~running
    /\ Goto(w, "done")
    /\ backlog' = [backlog EXCEPT ![w] = 0]
    /\ ready' = ready \ Registered(w)
    /\ UNCHANGED <<running, batch, owner, sessionVars, timerVars>>

(* epoll_wait returns what is ready, or nothing once the next tick is due. *)
(* Edge triggered: what it returns leaves the ready list.                  *)
EpollWait(w) ==
    /\ pc[w] = "wait"
    /\ Registered(w) \cap ready # {} \/ due[w] > 0
    /\ Goto(w, "run")
    /\ batch' = [batch EXCEPT ![w] = Registered(w) \cap ready]
    /\ ready' = ready \ Registered(w)
    /\ UNCHANGED <<running, backlog, owner, sessionVars, timerVars>>

-----------------------------------------------------------------------------
(***************************************************************************)
(* The listener's event: accept4 until it says EAGAIN.                     *)
(***************************************************************************)

StartAccept(w) ==
    /\ pc[w] = "run"
    /\ w \in batch[w]
    /\ Goto(w, "accept")
    /\ batch' = [batch EXCEPT ![w] = @ \ {w}]
    /\ UNCHANGED <<running, kernelVars, sessionVars, timerVars>>

NoFreeFd == \A fd \in Fds : owner[fd] # NoSession

(* accept4 succeeds: a slot leaves the pool, a Session is constructed in   *)
(* it, the table is written and the descriptor joins the epoll set, which  *)
(* at once reports it writable.  The wheel is not touched.                 *)
Accept(w, s, fd) ==
    /\ pc[w] = "accept"
    /\ backlog[w] > 0
    /\ owner[fd] = NoSession
    /\ s \in Pool(w) \ live
    /\ backlog' = [backlog EXCEPT ![w] = @ - 1]
    /\ owner' = [owner EXCEPT ![fd] = s]
    /\ ready' = ready \cup {fd}
    /\ sessionTable' = [sessionTable EXCEPT ![w] = [@ EXCEPT ![fd] = s]]
    /\ live' = live \cup {s}
    /\ socket' = [socket EXCEPT ![s] = fd]
    /\ ttl' = [ttl EXCEPT ![s] = 0]
    /\ age' = [age EXCEPT ![s] = 2]
    /\ UNCHANGED <<loopVars, due, loopDue>>

(* ECONNABORTED: the client has gone, the loop goes on.                    *)
AcceptAborted(w) ==
    /\ pc[w] = "accept"
    /\ backlog[w] > 0
    /\ ~NoFreeFd
    /\ backlog' = [backlog EXCEPT ![w] = @ - 1]
    /\ UNCHANGED <<loopVars, ready, owner, sessionVars, timerVars>>

(* EMFILE: no descriptor is free.  accept4 takes one before it looks at    *)
(* its queue, so this is what an empty queue gives as well.  It is not     *)
(* EAGAIN, so accept4 is called again, and nothing has changed.            *)
AcceptRetry(w) ==
    /\ pc[w] = "accept"
    /\ NoFreeFd
    /\ UNCHANGED vars

(* Faulty variant: the loop is left before EAGAIN.                         *)
AcceptDrainedEarly(w) ==
    /\ pc[w] = "accept"
    /\ Goto(w, "run")
    /\ UNCHANGED <<running, batch, kernelVars, sessionVars, timerVars>>

(* EAGAIN: there is a descriptor and nothing is waiting.                   *)
AcceptDrained(w) ==
    /\ pc[w] = "accept"
    /\ ~NoFreeFd
    /\ backlog[w] = 0
    /\ Goto(w, "run")
    /\ UNCHANGED <<running, batch, kernelVars, sessionVars, timerVars>>

-----------------------------------------------------------------------------
(***************************************************************************)
(* Sessions: closing, releasing, refreshing.                               *)
(***************************************************************************)

(* Faulty variant: close() closes nothing the kernel knows of.             *)
ClosedNone(S) == {}

(* The descriptors that close() closes for the sessions of S.              *)
Closed(S) == {socket[s] : s \in S} \cap Fds

(* Faulty variant: close() leaves _socket set.                             *)
SocketKept(S) == socket

(* close() sets _socket to SOCKET_ERROR_VALUE.                             *)
SocketClosed(S) == [s \in Sessions |-> IF s \in S THEN NoFd ELSE socket[s]]

(* Session::close for the sessions of S.                                   *)
Close(S) ==
    /\ owner' = [fd \in Fds |-> IF fd \in Closed(S) THEN NoSession ELSE owner[fd]]
    /\ ready' = ready \ Closed(S)
    /\ socket' = SocketClosed(S)

(* releaseSession for slots S of w's pool: destroy, which closes, return   *)
(* the slot, and clear the table at fds, what getSocket() said of them.    *)
(* The caller takes them off the wheel.  A slot without a Session counts   *)
(* as idle.                                                                *)
Release(w, S, fds) ==
    /\ Close(S)
    /\ live' = live \ S
    /\ age' = [s \in Sessions |-> IF s \in S THEN 2 ELSE age[s]]
    /\ sessionTable' = [sessionTable EXCEPT ![w] =
                          [fd \in Fds |-> IF fd \in fds THEN NoSession ELSE @[fd]]]

(* Faulty variant: one slot too far.                                       *)
RefreshedLate(s) == WheelSlots + 1

(* Faulty variant: a session already on the wheel keeps its place.         *)
RefreshedOnce(s) == IF ttl[s] > 0 THEN ttl[s] ELSE WheelSlots

(* timerWheel.update: a full turn from the wheel's current position.       *)
Refreshed(s) == WheelSlots

(* Faulty variant: onReadReady or onWriteReady closes and returns false.   *)
IoReportAny(active, closed) == TRUE

(* They return true whenever they close the socket.                        *)
IoReport(active, closed) == closed => active

(* An event with EPOLLERR or EPOLLHUP: the read and write handlers run     *)
(* first and may have closed the socket, in which case releaseSession sees *)
(* SOCKET_ERROR_VALUE and the table keeps its entry.                       *)
DispatchHangup(w, fd, closed) ==
    LET s == sessionTable[w][fd] IN
    /\ pc[w] = "run"
    /\ fd \in batch[w]
    /\ s \in Sessions
    /\ batch' = [batch EXCEPT ![w] = @ \ {fd}]
    /\ Release(w, {s}, IF closed THEN {} ELSE {socket[s]})
    /\ ttl' = [ttl EXCEPT ![s] = 0]
    /\ UNCHANGED <<running, pc, backlog, due, loopDue>>

(* Any other event: the handlers report activity or not and close the      *)
(* socket or not.  Activity puts the session on the wheel anew if          *)
(* currentLoopTime - lastActivityTick >= TIMERWHELL_TICK_INTERVAL: never   *)
(* in the same interval, perhaps in the next one, always after that.       *)
DispatchIo(w, fd, active, closed) ==
    LET s == sessionTable[w][fd] IN
    /\ pc[w] = "run"
    /\ fd \in batch[w]
    /\ s \in Sessions
    /\ IoReport(active, closed)
    /\ batch' = [batch EXCEPT ![w] = @ \ {fd}]
    /\ IF closed THEN Close({s}) ELSE UNCHANGED <<owner, ready, socket>>
    /\ \/ /\ active /\ age[s] > 0
          /\ ttl' = [ttl EXCEPT ![s] = Refreshed(s)]
          /\ age' = [age EXCEPT ![s] = 0]
       \/ /\ active => age[s] < 2
          /\ UNCHANGED <<ttl, age>>
    /\ UNCHANGED <<running, pc, backlog, sessionTable, live, due, loopDue>>

Expired(w) == {s \in Pool(w) : ttl[s] = 1}

(* One tick that is due by currentLoopTime: what expires is released.      *)
ExpireTick(w) ==
    /\ pc[w] = "run" /\ batch[w] = {} /\ loopDue[w] > 0
    /\ Release(w, Expired(w), Closed(Expired(w)))
    /\ ttl' = [s \in Sessions |-> IF s \in Pool(w) /\ ttl[s] > 0 THEN ttl[s] - 1
                                                                 ELSE ttl[s]]
    /\ due' = [due EXCEPT ![w] = @ - 1]
    /\ loopDue' = [loopDue EXCEPT ![w] = @ - 1]
    /\ UNCHANGED <<loopVars, backlog>>

-----------------------------------------------------------------------------
(***************************************************************************)
(* The environment: clients, the kernel's readiness, the clock, stop().    *)
(***************************************************************************)

(* A client reaches w's listener.  Bound: no more than w's pool can hold.  *)
Connect(w) ==
    /\ pc[w] # "done"
    /\ backlog[w] < Cardinality(Pool(w) \ live)
    /\ backlog' = [backlog EXCEPT ![w] = @ + 1]
    /\ ready' = ready \cup {w}
    /\ UNCHANGED <<loopVars, owner, sessionVars, timerVars>>

(* An edge on a connection: data, room to write, or the peer's end.        *)
Signal(fd) ==
    /\ owner[fd] # NoSession
    /\ pc[Home[owner[fd]]] # "done"
    /\ ready' = ready \cup {fd}
    /\ UNCHANGED <<loopVars, backlog, owner, sessionVars, timerVars>>

(* An interval passes.  Bound: an iteration lasts at most MaxLag of them.  *)
ClockTick ==
    /\ \E w \in Workers : pc[w] # "done"
    /\ \A w \in Workers : pc[w] # "done" => due[w] < MaxLag
    /\ due' = [w \in Workers |-> IF pc[w] # "done" THEN due[w] + 1 ELSE due[w]]
    /\ UNCHANGED <<loopVars, kernelVars, sessionVars, ttl, age, loopDue>>

(* EventLoop::stop clears _running and then joins: waits for "done".       *)
Stop ==
    /\ running
    /\ running' = FALSE
    /\ UNCHANGED <<pc, batch, kernelVars, sessionVars, timerVars>>

AllDone == \A w \in Workers : pc[w] = "done"

(* Every thread has returned and stop() with them.                         *)
Finished == AllDone /\ UNCHANGED vars

WorkerStep(w) ==
    \/ LoopTop(w) \/ LoopExit(w) \/ EpollWait(w)
    \/ StartAccept(w) \/ AcceptAborted(w) \/ AcceptRetry(w) \/ AcceptDrained(w)
    \/ \E s \in Sessions, fd \in Fds : Accept(w, s, fd)
    \/ \E fd \in Fds, closed \in BOOLEAN : DispatchHangup(w, fd, closed)
    \/ \E fd \in Fds, active, closed \in BOOLEAN : DispatchIo(w, fd, active, closed)
    \/ ExpireTick(w)

Environment ==
    \/ \E w \in Workers : Connect(w)
    \/ \E fd \in Fds : Signal(fd)
    \/ ClockTick \/ Stop \/ Finished

Next == Environment \/ \E w \in Workers : WorkerStep(w)

Spec == Init /\ [][Next]_vars

(* A thread that can run is run and the clock advances; clients and the    *)
(* administrator owe nothing.                                              *)
FairSpec ==
    /\ Spec
    /\ \A w \in Workers : WF_vars(WorkerStep(w))
    /\ WF_vars(ClockTick)

-----------------------------------------------------------------------------
(* No descriptor leaks and none is closed twice or by a stranger: the      *)
(* kernel has a connection open exactly when one live Session holds it.    *)
FdOwnership ==
    \A fd \in Fds, s \in Sessions :
        owner[fd] = s <=> s \in live /\ socket[s] = fd

(* sessionTable[fd] is used without a null check: whatever was closed,     *)
(* reused or expired since epoll_wait returned, an event still in the      *)
(* batch finds the live session that holds the descriptor.                 *)
DispatchSafe ==
    \A w \in Workers : \A fd \in batch[w] \cap Fds :
        LET s == sessionTable[w][fd] IN s \in live \cap Pool(w) /\ socket[s] = fd

(* A session whose handler closed the socket gets no more events, so only  *)
(* the wheel can return its slot: it must be linked.                       *)
ClosedOnWheel == \A s \in live : socket[s] = NoFd => ttl[s] > 0

(* The listener is edge triggered: a connection that waits in its queue    *)
(* has a wake-up on the way or is about to be taken.                       *)
NoStranded ==
    \A w \in Workers :
        backlog[w] > 0 => w \in ready \/ w \in batch[w] \/ pc[w] = "accept"

(* The wheel never drops an open connection in the interval in which the   *)
(* wheel was last refreshed for it, nor in the next one, late as the loop  *)
(* may run.                                                                *)
NoPrematureDrop ==
    [][\A w \in Workers : ExpireTick(w) =>
          \A s \in live \ live' : socket[s] # NoFd => age[s] = 2]_vars

(* The life of a slot as the loop's own data tell it.                      *)
Phase ==
    [s \in Sessions |-> IF s \notin live THEN "free"
                        ELSE IF socket[s] = NoFd THEN "closed" ELSE "open"]

Slots == INSTANCE SlotLifecycle WITH phase <- Phase, holds <- socket

(* The worker implements SlotLifecycle: no slot is handed out before it is *)
(* returned, no Session takes over a descriptor another one still holds,   *)
(* and none gets a second connection.                                      *)
SlotsKept == Slots!Spec

(* Clients keep one accept loop busy for ever.                             *)
Flooded(w) == <>[](pc[w] = "accept") /\ []<><<Connect(w)>>_vars

(* The slot of a session that closed its socket comes back to the pool.    *)
ClosedReclaimed ==
    \A w \in Workers : Flooded(w) \/ \A s \in Pool(w) :
        (s \in live /\ socket[s] = NoFd) ~> (s \notin live \/ ~running)

(* No client is left waiting at a listener: connections keep being taken,  *)
(* as long as there are descriptors for all.                               *)
BacklogServed ==
    \A w \in Workers :
        <>[](backlog[w] > 0) => []<><<backlog'[w] < backlog[w]>>_vars

(* stop() returns: every thread notices _running and leaves its loop.      *)
(* True as long as there is a descriptor more than there are sessions:     *)
(* at the limit the accept loop has no way out.                            *)
ShutdownCompletes == (\E w \in Workers : Flooded(w)) \/ (~running ~> AllDone)

(* An accepted connection ends or is timed by the wheel.                   *)
IdleTimed ==
    \A s \in Sessions : s \in live ~> (s \notin live \/ ttl[s] > 0 \/ ~running)
=============================================================================
