-------------------------- MODULE EpollWorkerProofs --------------------------
(***************************************************************************)
(* The safety properties of EpollWorker for any number of workers, slots   *)
(* and descriptors, any home assignment and any length of the wheel.       *)
(***************************************************************************)
EXTENDS EpollWorker, TLAPS

(* The table still names the holder of every open descriptor, a slot       *)
(* without a Session holds none, and so FdOwnership survives each step.    *)
FdInv ==
    /\ FdOwnership
    /\ \A fd \in Fds : owner[fd] # NoSession =>
          sessionTable[Home[owner[fd]]][fd] = owner[fd]
    /\ \A s \in Sessions \ live : socket[s] = NoFd

(* An event of the batch belongs to the worker's own epoll set.            *)
BatchInv ==
    \A w \in Workers :
        /\ batch[w] \subseteq Registered(w)
        /\ pc[w] = "wait" => batch[w] = {}

(* A recently refreshed session is linked; a slot without a Session isn't. *)
TimerInv ==
    /\ \A w \in Workers : loopDue[w] <= due[w]
    /\ \A s \in Sessions : age[s] < 2 => ttl[s] > 0
    /\ \A s \in Sessions \ live : ttl[s] = 0
    /\ ClosedOnWheel

Inv == TypeOK /\ FdInv /\ BatchInv /\ TimerInv /\ NoStranded

(* A refreshed session has a full turn of the wheel ahead of it, less what *)
(* the wheel was behind when it was refreshed and what has gone by since.  *)
FullLease ==
    \A s \in Sessions : age[s] < 2 =>
        ttl[s] + age[s] + MaxLag >= WheelSlots + loopDue[Home[s]]

-----------------------------------------------------------------------------
(***************************************************************************)
(* What an event of the batch finds.                                       *)
(***************************************************************************)

(* sessionTable[fd] is the live session that holds fd, in w's own pool.    *)
LEMMA DispatchTarget ==
    ASSUME Inv, NEW w \in Workers, NEW fd \in batch[w] \cap Fds
    PROVE  LET s == sessionTable[w][fd] IN
           owner[fd] = s /\ s \in live \cap Pool(w) /\ socket[s] = fd
<1>1. owner[fd] \in Pool(w)
  BY WorkerAssumption DEF Inv, BatchInv, Registered
<1>2. owner[fd] \in Sessions /\ owner[fd] # NoSession /\ Home[owner[fd]] = w
  BY <1>1, WorkerAssumption DEF Pool
<1>3. sessionTable[w][fd] = owner[fd]
  BY <1>2 DEF Inv, FdInv
<1>. QED
  BY <1>1, <1>2, <1>3 DEF Inv, FdInv, FdOwnership

-----------------------------------------------------------------------------
(***************************************************************************)
(* Every part of the invariant is preserved by every action.               *)
(***************************************************************************)

(* No step leaves the types; the wheel never runs ahead of the clock.      *)
LEMMA TypeStep == Inv /\ [Next]_vars => TypeOK'
<1>. SUFFICES ASSUME Inv, [Next]_vars
             PROVE  TypeOK'
  OBVIOUS
<1>. USE WorkerAssumption DEF Inv, TypeOK, TimerInv, vars, loopVars, kernelVars,
        sessionVars, timerVars
<1>1. ASSUME NEW w \in Workers, LoopTop(w) PROVE TypeOK'
  <2>. age' \in [Sessions -> 0 .. 2]
    <3>. \A s \in Sessions : age[s] \in 0 .. 2 /\ due[w] \in 0 .. MaxLag
      BY DEF Inv, TypeOK
    <3>. ASSUME NEW s \in Sessions PROVE age'[s] \in 0 .. 2
      <4>1. CASE Home[s] # w
        BY <1>1, <4>1 DEF LoopTop
      <4>2. CASE Home[s] = w
        <5>1. age'[s] = IF age[s] + due[w] > 2 THEN 2 ELSE age[s] + due[w]
          BY <1>1, <4>2 DEF LoopTop
        <5>2. age[s] \in Nat /\ due[w] \in Nat
          OBVIOUS
        <5>. HIDE DEF Inv, TypeOK, TimerInv
        <5>. QED
          BY <5>1, <5>2
      <4>. QED
        BY <4>1, <4>2
    <3>. QED
      BY <1>1 DEF LoopTop
  <2>. QED
    BY <1>1 DEF LoopTop, IterationOver, Goto
<1>2. ASSUME NEW w \in Workers, LoopExit(w) PROVE TypeOK'
  BY <1>2 DEF LoopExit, IterationOver, Goto, Registered, Pool
<1>3. ASSUME NEW w \in Workers, EpollWait(w) PROVE TypeOK'
  BY <1>3 DEF EpollWait, Goto, Registered, Pool
<1>4. ASSUME NEW w \in Workers, StartAccept(w) PROVE TypeOK'
  BY <1>4 DEF StartAccept, Goto
<1>5. ASSUME NEW w \in Workers, AcceptAborted(w) PROVE TypeOK'
  BY <1>5 DEF AcceptAborted
<1>6. ASSUME NEW w \in Workers, AcceptRetry(w) PROVE TypeOK'
  BY <1>6 DEF AcceptRetry
<1>7. ASSUME NEW w \in Workers, AcceptDrained(w) PROVE TypeOK'
  BY <1>7 DEF AcceptDrained, Goto
<1>8. ASSUME NEW w \in Workers, NEW s \in Sessions, NEW fd \in Fds, Accept(w, s, fd)
      PROVE  TypeOK'
  BY <1>8 DEF Accept, Pool
<1>9. ASSUME NEW w \in Workers, NEW fd \in Fds, NEW c \in BOOLEAN, DispatchHangup(w, fd, c)
      PROVE  TypeOK'
  BY <1>9 DEF DispatchHangup, Release, Close, Closed, SocketClosed
<1>10. ASSUME NEW w \in Workers, NEW fd \in Fds, NEW a \in BOOLEAN, NEW c \in BOOLEAN, DispatchIo(w, fd, a, c)
      PROVE  TypeOK'
  <2>. DEFINE t == sessionTable[w][fd]
  <2>0. \/ ttl' = [ttl EXCEPT ![t] = WheelSlots] /\ age' = [age EXCEPT ![t] = 0]
        \/ UNCHANGED <<ttl, age>>
    BY <1>10 DEF DispatchIo, Refreshed
  <2>1. /\ ttl' \in [Sessions -> 0 .. WheelSlots]
        /\ age' \in [Sessions -> 0 .. 2]
    <3>1. ttl \in [Sessions -> 0 .. WheelSlots] /\ age \in [Sessions -> 0 .. 2]
      OBVIOUS
    <3>2. WheelSlots \in 0 .. WheelSlots /\ 0 \in 0 .. 2
      OBVIOUS
    <3>. HIDE DEF t, Inv, TypeOK, TimerInv
    <3>. QED
      BY <2>0, <3>1, <3>2
  <2>2. /\ owner' \in [Fds -> Sessions \cup {NoSession}]
        /\ ready' \in SUBSET (Fds \cup Workers)
        /\ socket' \in [Sessions -> Fds \cup {NoFd}]
    BY <1>10 DEF DispatchIo, Close, Closed, SocketClosed
  <2>3. batch' \in [Workers -> SUBSET (Fds \cup Workers)]
    BY <1>10 DEF DispatchIo
  <2>. QED
    BY <1>10, <2>1, <2>2, <2>3 DEF DispatchIo
<1>11. ASSUME NEW w \in Workers, ExpireTick(w) PROVE TypeOK'
  BY <1>11 DEF ExpireTick, Release, Close, Closed, SocketClosed, Expired, Pool
<1>12. ASSUME NEW w \in Workers, Connect(w) PROVE TypeOK'
  BY <1>12 DEF Connect
<1>13. ASSUME NEW fd \in Fds, Signal(fd) PROVE TypeOK'
  BY <1>13 DEF Signal
<1>14. CASE ClockTick
  BY <1>14 DEF ClockTick
<1>15. CASE Stop
  BY <1>15 DEF Stop
<1>16. CASE Finished
  BY <1>16 DEF Finished
<1>17. CASE UNCHANGED vars
  BY <1>17
<1>. QED
  BY <1>1, <1>2, <1>3, <1>4, <1>5, <1>6, <1>7, <1>8, <1>9, <1>10, <1>11, <1>12,
     <1>13, <1>14, <1>15, <1>16, <1>17 DEF Next, Environment, WorkerStep

(* Accepting, closing and releasing keep table, sockets and kernel agreed. *)
LEMMA FdStep == Inv /\ [Next]_vars => FdInv'
<1>. SUFFICES ASSUME Inv, [Next]_vars
             PROVE  FdInv'
  OBVIOUS
<1>. USE WorkerAssumption DEF Inv, TypeOK, FdInv, FdOwnership, Pool, vars, loopVars,
        kernelVars, sessionVars, timerVars
<1>1. ASSUME NEW w \in Workers, LoopTop(w) PROVE FdInv'
  BY <1>1 DEF LoopTop, IterationOver, Goto
<1>2. ASSUME NEW w \in Workers, LoopExit(w) PROVE FdInv'
  BY <1>2 DEF LoopExit, IterationOver, Goto, Registered
<1>3. ASSUME NEW w \in Workers, EpollWait(w) PROVE FdInv'
  BY <1>3 DEF EpollWait, Goto, Registered
<1>4. ASSUME NEW w \in Workers, StartAccept(w) PROVE FdInv'
  BY <1>4 DEF StartAccept, Goto
<1>5. ASSUME NEW w \in Workers, AcceptAborted(w) PROVE FdInv'
  BY <1>5 DEF AcceptAborted
<1>6. ASSUME NEW w \in Workers, AcceptRetry(w) PROVE FdInv'
  BY <1>6 DEF AcceptRetry
<1>7. ASSUME NEW w \in Workers, AcceptDrained(w) PROVE FdInv'
  BY <1>7 DEF AcceptDrained, Goto
<1>8. ASSUME NEW w \in Workers, NEW s \in Sessions, NEW fd \in Fds, Accept(w, s, fd)
      PROVE  FdInv'
  BY <1>8 DEF Accept
<1>9. ASSUME NEW w \in Workers, NEW fd \in Fds, NEW c \in BOOLEAN, DispatchHangup(w, fd, c)
      PROVE  FdInv'
  BY <1>9 DEF DispatchHangup, Release, Close, Closed, SocketClosed
<1>10. ASSUME NEW w \in Workers, NEW fd \in Fds, NEW a \in BOOLEAN, NEW c \in BOOLEAN, DispatchIo(w, fd, a, c)
      PROVE  FdInv'
  BY <1>10 DEF DispatchIo, Close, Closed, SocketClosed, Refreshed, IoReport
<1>11. ASSUME NEW w \in Workers, ExpireTick(w) PROVE FdInv'
  <2>. DEFINE S == Expired(w)
  <2>0. S \subseteq live /\ S \subseteq Sessions /\ \A s \in S : Home[s] = w
    BY DEF Expired, TimerInv
  <2>. HIDE DEF S
  <2>1. \A fd \in Fds : fd \in Closed(S) <=> owner[fd] \in S
    BY <2>0 DEF Closed
  <2>2. /\ owner' = [fd \in Fds |-> IF fd \in Closed(S) THEN NoSession ELSE owner[fd]]
        /\ live' = live \ S
        /\ socket' = [s \in Sessions |-> IF s \in S THEN NoFd ELSE socket[s]]
        /\ sessionTable' = [sessionTable EXCEPT ![w] =
              [fd \in Fds |-> IF fd \in Closed(S) THEN NoSession ELSE @[fd]]]
    BY <1>11 DEF ExpireTick, Release, Close, SocketClosed, S
  <2>3. FdOwnership'
    BY <2>0, <2>1, <2>2
  <2>4. \A fd \in Fds : owner'[fd] # NoSession =>
          sessionTable'[Home[owner'[fd]]][fd] = owner'[fd]
    BY <2>0, <2>1, <2>2
  <2>5. \A s \in Sessions \ live' : socket'[s] = NoFd
    BY <2>2
  <2>. QED
    BY <2>3, <2>4, <2>5
<1>12. ASSUME NEW w \in Workers, Connect(w) PROVE FdInv'
  BY <1>12 DEF Connect
<1>13. ASSUME NEW fd \in Fds, Signal(fd) PROVE FdInv'
  BY <1>13 DEF Signal
<1>14. CASE ClockTick
  BY <1>14 DEF ClockTick
<1>15. CASE Stop
  BY <1>15 DEF Stop
<1>16. CASE Finished
  BY <1>16 DEF Finished
<1>17. CASE UNCHANGED vars
  BY <1>17
<1>. QED
  BY <1>1, <1>2, <1>3, <1>4, <1>5, <1>6, <1>7, <1>8, <1>9, <1>10, <1>11, <1>12,
     <1>13, <1>14, <1>15, <1>16, <1>17 DEF Next, Environment, WorkerStep

(* What a worker closes leaves its own batch and is in no other.           *)
LEMMA BatchStep == Inv /\ [Next]_vars => BatchInv'
<1>. SUFFICES ASSUME Inv, [Next]_vars
             PROVE  BatchInv'
  OBVIOUS
<1>. USE WorkerAssumption DEF Inv, TypeOK, BatchInv, FdInv, FdOwnership, TimerInv,
        Registered, Pool, vars, loopVars, kernelVars, sessionVars, timerVars
<1>1. ASSUME NEW w \in Workers, LoopTop(w) PROVE BatchInv'
  BY <1>1 DEF LoopTop, IterationOver, Goto
<1>2. ASSUME NEW w \in Workers, LoopExit(w) PROVE BatchInv'
  BY <1>2 DEF LoopExit, IterationOver, Goto
<1>3. ASSUME NEW w \in Workers, EpollWait(w) PROVE BatchInv'
  BY <1>3 DEF EpollWait, Goto
<1>4. ASSUME NEW w \in Workers, StartAccept(w) PROVE BatchInv'
  BY <1>4 DEF StartAccept, Goto
<1>5. ASSUME NEW w \in Workers, AcceptAborted(w) PROVE BatchInv'
  BY <1>5 DEF AcceptAborted
<1>6. ASSUME NEW w \in Workers, AcceptRetry(w) PROVE BatchInv'
  BY <1>6 DEF AcceptRetry
<1>7. ASSUME NEW w \in Workers, AcceptDrained(w) PROVE BatchInv'
  BY <1>7 DEF AcceptDrained, Goto
<1>8. ASSUME NEW w \in Workers, NEW s \in Sessions, NEW fd \in Fds, Accept(w, s, fd)
      PROVE  BatchInv'
  BY <1>8 DEF Accept
<1>9. ASSUME NEW w \in Workers, NEW fd \in Fds, NEW c \in BOOLEAN, DispatchHangup(w, fd, c)
      PROVE  BatchInv'
  <2>1. owner[fd] = sessionTable[w][fd] /\ owner[fd] \in Pool(w) /\ socket[owner[fd]] = fd
    BY <1>9, DispatchTarget DEF DispatchHangup
  <2>. owner[fd] \in Sessions /\ socket[owner[fd]] \in Fds
    BY <2>1
  <2>. Closed({owner[fd]}) = {fd}
    BY <2>1 DEF Closed
  <2>2. owner' = [owner EXCEPT ![fd] = NoSession]
    BY <1>9, <2>1 DEF DispatchHangup, Release, Close
  <2>. QED
    BY <1>9, <2>1, <2>2 DEF DispatchHangup
<1>10. ASSUME NEW w \in Workers, NEW fd \in Fds, NEW a \in BOOLEAN, NEW c \in BOOLEAN, DispatchIo(w, fd, a, c)
      PROVE  BatchInv'
  <2>1. owner[fd] = sessionTable[w][fd] /\ owner[fd] \in Pool(w) /\ socket[owner[fd]] = fd
    BY <1>10, DispatchTarget DEF DispatchIo
  <2>. owner[fd] \in Sessions /\ socket[owner[fd]] \in Fds
    BY <2>1
  <2>2. owner' \in {owner, [owner EXCEPT ![fd] = NoSession]}
    BY <1>10, <2>1 DEF DispatchIo, Close, Closed
  <2>. QED
    BY <1>10, <2>1, <2>2 DEF DispatchIo
<1>11. ASSUME NEW w \in Workers, ExpireTick(w) PROVE BatchInv'
  <2>1. \A fd \in Fds : owner'[fd] = owner[fd] \/ owner[fd] \in Pool(w)
    <3>1. \A fd \in Closed(Expired(w)) : owner[fd] \in Pool(w)
      BY DEF Closed, Expired, TimerInv
    <3>. QED
      BY <1>11, <3>1, SMTT(30) DEF ExpireTick, Release, Close
  <2>2. batch[w] = {} /\ UNCHANGED <<batch, pc>>
    BY <1>11 DEF ExpireTick
  <2>. QED
    BY <2>1, <2>2
<1>12. ASSUME NEW w \in Workers, Connect(w) PROVE BatchInv'
  BY <1>12 DEF Connect
<1>13. ASSUME NEW fd \in Fds, Signal(fd) PROVE BatchInv'
  BY <1>13 DEF Signal
<1>14. CASE ClockTick
  BY <1>14 DEF ClockTick
<1>15. CASE Stop
  BY <1>15 DEF Stop
<1>16. CASE Finished
  BY <1>16 DEF Finished
<1>17. CASE UNCHANGED vars
  BY <1>17
<1>. QED
  BY <1>1, <1>2, <1>3, <1>4, <1>5, <1>6, <1>7, <1>8, <1>9, <1>10, <1>11, <1>12,
     <1>13, <1>14, <1>15, <1>16, <1>17 DEF Next, Environment, WorkerStep

(* A handler that closes reports activity, which links the session.        *)
LEMMA TimerStep == Inv /\ [Next]_vars => TimerInv'
<1>. SUFFICES ASSUME Inv, [Next]_vars
             PROVE  TimerInv'
  OBVIOUS
<1>. USE WorkerAssumption DEF Inv, TypeOK, TimerInv, ClosedOnWheel, FdInv,
        FdOwnership, Pool, vars, loopVars, kernelVars, sessionVars, timerVars
<1>1. ASSUME NEW w \in Workers, LoopTop(w) PROVE TimerInv'
  BY <1>1, SMTT(30) DEF LoopTop, IterationOver, Goto
<1>2. ASSUME NEW w \in Workers, LoopExit(w) PROVE TimerInv'
  BY <1>2 DEF LoopExit, IterationOver, Goto, Registered
<1>3. ASSUME NEW w \in Workers, EpollWait(w) PROVE TimerInv'
  BY <1>3 DEF EpollWait, Goto, Registered
<1>4. ASSUME NEW w \in Workers, StartAccept(w) PROVE TimerInv'
  BY <1>4 DEF StartAccept, Goto
<1>5. ASSUME NEW w \in Workers, AcceptAborted(w) PROVE TimerInv'
  BY <1>5 DEF AcceptAborted
<1>6. ASSUME NEW w \in Workers, AcceptRetry(w) PROVE TimerInv'
  BY <1>6 DEF AcceptRetry
<1>7. ASSUME NEW w \in Workers, AcceptDrained(w) PROVE TimerInv'
  BY <1>7 DEF AcceptDrained, Goto
<1>8. ASSUME NEW w \in Workers, NEW s \in Sessions, NEW fd \in Fds, Accept(w, s, fd)
      PROVE  TimerInv'
  BY <1>8 DEF Accept
<1>9. ASSUME NEW w \in Workers, NEW fd \in Fds, NEW c \in BOOLEAN, DispatchHangup(w, fd, c)
      PROVE  TimerInv'
  BY <1>9 DEF DispatchHangup, Release, Close, Closed, SocketClosed
<1>10. ASSUME NEW w \in Workers, NEW fd \in Fds, NEW a \in BOOLEAN, NEW c \in BOOLEAN, DispatchIo(w, fd, a, c)
      PROVE  TimerInv'
  <2>. DEFINE t == sessionTable[w][fd]
  <2>1. t \in live /\ socket[t] = fd /\ Home[t] = w
    BY <1>10, DispatchTarget DEF DispatchIo
  <2>2. a => ttl'[t] > 0
    BY <1>10, <2>1 DEF DispatchIo, Refreshed
  <2>3. \A s \in Sessions \ {t} : ttl'[s] = ttl[s] /\ age'[s] = age[s] /\ socket'[s] = socket[s]
    BY <1>10 DEF DispatchIo, Close, SocketClosed
  <2>4. age'[t] < 2 => ttl'[t] > 0
    BY <1>10, <2>1 DEF DispatchIo, Refreshed
  <2>5. socket'[t] = NoFd => a
    BY <1>10, <2>1 DEF DispatchIo, IoReport
  <2>. QED
    <3>1. \A s \in Sessions : age'[s] < 2 => ttl'[s] > 0
      BY <2>3, <2>4
    <3>2. \A s \in Sessions \ live : ttl'[s] = 0
      BY <2>1, <2>3
    <3>3. \A s \in live : socket'[s] = NoFd => ttl'[s] > 0
      BY <2>2, <2>3, <2>5
    <3>. QED
      BY <1>10, <3>1, <3>2, <3>3 DEF DispatchIo
<1>11. ASSUME NEW w \in Workers, ExpireTick(w) PROVE TimerInv'
  BY <1>11 DEF ExpireTick, Release, Close, Closed, SocketClosed, Expired
<1>12. ASSUME NEW w \in Workers, Connect(w) PROVE TimerInv'
  BY <1>12 DEF Connect
<1>13. ASSUME NEW fd \in Fds, Signal(fd) PROVE TimerInv'
  BY <1>13 DEF Signal
<1>14. CASE ClockTick
  BY <1>14 DEF ClockTick
<1>15. CASE Stop
  BY <1>15 DEF Stop
<1>16. CASE Finished
  BY <1>16 DEF Finished
<1>17. CASE UNCHANGED vars
  BY <1>17
<1>. QED
  BY <1>1, <1>2, <1>3, <1>4, <1>5, <1>6, <1>7, <1>8, <1>9, <1>10, <1>11, <1>12,
     <1>13, <1>14, <1>15, <1>16, <1>17 DEF Next, Environment, WorkerStep

(* The listener's edge is consumed only on the way to an empty queue.      *)
LEMMA StrandedStep == Inv /\ [Next]_vars => NoStranded'
<1>. SUFFICES ASSUME Inv, [Next]_vars
             PROVE  NoStranded'
  OBVIOUS
<1>. USE WorkerAssumption DEF Inv, TypeOK, NoStranded, Pool, Registered, vars,
        loopVars, kernelVars, sessionVars, timerVars
<1>1. ASSUME NEW w \in Workers, LoopTop(w) PROVE NoStranded'
  BY <1>1 DEF LoopTop, IterationOver, Goto
<1>2. ASSUME NEW w \in Workers, LoopExit(w) PROVE NoStranded'
  BY <1>2 DEF LoopExit, IterationOver, Goto
<1>3. ASSUME NEW w \in Workers, EpollWait(w) PROVE NoStranded'
  <2>1. CASE w \in ready
    BY <1>3, <2>1 DEF EpollWait, Goto
  <2>2. CASE w \notin ready
    <3>1. ready' \cap Workers = ready \cap Workers
      BY <1>3, <2>2 DEF EpollWait
    <3>2. batch[w] = {} /\ \A v \in Workers \ {w} : batch'[v] = batch[v] /\ pc'[v] = pc[v]
      BY <1>3 DEF EpollWait, Goto, BatchInv
    <3>. QED
      BY <1>3, <2>2, <3>1, <3>2 DEF EpollWait
  <2>. QED
    BY <2>1, <2>2
<1>4. ASSUME NEW w \in Workers, StartAccept(w) PROVE NoStranded'
  BY <1>4 DEF StartAccept, Goto
<1>5. ASSUME NEW w \in Workers, AcceptAborted(w) PROVE NoStranded'
  BY <1>5 DEF AcceptAborted
<1>6. ASSUME NEW w \in Workers, AcceptRetry(w) PROVE NoStranded'
  BY <1>6 DEF AcceptRetry
<1>7. ASSUME NEW w \in Workers, AcceptDrained(w) PROVE NoStranded'
  BY <1>7 DEF AcceptDrained, Goto
<1>8. ASSUME NEW w \in Workers, NEW s \in Sessions, NEW fd \in Fds, Accept(w, s, fd)
      PROVE  NoStranded'
  BY <1>8 DEF Accept
<1>9. ASSUME NEW w \in Workers, NEW fd \in Fds, NEW c \in BOOLEAN, DispatchHangup(w, fd, c)
      PROVE  NoStranded'
  BY <1>9 DEF DispatchHangup, Release, Close, Closed, SocketClosed
<1>10. ASSUME NEW w \in Workers, NEW fd \in Fds, NEW a \in BOOLEAN, NEW c \in BOOLEAN, DispatchIo(w, fd, a, c)
      PROVE  NoStranded'
  BY <1>10 DEF DispatchIo, Close, Closed, SocketClosed, Refreshed, IoReport
<1>11. ASSUME NEW w \in Workers, ExpireTick(w) PROVE NoStranded'
  BY <1>11 DEF ExpireTick, Release, Close, Closed, SocketClosed, Expired
<1>12. ASSUME NEW w \in Workers, Connect(w) PROVE NoStranded'
  BY <1>12 DEF Connect
<1>13. ASSUME NEW fd \in Fds, Signal(fd) PROVE NoStranded'
  BY <1>13 DEF Signal
<1>14. CASE ClockTick
  BY <1>14 DEF ClockTick
<1>15. CASE Stop
  BY <1>15 DEF Stop
<1>16. CASE Finished
  BY <1>16 DEF Finished
<1>17. CASE UNCHANGED vars
  BY <1>17
<1>. QED
  BY <1>1, <1>2, <1>3, <1>4, <1>5, <1>6, <1>7, <1>8, <1>9, <1>10, <1>11, <1>12,
     <1>13, <1>14, <1>15, <1>16, <1>17 DEF Next, Environment, WorkerStep

(* Time passes for the wheel and for the session alike.                    *)
LEMMA LeaseStep == Inv /\ FullLease /\ [Next]_vars => FullLease'
<1>. SUFFICES ASSUME Inv /\ FullLease, [Next]_vars
             PROVE  FullLease'
  OBVIOUS
<1>. USE WorkerAssumption DEF Inv, TypeOK, TimerInv, FullLease, Pool, vars,
        loopVars, kernelVars, sessionVars, timerVars
<1>1. ASSUME NEW w \in Workers, LoopTop(w) PROVE FullLease'
  <2>1. loopDue[w] = 0 /\ due[w] \in Nat
    BY <1>1 DEF LoopTop, IterationOver
  <2>2. \A s \in Sessions : Home[s] = w /\ age'[s] < 2 => age'[s] = age[s] + due[w]
    BY <1>1, <2>1 DEF LoopTop
  <2>3. \A s \in Sessions : Home[s] # w => age'[s] = age[s] /\ loopDue'[Home[s]] = loopDue[Home[s]]
    BY <1>1 DEF LoopTop
  <2>4. loopDue'[w] = due[w] /\ ttl' = ttl
    BY <1>1 DEF LoopTop
  <2>5. \A s \in Sessions : /\ ttl[s] \in Nat /\ age[s] \in Nat /\ age'[s] \in Nat
                            /\ loopDue[Home[s]] \in Nat
    <3>1. age' \in [Sessions -> 0 .. 2]
      BY TypeStep
    <3>2. \A s \in Sessions : age'[s] \in Nat
      BY <3>1, SMTT(30)
    <3>3. \A s \in Sessions : ttl[s] \in 0 .. WheelSlots /\ age[s] \in 0 .. 2
      OBVIOUS
    <3>4. \A s \in Sessions : loopDue[Home[s]] \in Nat
      OBVIOUS
    <3>. QED
      BY <3>2, <3>3, <3>4
  <2>6. ASSUME NEW s \in Sessions, age'[s] < 2, Home[s] = w
        PROVE  ttl'[s] + age'[s] + MaxLag >= WheelSlots + loopDue'[Home[s]]
    <3>1. age'[s] = age[s] + due[w] /\ age[s] < 2
      BY <2>1, <2>2, <2>5, <2>6
    <3>2. ttl[s] + age[s] + MaxLag >= WheelSlots
      BY <2>1, <2>5, <2>6, <3>1
    <3>. QED
      BY <2>1, <2>4, <2>5, <2>6, <3>1, <3>2
  <2>. QED
    BY <2>3, <2>4, <2>6
<1>2. ASSUME NEW w \in Workers, LoopExit(w) PROVE FullLease'
  BY <1>2 DEF LoopExit, IterationOver, Goto, Registered
<1>3. ASSUME NEW w \in Workers, EpollWait(w) PROVE FullLease'
  BY <1>3 DEF EpollWait, Goto, Registered
<1>4. ASSUME NEW w \in Workers, StartAccept(w) PROVE FullLease'
  BY <1>4 DEF StartAccept, Goto
<1>5. ASSUME NEW w \in Workers, AcceptAborted(w) PROVE FullLease'
  BY <1>5 DEF AcceptAborted
<1>6. ASSUME NEW w \in Workers, AcceptRetry(w) PROVE FullLease'
  BY <1>6 DEF AcceptRetry
<1>7. ASSUME NEW w \in Workers, AcceptDrained(w) PROVE FullLease'
  BY <1>7 DEF AcceptDrained, Goto
<1>8. ASSUME NEW w \in Workers, NEW s \in Sessions, NEW fd \in Fds, Accept(w, s, fd)
      PROVE  FullLease'
  BY <1>8 DEF Accept
<1>9. ASSUME NEW w \in Workers, NEW fd \in Fds, NEW c \in BOOLEAN, DispatchHangup(w, fd, c)
      PROVE  FullLease'
  BY <1>9 DEF DispatchHangup, Release, Close, Closed, SocketClosed
<1>10. ASSUME NEW w \in Workers, NEW fd \in Fds, NEW a \in BOOLEAN, NEW c \in BOOLEAN, DispatchIo(w, fd, a, c)
      PROVE  FullLease'
  <2>. DEFINE t == sessionTable[w][fd]
  <2>1. UNCHANGED loopDue
    BY <1>10 DEF DispatchIo
  <2>2. \/ ttl' = [ttl EXCEPT ![t] = WheelSlots] /\ age' = [age EXCEPT ![t] = 0]
        \/ UNCHANGED <<ttl, age>>
    BY <1>10 DEF DispatchIo, Refreshed
  <2>3. \A s \in Sessions : loopDue[Home[s]] \in Nat /\ loopDue[Home[s]] <= MaxLag
    OBVIOUS
  <2>4. ttl \in [Sessions -> Nat] /\ age \in [Sessions -> Nat]
    <3>1. ttl \in [Sessions -> 0 .. WheelSlots] /\ 0 .. WheelSlots \subseteq Nat
      OBVIOUS
    <3>2. age \in [Sessions -> 0 .. 2] /\ 0 .. 2 \subseteq Nat
      OBVIOUS
    <3>. QED
      BY <3>1, <3>2
  <2>. HIDE DEF t, Inv, TypeOK, TimerInv
  <2>5. CASE UNCHANGED <<ttl, age>>
    BY <2>1, <2>5
  <2>6. CASE ttl' = [ttl EXCEPT ![t] = WheelSlots] /\ age' = [age EXCEPT ![t] = 0]
    BY <2>1, <2>3, <2>4, <2>6
  <2>. QED
    BY <2>2, <2>5, <2>6
<1>11. ASSUME NEW w \in Workers, ExpireTick(w) PROVE FullLease'
  <2>1. \A s \in Sessions : age'[s] < 2 => age'[s] = age[s]
    BY <1>11 DEF ExpireTick, Release
  <2>2. \A s \in Sessions : Home[s] = w =>
          /\ loopDue'[Home[s]] = loopDue[Home[s]] - 1
          /\ ttl[s] > 0 => ttl'[s] = ttl[s] - 1
    BY <1>11 DEF ExpireTick
  <2>3. \A s \in Sessions : Home[s] # w =>
          loopDue'[Home[s]] = loopDue[Home[s]] /\ ttl'[s] = ttl[s]
    BY <1>11 DEF ExpireTick
  <2>. QED
    BY <2>1, <2>2, <2>3, SMTT(30)
<1>12. ASSUME NEW w \in Workers, Connect(w) PROVE FullLease'
  BY <1>12 DEF Connect
<1>13. ASSUME NEW fd \in Fds, Signal(fd) PROVE FullLease'
  BY <1>13 DEF Signal
<1>14. CASE ClockTick
  BY <1>14 DEF ClockTick
<1>15. CASE Stop
  BY <1>15 DEF Stop
<1>16. CASE Finished
  BY <1>16 DEF Finished
<1>17. CASE UNCHANGED vars
  BY <1>17
<1>. QED
  BY <1>1, <1>2, <1>3, <1>4, <1>5, <1>6, <1>7, <1>8, <1>9, <1>10, <1>11, <1>12,
     <1>13, <1>14, <1>15, <1>16, <1>17 DEF Next, Environment, WorkerStep

(* The invariant holds at the start: there are no connections.             *)
LEMMA InitInv == Init => Inv /\ FullLease
BY WorkerAssumption DEF Init, Inv, TypeOK, FdInv, FdOwnership, BatchInv, TimerInv,
   ClosedOnWheel, NoStranded, FullLease, Registered, Pool

(* Every step of the specification keeps the invariant.                    *)
LEMMA Invariance == Spec => [](Inv /\ FullLease)
<1>1. Inv /\ FullLease /\ [Next]_vars => Inv' /\ FullLease'
  BY TypeStep, FdStep, BatchStep, TimerStep, StrandedStep, LeaseStep DEF Inv
<1>. QED
  BY InitInv, <1>1, PTL DEF Spec

-----------------------------------------------------------------------------
(***************************************************************************)
(* The theorems.                                                           *)
(***************************************************************************)

(* The worker's state keeps its types: no timer outlives a turn of the     *)
(* wheel and the loop's lag stays within its bound.                        *)
THEOREM TypeCorrect == Spec => []TypeOK
<1>1. Inv => TypeOK
  BY DEF Inv
<1>. QED
  BY Invariance, <1>1, PTL

(* However the workers interleave over the shared descriptors, each open   *)
(* one is held by exactly one live session: no leak, no double close.      *)
THEOREM Ownership == Spec => []FdOwnership
<1>1. Inv => FdOwnership
  BY DEF Inv, FdInv
<1>. QED
  BY Invariance, <1>1, PTL

(* The unchecked lookup of sessionTable[fd] always finds a live session.   *)
THEOREM SafeDispatch == Spec => []DispatchSafe
<1>1. Inv => DispatchSafe
  BY DispatchTarget DEF DispatchSafe
<1>. QED
  BY Invariance, <1>1, PTL

(* A session that closed its socket can still be reclaimed by the wheel.   *)
THEOREM Reclaimable == Spec => []ClosedOnWheel
<1>1. Inv => ClosedOnWheel
  BY DEF Inv, TimerInv
<1>. QED
  BY Invariance, <1>1, PTL

(* Draining accept4 until EAGAIN loses no edge of the listener.            *)
THEOREM NoLostWakeup == Spec => []NoStranded
<1>1. Inv => NoStranded
  BY DEF Inv
<1>. QED
  BY Invariance, <1>1, PTL

(* With a wheel longer than the loop is ever late by two intervals, no     *)
(* recently active session is dropped.                                     *)
THEOREM NoEarlyTimeout ==
    ASSUME WheelSlots > MaxLag + 1
    PROVE  Spec => NoPrematureDrop
<1>1. Inv /\ FullLease /\ [Next]_vars =>
        [\A w \in Workers : ExpireTick(w) =>
           \A s \in live \ live' : socket[s] # NoFd => age[s] = 2]_vars
  <2>. SUFFICES ASSUME Inv, FullLease, NEW w \in Workers, ExpireTick(w),
                       NEW s \in live \ live', age[s] # 2
                PROVE  FALSE
    OBVIOUS
  <2>1. s \in Sessions /\ age[s] \in 0 .. 2 /\ loopDue[w] \in Nat
    BY DEF Inv, TypeOK
  <2>2. s \in Expired(w) /\ loopDue[w] > 0
    BY DEF ExpireTick, Release
  <2>3. Home[s] = w /\ ttl[s] = 1
    BY <2>2 DEF Expired, Pool
  <2>4. ttl[s] + age[s] + MaxLag >= WheelSlots + loopDue[w]
    BY <2>1, <2>3 DEF FullLease
  <2>. QED
    BY <2>1, <2>2, <2>3, <2>4, WorkerAssumption
<1>. QED
  BY Invariance, <1>1, PTL DEF Spec, NoPrematureDrop

-----------------------------------------------------------------------------
(***************************************************************************)
(* Refinement.                                                             *)
(***************************************************************************)

(* One step of the worker is one step of a slot's life, or none.           *)
LEMMA SlotStep == Inv /\ [Next]_vars => [Slots!Next]_<<Phase, socket>>
<1>. SUFFICES ASSUME Inv, [Next]_vars
             PROVE  [Slots!Next]_<<Phase, socket>>
  OBVIOUS
<1>. USE WorkerAssumption DEF Inv, TypeOK, FdInv, FdOwnership, Pool
<1>0. ASSUME UNCHANGED <<live, socket>> PROVE UNCHANGED <<Phase, socket>>
  BY <1>0 DEF Phase
<1>1. ASSUME NEW w \in Workers, NEW s \in Sessions, NEW fd \in Fds, Accept(w, s, fd)
      PROVE  Slots!Open(s, fd)
  <2>1. s \notin live /\ live' = live \cup {s} /\ socket' = [socket EXCEPT ![s] = fd]
    BY <1>1 DEF Accept
  <2>2. \A t \in Sessions : socket[t] # fd
    BY <1>1 DEF Accept
  <2>3. Phase' = [Phase EXCEPT ![s] = "open"]
    BY <2>1 DEF Phase
  <2>. QED
    BY <2>1, <2>2, <2>3 DEF Slots!Open, Phase
<1>2. ASSUME NEW S \in SUBSET live, live' = live \ S, socket' = SocketClosed(S)
      PROVE  Slots!Return(S)
  BY <1>2 DEF Slots!Return, Phase, SocketClosed
<1>3. ASSUME NEW w \in Workers, NEW fd \in Fds, NEW c \in BOOLEAN, DispatchHangup(w, fd, c)
      PROVE  \E S \in SUBSET Sessions : Slots!Return(S)
  <2>1. sessionTable[w][fd] \in live
    BY <1>3, DispatchTarget DEF DispatchHangup
  <2>. DEFINE S == {sessionTable[w][fd]}
  <2>2. live' = live \ S /\ socket' = SocketClosed(S)
    BY <1>3 DEF DispatchHangup, Release, Close
  <2>3. S \in SUBSET live /\ S \in SUBSET Sessions
    BY <2>1
  <2>. HIDE DEF S
  <2>. QED
    BY <2>2, <2>3, <1>2
<1>4. ASSUME NEW w \in Workers, NEW fd \in Fds, NEW a \in BOOLEAN, NEW c \in BOOLEAN,
             DispatchIo(w, fd, a, c)
      PROVE  UNCHANGED <<live, socket>> \/ \E s \in Sessions : Slots!Shut(s)
  <2>. DEFINE s == sessionTable[w][fd]
  <2>1. s \in live /\ s \in Sessions /\ socket[s] = fd
    BY <1>4, DispatchTarget DEF DispatchIo
  <2>2. CASE ~c
    BY <1>4, <2>2 DEF DispatchIo
  <2>3. CASE c
    <3>1. live' = live /\ socket' = SocketClosed({s})
      BY <1>4, <2>3 DEF DispatchIo, Close
    <3>. HIDE DEF s
    <3>0. socket \in [Sessions -> Fds \cup {NoFd}] /\ NoFd \notin Fds
      OBVIOUS
    <3>. HIDE DEF Inv, TypeOK, FdInv, FdOwnership
    <3>2. socket' = [socket EXCEPT ![s] = NoFd] /\ socket[s] # NoFd
      BY <2>1, <3>0, <3>1 DEF SocketClosed
    <3>3. Phase' = [Phase EXCEPT ![s] = "closed"] /\ Phase[s] = "open"
      BY <2>1, <3>0, <3>1, <3>2 DEF Phase
    <3>4. Slots!Shut(s)
      BY <3>2, <3>3 DEF Slots!Shut
    <3>. QED
      BY <2>1, <3>4
  <2>. QED
    BY <2>2, <2>3
<1>5. ASSUME NEW w \in Workers, ExpireTick(w)
      PROVE  \E S \in SUBSET Sessions : Slots!Return(S)
  <2>1. Expired(w) \subseteq live
    BY DEF Expired, TimerInv
  <2>2. live' = live \ Expired(w) /\ socket' = SocketClosed(Expired(w))
    BY <1>5 DEF ExpireTick, Release, Close
  <2>. QED
    BY <2>1, <2>2, <1>2
<1>6. ASSUME NEW w \in Workers,
             \/ LoopTop(w) \/ LoopExit(w) \/ EpollWait(w) \/ StartAccept(w)
             \/ AcceptAborted(w) \/ AcceptRetry(w) \/ AcceptDrained(w) \/ Connect(w)
      PROVE  UNCHANGED <<live, socket>>
  BY <1>6 DEF LoopTop, LoopExit, EpollWait, StartAccept, AcceptAborted, AcceptRetry,
     AcceptDrained, Connect, vars, sessionVars
<1>7. ASSUME \/ \E fd \in Fds : Signal(fd)
             \/ ClockTick \/ Stop \/ Finished \/ UNCHANGED vars
      PROVE  UNCHANGED <<live, socket>>
  BY <1>7 DEF Signal, ClockTick, Stop, Finished, vars, sessionVars
<1>. QED
  BY <1>0, <1>1, <1>3, <1>4, <1>5, <1>6, <1>7
     DEF Next, Environment, WorkerStep, Slots!Next

(* Every behaviour of the workers is one of SlotLifecycle: slots and       *)
(* descriptors are handed out and taken back in good order, for any number *)
(* of workers that share the descriptors.                                  *)
THEOREM SlotRefinement == Spec => SlotsKept
<1>1. Init => Slots!Init
  BY DEF Init, Slots!Init, Phase
<1>. QED
  BY Invariance, <1>1, SlotStep, PTL DEF Spec, SlotsKept, Slots!Spec, Slots!slotVars
=============================================================================
