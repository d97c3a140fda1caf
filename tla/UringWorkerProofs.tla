-------------------------- MODULE UringWorkerProofs --------------------------
(***************************************************************************)
(* The safety properties of UringWorker for any number of slots and        *)
(* descriptors and any size of the rings.                                  *)
(***************************************************************************)
EXTENDS UringWorker, SequenceLemmas

-----------------------------------------------------------------------------
(***************************************************************************)
(* What the entries of the rings hold.                                     *)
(***************************************************************************)

(* The entries the worker and the kernel make are of the rings' types.     *)
LEMMA EntryTypes ==
    /\ Nop \in Sqes /\ Accept \in Sqes /\ Nop \in Cqes
    /\ AcceptEnd \in Cqes
    /\ \A fd \in Fds, more \in BOOLEAN : [op |-> "accept", fd |-> fd, more |-> more] \in Cqes
    /\ \A s \in Sessions, fd \in Fds \cup {NoFd} :
          [op |-> "recv", s |-> s, fd |-> fd] \in Sqes
    /\ \A s \in Sessions, fd \in Fds \cup {NoFd}, a, b \in 0 .. MaxUnits :
          [op |-> "send", s |-> s, fd |-> fd, from |-> a, to |-> b] \in Sqes
    /\ \A s \in Sessions, ok \in BOOLEAN : [op |-> "recv", s |-> s, ok |-> ok] \in Cqes
    /\ \A s \in Sessions : [op |-> "notif", s |-> s] \in Cqes
    /\ \A s \in Sessions, ok, more \in BOOLEAN, n \in 0 .. MaxUnits :
          [op |-> "send", s |-> s, ok |-> ok, n |-> n, more |-> more] \in Cqes
  BY DEF Sqes, Cqes, Nop, Accept, AcceptEnd

(* What an entry of each kind has.                                         *)
LEMMA EntryFields ==
    /\ \A e \in Sqes :
        /\ e.op \in {"nop", "accept", "recv", "send"}
        /\ e.op = "nop" => e = Nop
        /\ e.op = "accept" => e = Accept
        /\ e.op \in {"recv", "send"} => e.s \in Sessions /\ e.fd \in Fds \cup {NoFd}
        /\ e.op = "send" => e.from \in 0 .. MaxUnits /\ e.to \in 0 .. MaxUnits
    /\ \A c \in Cqes :
        /\ c.op \in {"recv", "send", "notif", "nop", "accept", "acceptEnd"}
        /\ c.op \in {"recv", "send", "notif"} => c.s \in Sessions
        /\ c.op = "accept" => /\ c.fd \in Fds /\ c.more \in BOOLEAN
                             /\ c = [op |-> "accept", fd |-> c.fd, more |-> c.more]
        /\ c.op = "acceptEnd" => c = AcceptEnd
        /\ c.op = "send" => c.n \in 0 .. MaxUnits /\ c.more \in BOOLEAN
  BY DEF Sqes, Cqes, Nop, Accept, AcceptEnd

-----------------------------------------------------------------------------
(***************************************************************************)
(* Types.                                                                  *)
(***************************************************************************)

BufferTypes ==
    /\ keepAlive \in [Sessions -> BOOLEAN]
    /\ head \in [Sessions -> 0 .. MaxUnits]
    /\ tail \in [Sessions -> 0 .. MaxUnits]
    /\ locked \in [Sessions -> 0 .. MaxUnits]
    /\ wired \in [Sessions -> 0 .. Garbled]

SlotTypes ==
    /\ status \in [Sessions -> {"Free", "Active", "Closing"}]
    /\ io \in [Sessions -> SUBSET IoFlags]
    /\ socket \in [Sessions -> Fds \cup {NoFd}]
    /\ owner \in [Fds -> Sessions \cup {NoSession, Unclaimed}]
    /\ linked \in SUBSET Sessions
    /\ pc \in {"loop", "done"} \cup NullPointers

RingTypes ==
    /\ prep \in Seq(Sqes) /\ sq \in Seq(Sqes) /\ Len(prep) + Len(sq) <= SqSize
    /\ cq \in Seq(Cqes) /\ Len(cq) <= CqSize

SendQueue == Seq([from : 0 .. MaxUnits, to : 0 .. MaxUnits])

KernelTypes ==
    /\ armed \in BOOLEAN
    /\ recvs \in [Sessions -> Nat]
    /\ notifs \in [Sessions -> Nat]
    /\ sends \in [Sessions -> SendQueue]

(* TypeOK, in the parts that the actions change.                           *)
LEMMA TypeParts == TypeOK <=> BufferTypes /\ SlotTypes /\ RingTypes /\ KernelTypes
  BY DEF TypeOK, BufferTypes, SlotTypes, RingTypes, KernelTypes, SendQueue

(* Sizes are naturals.                                                     *)
LEMMA Sizes ==
    /\ SqSize \in Nat /\ SqSize > 0 /\ CqSize \in Nat
    /\ MaxUnits \in Nat /\ MaxUnits > 0 /\ Garbled = MaxUnits + 1
  BY UringAssumption DEF Garbled

(* A descriptor is never NoFd, a slot never a mark.                        *)
LEMMA Marks ==
    /\ NoFd \notin Fds
    /\ NoSession \notin Sessions /\ Unclaimed \notin Sessions /\ NoSession # Unclaimed
  BY UringAssumption

(* No step leaves the buffers' types.                                      *)
LEMMA BufferStep == TypeOK /\ [Next]_vars => BufferTypes'
<1>. SUFFICES ASSUME TypeOK, [Next]_vars PROVE BufferTypes'
  OBVIOUS
<1>0. BufferTypes /\ KernelTypes /\ RingTypes
  BY TypeParts
<1>1. ASSUME UNCHANGED bufferVars PROVE BufferTypes'
  BY <1>0, <1>1 DEF BufferTypes, bufferVars
<1>2. ASSUME FlushFull \/ HandleAcceptEnd \/ HandleNop \/ Submit \/ LoopExit
             \/ TakeSqe \/ AcceptFails \/ UNCHANGED vars
      PROVE  BufferTypes'
  BY <1>1, <1>2 DEF FlushFull, HandleAcceptEnd, HandleNop, Submit, LoopExit, TakeSqe,
     AcceptFails, vars, workerVars
<1>3. ASSUME NEW fd \in Fds, NEW more \in BOOLEAN, AcceptDone(fd, more) PROVE BufferTypes'
  BY <1>1, <1>3 DEF AcceptDone, workerVars
<1>4. ASSUME NEW s \in Sessions, Notify(s) \/ \E ok \in BOOLEAN : RecvDone(s, ok)
      PROVE  BufferTypes'
  BY <1>1, <1>4 DEF Notify, RecvDone, workerVars
<1>5. ASSUME NEW s \in Sessions, Free(s) PROVE BufferTypes'
  BY <1>0, <1>5, Sizes DEF Free, BufferTypes
<1>6. ASSUME NEW s \in Sessions, HandleAccept(s) PROVE BufferTypes'
  BY <1>1, <1>6 DEF HandleAccept
<1>7. ASSUME NEW s \in Sessions, HandleInactive(s) \/ Expire(s) PROVE BufferTypes'
  BY <1>1, <1>5, <1>7 DEF HandleInactive, Expire
<1>8. ASSUME NEW s \in Sessions, HandleReadEnd(s) PROVE BufferTypes'
  BY <1>0, <1>8 DEF HandleReadEnd, BufferTypes
<1>9. ASSUME NEW s \in Sessions, HandleSendResult(s) PROVE BufferTypes'
  <2>1. Head(cq) \in Cqes /\ Head(cq).op = "send"
    BY <1>0, <1>9 DEF HandleSendResult, Handling, RingTypes
  <2>2. Head(cq).n \in 0 .. MaxUnits
    BY <2>1, EntryFields
  <2>. QED
    BY <1>0, <1>9, <2>2 DEF HandleSendResult, BufferTypes
<1>10. ASSUME NEW s \in Sessions, HandleNotif(s) PROVE BufferTypes'
  <2>1. head[s] \in 0 .. MaxUnits /\ tail[s] \in 0 .. MaxUnits /\ locked[s] \in 0 .. MaxUnits
    BY <1>0 DEF BufferTypes
  <2>2. (IF head[s] + locked[s] > tail[s] THEN tail[s] ELSE head[s] + locked[s])
          \in 0 .. MaxUnits
    BY <2>1, Sizes
  <2>. QED
    BY <1>0, <1>10, <2>2, Sizes DEF HandleNotif, BufferTypes
<1>11. ASSUME NEW s \in Sessions, NEW units \in 0 .. MaxUnits,
              NEW closing \in BOOLEAN, NEW full \in BOOLEAN,
              HandleReadData(s, units, closing, full)
       PROVE  BufferTypes'
  <2>1. tail[s] \in 0 .. MaxUnits /\ tail[s] + units <= MaxUnits
    BY <1>0, <1>11 DEF HandleReadData, BufferTypes
  <2>2. tail[s] + units \in 0 .. MaxUnits
    BY <2>1, Sizes
  <2>. QED
    BY <1>0, <1>11, <2>2 DEF HandleReadData, BufferTypes
<1>12. ASSUME NEW s \in Sessions, NEW n \in 0 .. MaxUnits, SendDone(s, n) PROVE BufferTypes'
  <2>. DEFINE e == Head(sends[s])
  <2>0. sends[s] # <<>> /\ sends[s] \in Seq([from : 0 .. MaxUnits, to : 0 .. MaxUnits])
    BY <1>0, <1>12 DEF SendDone, KernelTypes, SendQueue
  <2>1. e.from \in 0 .. MaxUnits /\ e.to \in 0 .. MaxUnits /\ n <= e.to - e.from
    <3>1. e \in [from : 0 .. MaxUnits, to : 0 .. MaxUnits]
      BY <2>0, HeadIn
    <3>. QED
      BY <1>12, <3>1 DEF SendDone
  <2>2. wired' = [wired EXCEPT ![s] = wired'[s]]
        /\ wired'[s] \in {wired[s], Garbled} \cup
             (IF e.from = wired[s] THEN {wired[s] + n} ELSE {})
    BY <1>0, <1>12 DEF SendDone, BufferTypes
  <2>3. wired'[s] \in 0 .. Garbled
    BY <1>0, <2>1, <2>2, Sizes DEF BufferTypes
  <2>. QED
    BY <1>0, <1>12, <2>2, <2>3 DEF SendDone, BufferTypes
<1>. QED
  BY <1>2, <1>3, <1>4, <1>6, <1>7, <1>8, <1>9, <1>10, <1>11, <1>12 DEF Next, Handle, Kernel

(* No step leaves the types of what a slot and a descriptor have.          *)
LEMMA SlotStepTypes == TypeOK /\ [Next]_vars => SlotTypes'
<1>. SUFFICES ASSUME TypeOK, [Next]_vars PROVE SlotTypes'
  OBVIOUS
<1>0. SlotTypes /\ RingTypes
  BY TypeParts
<1>. DEFINE slots == <<status, io, socket, owner, linked, pc>>
<1>1. ASSUME UNCHANGED slots PROVE SlotTypes'
  BY <1>0, <1>1 DEF SlotTypes
<1>2. ASSUME NEW s \in Sessions, Close(s)
      PROVE  /\ socket' \in [Sessions -> Fds \cup {NoFd}]
             /\ owner' \in [Fds -> Sessions \cup {NoSession, Unclaimed}]
  BY <1>0, <1>2 DEF Close, SlotTypes
<1>3. ASSUME FlushFull \/ Submit \/ TakeSqe \/ AcceptFails \/ UNCHANGED vars
      PROVE  SlotTypes'
  BY <1>1, <1>3 DEF FlushFull, Submit, TakeSqe, AcceptFails, vars, workerVars
<1>4. ASSUME HandleAcceptEnd \/ HandleNop \/ LoopExit PROVE SlotTypes'
  BY <1>0, <1>4 DEF HandleAcceptEnd, HandleNop, LoopExit, NullPointers, SlotTypes
<1>5. ASSUME NEW fd \in Fds, NEW more \in BOOLEAN, AcceptDone(fd, more) PROVE SlotTypes'
  BY <1>0, <1>5 DEF AcceptDone, workerVars, SlotTypes
<1>6. ASSUME NEW s \in Sessions, \/ Notify(s)
                                 \/ \E ok \in BOOLEAN : RecvDone(s, ok)
                                 \/ \E n \in 0 .. MaxUnits : SendDone(s, n)
      PROVE  SlotTypes'
  BY <1>1, <1>6 DEF Notify, RecvDone, SendDone, workerVars
<1>7. ASSUME NEW s \in Sessions, HandleAccept(s) PROVE SlotTypes'
  <2>1. Head(cq) \in Cqes /\ Head(cq).op = "accept"
    BY <1>0, <1>7, HeadIn DEF HandleAccept, RingTypes
  <2>2. Head(cq).fd \in Fds
    BY <2>1, EntryFields
  <2>3. CASE Room(0) /\ status' = [status EXCEPT ![s] = "Active"]
    <3>1. /\ socket' = [socket EXCEPT ![s] = Head(cq).fd]
          /\ owner' = [owner EXCEPT ![Head(cq).fd] = s]
          /\ linked' = linked \cup {s} /\ pc' = pc
          /\ io' = [io EXCEPT ![s] = {"READING"}]
      BY <1>0, <1>7, <2>3 DEF HandleAccept, Timed
    <3>. QED
      BY <1>0, <2>2, <2>3, <3>1 DEF SlotTypes, IoFlags
  <2>4. CASE /\ owner' = [owner EXCEPT ![Head(cq).fd] = NoSession]
             /\ UNCHANGED <<status, socket, linked, io, pc>>
    BY <1>0, <2>2, <2>4 DEF SlotTypes
  <2>. QED
    BY <1>7, <2>3, <2>4 DEF HandleAccept
<1>8. ASSUME NEW s \in Sessions, HandleInactive(s) PROVE SlotTypes'
  <2>1. CASE Free(s)
    BY <1>0, <1>2, <1>8, <2>1 DEF HandleInactive, Free, SlotTypes
  <2>2. CASE UNCHANGED <<status, socket, bufferVars, linked, owner>>
    BY <1>1, <1>8, <2>2 DEF HandleInactive
  <2>. QED
    BY <1>8, <2>1, <2>2 DEF HandleInactive
<1>9. ASSUME NEW s \in Sessions, Expire(s) PROVE SlotTypes'
  <2>1. CASE Free(s)
    BY <1>0, <1>2, <1>9, <2>1 DEF Expire, Free, SlotTypes
  <2>2. CASE Close(s) /\ SetClosing(s) /\ linked' = linked \ {s}
    BY <1>0, <1>2, <1>9, <2>2 DEF Expire, SetClosing, SlotTypes
  <2>. QED
    BY <1>9, <2>1, <2>2 DEF Expire
<1>10. ASSUME NEW s \in Sessions, HandleReadEnd(s) PROVE SlotTypes'
  BY <1>0, <1>2, <1>10 DEF HandleReadEnd, SetClosing, KeepOpen, SlotTypes
<1>11. ASSUME NEW s \in Sessions, HandleSendResult(s) PROVE SlotTypes'
  <2>1. io' \in [Sessions -> SUBSET IoFlags]
    BY <1>0, <1>11 DEF HandleSendResult, ResultFlags, SlotTypes, IoFlags
  <2>2. \/ Close(s) /\ SetClosing(s)
        \/ KeepOpen /\ UNCHANGED status
    BY <1>11 DEF HandleSendResult
  <2>3. linked' = linked /\ pc' = pc
    BY <1>11 DEF HandleSendResult
  <2>. QED
    BY <1>0, <1>2, <2>1, <2>2, <2>3 DEF SetClosing, KeepOpen, SlotTypes
<1>12. ASSUME NEW s \in Sessions, HandleNotif(s) PROVE SlotTypes'
  <2>1. io' \in [Sessions -> SUBSET IoFlags]
    BY <1>0, <1>12 DEF HandleNotif, SlotTypes, IoFlags
  <2>2. \/ Close(s) /\ SetClosing(s)
        \/ KeepOpen /\ UNCHANGED status
    BY <1>12 DEF HandleNotif
  <2>3. linked' = linked /\ pc' = pc
    BY <1>12 DEF HandleNotif
  <2>. QED
    BY <1>0, <1>2, <2>1, <2>2, <2>3 DEF SetClosing, KeepOpen, SlotTypes
<1>13. ASSUME NEW s \in Sessions, NEW units \in 0 .. MaxUnits,
              NEW closing \in BOOLEAN, NEW full \in BOOLEAN,
              HandleReadData(s, units, closing, full)
       PROVE  SlotTypes'
  <2>1. io' \in [Sessions -> SUBSET IoFlags]
    <3>1. \E f \in SUBSET IoFlags : io' = [io EXCEPT ![s] = f]
      <4>1. \E flag \in {{}, {"READING"}}, w \in {{}, {"WRITING"}} :
              io' = [io EXCEPT ![s] = (@ \ {"READING"}) \cup flag \cup w]
        BY <1>13 DEF HandleReadData, ReadFlag
      <4>. QED
        BY <1>0, <4>1 DEF SlotTypes, IoFlags
    <3>. QED
      BY <1>0, <3>1 DEF SlotTypes
  <2>2. \/ Close(s)
        \/ KeepOpen
    BY <1>13 DEF HandleReadData
  <2>3. status' = status \/ SetClosing(s)
    BY <1>13 DEF HandleReadData
  <2>4. linked' = linked /\ pc' = pc
    BY <1>13 DEF HandleReadData
  <2>. QED
    BY <1>0, <1>2, <2>1, <2>2, <2>3, <2>4 DEF SetClosing, KeepOpen, SlotTypes
<1>. QED
  BY <1>3, <1>4, <1>5, <1>6, <1>7, <1>8, <1>9, <1>10, <1>11, <1>12, <1>13
     DEF Next, Handle, Kernel

(* What a read of data prepares: a send, then a recv or a NOP, each if the *)
(* ring has room for it.                                                   *)
LEMMA ReadDataPrepares ==
    ASSUME TypeOK, NEW s \in Sessions, NEW units \in 0 .. MaxUnits,
           NEW closing \in BOOLEAN, NEW full \in BOOLEAN,
           HandleReadData(s, units, closing, full)
    PROVE  \E write, read \in Seq(Sqes) :
              /\ \/ write = <<>>
                 \/ /\ Room(0)
                    /\ \E a, b \in 0 .. MaxUnits : write = <<Send(s, a, b)>>
              /\ \/ read = <<>>
                 \/ /\ Room(Len(write))
                    /\ read \in {<<Nop>>, <<Recv(s)>>}
              /\ prep' = (prep \o write) \o read
              /\ io' = [io EXCEPT ![s] = (@ \ {"READING"}) \cup ReadFlag(read)
                                         \cup (IF write # <<>> THEN {"WRITING"} ELSE {})]
              /\ IF read = <<Nop>> THEN Close(s) ELSE KeepOpen
<1>1. BufferTypes /\ SlotTypes
  BY TypeParts
<1>. DEFINE end == tail[s] + units
            write == IF end > head[s] /\ "WRITING" \notin io[s] /\ Room(0)
                     THEN <<Send(s, head[s], end)>> ELSE <<>>
            read == IF closing \/ ~Room(Len(write)) THEN <<>>
                    ELSE IF full THEN <<Nop>> ELSE <<Recv(s)>>
<1>2. head[s] \in 0 .. MaxUnits /\ end \in 0 .. MaxUnits
  <2>1. head[s] \in 0 .. MaxUnits /\ tail[s] \in 0 .. MaxUnits /\ end <= MaxUnits
    BY <1>1 DEF HandleReadData, BufferTypes
  <2>. QED
    BY <2>1, Sizes
<1>3. Send(s, head[s], end) \in Sqes /\ Recv(s) \in Sqes /\ Nop \in Sqes
  BY <1>1, <1>2, EntryTypes DEF Send, Recv, SlotTypes
<1>4. write \in Seq(Sqes) /\ read \in Seq(Sqes)
  BY <1>3
<1>5. /\ prep' = (prep \o write) \o read
      /\ io' = [io EXCEPT ![s] = (@ \ {"READING"}) \cup ReadFlag(read)
                                 \cup (IF write # <<>> THEN {"WRITING"} ELSE {})]
      /\ IF read = <<Nop>> THEN Close(s) ELSE KeepOpen
  BY DEF HandleReadData
<1>6. \/ write = <<>>
      \/ /\ Room(0)
         /\ \E a, b \in 0 .. MaxUnits : write = <<Send(s, a, b)>>
  BY <1>2
<1>7. \/ read = <<>>
      \/ /\ Room(Len(write))
         /\ read \in {<<Nop>>, <<Recv(s)>>}
  OBVIOUS
<1>. HIDE DEF write, read
<1>. QED
  BY <1>4, <1>5, <1>6, <1>7

(* What the kernel posts for a session, by the kind of step.               *)
LEMMA KernelPosts ==
    ASSUME TypeOK
    PROVE  /\ TakeSqe => \/ UNCHANGED cq
                         \/ \E c \in Cqes : /\ Post(c) /\ c.op \in {"nop", "recv", "send"}
                                            /\ c.op = "send" => ~c.more
           /\ AcceptFails => Post(AcceptEnd) /\ AcceptEnd \in Cqes /\ AcceptEnd.op = "acceptEnd"
           /\ \A s \in Sessions :
                /\ Notify(s) => \E c \in Cqes : Post(c) /\ c = [op |-> "notif", s |-> s]
                /\ \A ok \in BOOLEAN : RecvDone(s, ok) =>
                      \E c \in Cqes : Post(c) /\ c = [op |-> "recv", s |-> s, ok |-> ok]
                /\ \A n \in 0 .. MaxUnits : SendDone(s, n) =>
                      \E c \in Cqes :
                        /\ Post(c)
                        /\ c = [op |-> "send", s |-> s, ok |-> n > 0, n |-> n, more |-> TRUE]
<1>1. ASSUME TakeSqe
      PROVE  \/ UNCHANGED cq
             \/ \E c \in Cqes : /\ Post(c) /\ c.op \in {"nop", "recv", "send"}
                                /\ c.op = "send" => ~c.more
  <2>1. Head(sq) \in Sqes
    BY <1>1, HeadIn DEF TakeSqe, TypeOK
  <2>2. CASE Head(sq).op = "nop"
    BY <1>1, <2>2, EntryTypes DEF TakeSqe, Nop
  <2>3. CASE Head(sq).op = "accept"
    BY <1>1, <2>3 DEF TakeSqe
  <2>4. CASE Head(sq).op = "recv"
    <3>. DEFINE c == [op |-> "recv", s |-> Head(sq).s, ok |-> FALSE]
    <3>1. c \in Cqes
      BY <2>1, <2>4, EntryTypes, EntryFields
    <3>2. Post(c) \/ UNCHANGED cq
      BY <1>1, <2>4 DEF TakeSqe
    <3>. QED
      BY <3>1, <3>2
  <2>5. CASE Head(sq).op = "send"
    <3>. DEFINE c == [op |-> "send", s |-> Head(sq).s, ok |-> FALSE, n |-> 0, more |-> FALSE]
    <3>0. Head(sq).s \in Sessions /\ 0 \in 0 .. MaxUnits
      BY <2>1, <2>5, EntryFields, Sizes
    <3>1. c \in Cqes
      BY <3>0, EntryTypes
    <3>2. Post(c) \/ UNCHANGED cq
      BY <1>1, <2>5 DEF TakeSqe
    <3>. QED
      BY <3>1, <3>2
  <2>. QED
    BY <2>1, <2>2, <2>3, <2>4, <2>5, EntryFields
<1>2. AcceptFails => Post(AcceptEnd) /\ AcceptEnd \in Cqes /\ AcceptEnd.op = "acceptEnd"
  BY EntryTypes DEF AcceptFails, AcceptEnd
<1>3. ASSUME NEW s \in Sessions
      PROVE  /\ Notify(s) => \E c \in Cqes : Post(c) /\ c = [op |-> "notif", s |-> s]
             /\ \A ok \in BOOLEAN : RecvDone(s, ok) =>
                   \E c \in Cqes : Post(c) /\ c = [op |-> "recv", s |-> s, ok |-> ok]
  BY EntryTypes DEF Notify, RecvDone
<1>4. ASSUME NEW s \in Sessions, NEW n \in 0 .. MaxUnits, SendDone(s, n)
      PROVE  \E c \in Cqes :
               /\ Post(c)
               /\ c = [op |-> "send", s |-> s, ok |-> n > 0, n |-> n, more |-> TRUE]
  <2>. DEFINE c == [op |-> "send", s |-> s, ok |-> n > 0, n |-> n, more |-> TRUE]
  <2>1. (n > 0) \in BOOLEAN
    OBVIOUS
  <2>2. c \in Cqes /\ Post(c)
    BY <1>4, <2>1, EntryTypes DEF SendDone
  <2>. QED
    BY <2>2
<1>. QED
  BY <1>1, <1>2, <1>3, <1>4

(* No ring is filled beyond its size.                                      *)
LEMMA RingStep == TypeOK /\ [Next]_vars => RingTypes'
<1>. SUFFICES ASSUME TypeOK, [Next]_vars PROVE RingTypes'
  OBVIOUS
<1>0. SlotTypes /\ RingTypes /\ BufferTypes
  BY TypeParts
<1>. DEFINE CqTyped == cq \in Seq(Cqes) /\ Len(cq) <= CqSize
            SqTyped == prep \in Seq(Sqes) /\ sq \in Seq(Sqes) /\ Len(prep) + Len(sq) <= SqSize
<1>1. ASSUME NEW op, Handling(op) PROVE CqTyped'
  <2>1. cq \in Seq(Cqes) /\ cq # <<>> /\ Len(cq) <= CqSize /\ cq' = Tail(cq)
    BY <1>0, <1>1 DEF Handling, RingTypes
  <2>. QED
    BY <2>1, HeadIn, Sizes
<1>2. ASSUME NEW c \in Cqes, Post(c) PROVE CqTyped'
  BY <1>0, <1>2, Sizes DEF Post, RingTypes
<1>3. ASSUME UNCHANGED cq PROVE CqTyped'
  BY <1>0, <1>3 DEF RingTypes
<1>4. ASSUME UNCHANGED <<prep, sq>> PROVE SqTyped'
  BY <1>0, <1>4 DEF RingTypes
<1>5. ASSUME NEW e \in Sqes, Room(0), prep' = Append(prep, e), sq' = sq PROVE SqTyped'
  BY <1>0, <1>5, Sizes DEF RingTypes, Room
<1>6. ASSUME prep' = <<>>, sq' = sq \o prep PROVE SqTyped'
  BY <1>0, <1>6, Sizes DEF RingTypes
<1>7. CASE FlushFull \/ Submit
  BY <1>3, <1>6, <1>7 DEF FlushFull, Submit, RingTypes
<1>8. CASE LoopExit
  BY <1>0, <1>8, <1>3, Sizes DEF LoopExit, RingTypes
<1>9. CASE HandleAcceptEnd
  BY <1>1, <1>4, <1>5, <1>9, EntryTypes DEF HandleAcceptEnd, RingTypes
<1>10. CASE HandleNop
  BY <1>1, <1>4, <1>10 DEF HandleNop, RingTypes
<1>11. ASSUME NEW s \in Sessions, \/ HandleInactive(s) \/ HandleReadEnd(s)
                                  \/ HandleSendResult(s)
       PROVE  RingTypes'
  BY <1>1, <1>4, <1>11 DEF HandleInactive, HandleReadEnd, HandleSendResult, RingTypes
<1>12. ASSUME NEW s \in Sessions, HandleAccept(s) PROVE RingTypes'
  <2>1. Head(cq) \in Cqes /\ Head(cq).op = "accept"
    BY <1>0, <1>12, HeadIn DEF HandleAccept, RingTypes
  <2>2. [Recv(s) EXCEPT !.fd = Head(cq).fd] \in Sqes
    BY <2>1, EntryFields, EntryTypes DEF Recv
  <2>3. CqTyped'
    <3>1. /\ cq \in Seq(Cqes) /\ cq # <<>> /\ Len(cq) <= CqSize
          /\ cq' = AcceptsLeft(Head(cq)) \o Tail(cq)
      BY <1>0, <1>12 DEF HandleAccept, RingTypes
    <3>2. Tail(cq) \in Seq(Cqes) /\ Len(Tail(cq)) = Len(cq) - 1
      BY <3>1, HeadIn
    <3>3. AcceptsLeft(Head(cq)) \in Seq(Cqes) /\ Len(AcceptsLeft(Head(cq))) <= 1
      BY EntryTypes DEF AcceptsLeft
    <3>. QED
      BY <3>1, <3>2, <3>3, Sizes
  <2>. QED
    BY <1>4, <1>5, <1>12, <2>2, <2>3 DEF HandleAccept, RingTypes
<1>13. ASSUME NEW s \in Sessions, HandleNotif(s) PROVE RingTypes'
  <2>. DEFINE freed == IF head[s] + locked[s] > tail[s] THEN tail[s] ELSE head[s] + locked[s]
  <2>1. freed \in 0 .. MaxUnits /\ tail[s] \in 0 .. MaxUnits
    <3>1. head[s] \in 0 .. MaxUnits /\ tail[s] \in 0 .. MaxUnits /\ locked[s] \in 0 .. MaxUnits
      BY <1>0 DEF BufferTypes
    <3>. QED
      BY <3>1, Sizes
  <2>2. Send(s, freed, tail[s]) \in Sqes
    BY <1>0, <2>1, EntryTypes DEF Send, SlotTypes
  <2>. QED
    BY <1>1, <1>4, <1>5, <1>13, <2>2 DEF HandleNotif, RingTypes
<1>14. ASSUME NEW s \in Sessions, NEW units \in 0 .. MaxUnits,
              NEW closing \in BOOLEAN, NEW full \in BOOLEAN,
              HandleReadData(s, units, closing, full)
       PROVE  RingTypes'
  <2>1. PICK write, read \in Seq(Sqes) :
          /\ Len(write) = 0 \/ (Len(prep) + Len(sq) < SqSize /\ Len(write) = 1)
          /\ Len(read) = 0 \/ (Len(prep) + Len(sq) + Len(write) < SqSize /\ Len(read) = 1)
          /\ prep' = (prep \o write) \o read
    <3>1. PICK write, read \in Seq(Sqes) :
              /\ \/ write = <<>>
                 \/ /\ Room(0)
                    /\ \E a, b \in 0 .. MaxUnits : write = <<Send(s, a, b)>>
              /\ \/ read = <<>>
                 \/ /\ Room(Len(write))
                    /\ read \in {<<Nop>>, <<Recv(s)>>}
              /\ prep' = (prep \o write) \o read
      BY <1>14, ReadDataPrepares
    <3>2. Len(write) \in {0, 1} /\ Len(read) \in {0, 1}
      BY <3>1
    <3>3. Room(0) <=> Len(prep) + Len(sq) < SqSize
      BY <1>0 DEF Room, RingTypes
    <3>. QED
      BY <3>1, <3>2, <3>3 DEF Room
  <2>2. prep' \in Seq(Sqes) /\ Len(prep') = Len(prep) + Len(write) + Len(read)
    BY <1>0, <2>1 DEF RingTypes
  <2>3. sq' = sq
    BY <1>14 DEF HandleReadData
  <2>4. Len(prep') + Len(sq') <= SqSize
    <3>1. Len(prep) \in Nat /\ Len(sq) \in Nat /\ Len(prep) + Len(sq) <= SqSize
      BY <1>0 DEF RingTypes
    <3>2. \A p, q, w, r, z \in Nat :
            /\ p + q <= z
            /\ w = 0 \/ (p + q < z /\ w = 1)
            /\ r = 0 \/ (p + q + w < z /\ r = 1)
            => p + w + r + q <= z
      OBVIOUS
    <3>3. Len(write) \in Nat /\ Len(read) \in Nat
      BY <2>1
    <3>. QED
      BY <2>1, <2>2, <2>3, <3>1, <3>2, <3>3, Sizes
  <2>5. CqTyped'
    BY <1>1, <1>14 DEF HandleReadData
  <2>. QED
    BY <1>0, <2>2, <2>3, <2>4, <2>5 DEF RingTypes
<1>15. ASSUME NEW s \in Sessions, Expire(s) PROVE RingTypes'
  BY <1>3, <1>4, <1>15 DEF Expire, RingTypes
<1>16. CASE TakeSqe
  <2>1. Head(sq) \in Sqes /\ sq' = Tail(sq) /\ sq # <<>> /\ UNCHANGED prep
    BY <1>0, <1>16, HeadIn DEF TakeSqe, RingTypes, workerVars
  <2>2. SqTyped'
    BY <1>0, <2>1, HeadIn, Sizes DEF RingTypes
  <2>3. CqTyped'
    <3>1. UNCHANGED cq \/ \E c \in Cqes : Post(c)
      BY <1>16, KernelPosts
    <3>. QED
      BY <1>2, <1>3, <3>1
  <2>. QED
    BY <2>2, <2>3 DEF RingTypes
<1>17. ASSUME NEW s \in Sessions, \/ Notify(s)
                                  \/ \E ok \in BOOLEAN : RecvDone(s, ok)
                                  \/ \E n \in 0 .. MaxUnits : SendDone(s, n)
       PROVE  RingTypes'
  <2>1. UNCHANGED <<prep, sq>>
    BY <1>17 DEF Notify, RecvDone, SendDone, workerVars
  <2>2. \E c \in Cqes : Post(c)
    BY <1>17, KernelPosts
  <2>. QED
    BY <1>2, <1>4, <2>1, <2>2 DEF RingTypes
<1>18. ASSUME AcceptFails \/ \E fd \in Fds, more \in BOOLEAN : AcceptDone(fd, more) PROVE RingTypes'
  <2>1. UNCHANGED <<prep, sq>>
    BY <1>18 DEF AcceptFails, AcceptDone, workerVars
  <2>2. \E c \in Cqes : Post(c)
    BY <1>18, EntryTypes DEF AcceptFails, AcceptDone
  <2>. QED
    BY <1>2, <1>4, <2>1, <2>2 DEF RingTypes
<1>19. CASE UNCHANGED vars
  BY <1>3, <1>4, <1>19 DEF vars, workerVars, RingTypes
<1>. QED
  BY <1>7, <1>8, <1>9, <1>10, <1>11, <1>12, <1>13, <1>14, <1>15, <1>16, <1>17, <1>18, <1>19
     DEF Next, Handle, Kernel

(* No step leaves the types of what the kernel has in hand.                *)
LEMMA KernelStep == TypeOK /\ [Next]_vars => KernelTypes'
<1>. SUFFICES ASSUME TypeOK, [Next]_vars PROVE KernelTypes'
  OBVIOUS
<1>0. KernelTypes /\ RingTypes
  BY TypeParts
<1>. DEFINE Ranges == [from : 0 .. MaxUnits, to : 0 .. MaxUnits]
<1>1. ASSUME UNCHANGED kernelVars PROVE KernelTypes'
  BY <1>0, <1>1 DEF KernelTypes, kernelVars
<1>2. ASSUME FlushFull \/ Submit \/ HandleAcceptEnd \/ HandleNop \/ UNCHANGED vars
      PROVE  KernelTypes'
  BY <1>1, <1>2 DEF FlushFull, Submit, HandleAcceptEnd, HandleNop, vars
<1>2a. ASSUME NEW fd \in Fds, NEW more \in BOOLEAN, AcceptDone(fd, more) PROVE KernelTypes'
  BY <1>0, <1>2a DEF AcceptDone, workerVars, KernelTypes
<1>3. ASSUME NEW s \in Sessions,
             \/ HandleAccept(s) \/ HandleInactive(s) \/ HandleReadEnd(s)
             \/ HandleSendResult(s) \/ HandleNotif(s) \/ Expire(s)
             \/ \E units \in 0 .. MaxUnits, closing, full \in BOOLEAN :
                    HandleReadData(s, units, closing, full)
      PROVE  KernelTypes'
  BY <1>1, <1>3 DEF HandleAccept, HandleInactive, HandleReadEnd, HandleSendResult,
     HandleNotif, Expire, HandleReadData
<1>4. CASE LoopExit
  <2>1. <<>> \in SendQueue
    BY DEF SendQueue
  <2>. QED
    BY <1>4, <2>1 DEF LoopExit, KernelTypes
<1>5. CASE AcceptFails
  BY <1>0, <1>5 DEF AcceptFails, KernelTypes
<1>6. CASE TakeSqe
  <2>. DEFINE e == Head(sq)
  <2>1. e \in Sqes
    BY <1>0, <1>6, HeadIn DEF TakeSqe, RingTypes
  <2>2. CASE e.op = "nop"
    BY <1>0, <1>6, <2>2 DEF TakeSqe, KernelTypes
  <2>3. CASE e.op = "accept"
    BY <1>0, <1>6, <2>3 DEF TakeSqe, KernelTypes
  <2>4. CASE e.op = "recv"
    <3>1. /\ recvs' = [recvs EXCEPT ![e.s] = @ + 1] \/ UNCHANGED recvs
          /\ UNCHANGED <<armed, sends, notifs>>
      BY <1>6, <2>4 DEF TakeSqe
    <3>. HIDE DEF e
    <3>. QED
      BY <1>0, <3>1 DEF KernelTypes
  <2>5. CASE e.op = "send"
    <3>1. /\ sends' = [sends EXCEPT ![e.s] = Append(@, [from |-> e.from, to |-> e.to])]
             \/ UNCHANGED sends
          /\ UNCHANGED <<armed, recvs, notifs>>
      BY <1>6, <2>5 DEF TakeSqe
    <3>2. [from |-> e.from, to |-> e.to] \in Ranges /\ e.s \in Sessions
      BY <2>1, <2>5, EntryFields
    <3>3. sends \in [Sessions -> SendQueue] /\ sends[e.s] \in SendQueue
      BY <1>0, <3>2 DEF KernelTypes
    <3>4. Append(sends[e.s], [from |-> e.from, to |-> e.to]) \in SendQueue
      BY <3>2, <3>3 DEF SendQueue
    <3>5. sends' \in [Sessions -> SendQueue]
      BY <3>1, <3>3, <3>4
    <3>. QED
      BY <1>0, <3>1, <3>5 DEF KernelTypes
  <2>. QED
    BY <2>1, <2>2, <2>3, <2>4, <2>5, EntryFields
<1>7. ASSUME NEW s \in Sessions, Notify(s) \/ \E ok \in BOOLEAN : RecvDone(s, ok)
      PROVE  KernelTypes'
  <2>1. recvs[s] \in Nat /\ notifs[s] \in Nat
    BY <1>0 DEF KernelTypes
  <2>2. CASE Notify(s)
    <3>1. notifs[s] - 1 \in Nat
      BY <2>1, <2>2 DEF Notify
    <3>. QED
      BY <1>0, <2>2, <3>1 DEF Notify, KernelTypes
  <2>3. CASE \E ok \in BOOLEAN : RecvDone(s, ok)
    <3>1. recvs[s] - 1 \in Nat
      BY <2>1, <2>3 DEF RecvDone
    <3>. QED
      BY <1>0, <2>3, <3>1 DEF RecvDone, KernelTypes
  <2>. QED
    BY <1>7, <2>2, <2>3
<1>8. ASSUME NEW s \in Sessions, NEW n \in 0 .. MaxUnits, SendDone(s, n) PROVE KernelTypes'
  <2>1. sends[s] \in Seq(Ranges) /\ sends[s] # <<>>
    BY <1>0, <1>8 DEF SendDone, KernelTypes, SendQueue
  <2>2. Tail(sends[s]) \in SendQueue
    BY <2>1, HeadIn DEF SendQueue
  <2>. QED
    BY <1>0, <1>8, <2>2 DEF SendDone, KernelTypes
<1>. QED
  BY <1>2, <1>2a, <1>3, <1>4, <1>5, <1>6, <1>7, <1>8 DEF Next, Handle, Kernel

(* The initial state is of the types.                                      *)
LEMMA TypeInit == Init => TypeOK
<1>. SUFFICES ASSUME Init PROVE TypeOK
  OBVIOUS
<1>1. BufferTypes
  BY Sizes DEF Init, BufferTypes
<1>2. SlotTypes
  BY DEF Init, SlotTypes
<1>3. RingTypes
  BY Sizes, EntryTypes DEF Init, RingTypes
<1>4. KernelTypes
  <2>1. <<>> \in SendQueue
    BY DEF SendQueue
  <2>. QED
    BY <2>1 DEF Init, KernelTypes
<1>. QED
  BY <1>1, <1>2, <1>3, <1>4, TypeParts

(* The four parts together.                                                *)
LEMMA TypeStep == TypeOK /\ [Next]_vars => TypeOK'
  BY BufferStep, SlotStepTypes, RingStep, KernelStep
     DEF TypeOK, BufferTypes, SlotTypes, RingTypes, KernelTypes, SendQueue

(* The worker of the io_uring build keeps every variable's type, and fills *)
(* neither ring beyond its size, whatever the sizes.                       *)
THEOREM TypeCorrect == Spec => []TypeOK
  BY TypeStep, TypeInit, PTL DEF Spec

-----------------------------------------------------------------------------
(***************************************************************************)
(* What a step does to the rings: how many entries of some set each has.   *)
(***************************************************************************)

One(e, S) == IF e \in S THEN 1 ELSE 0

(* A tally of each ring is a natural.                                      *)
LEMMA TallyTypes ==
    ASSUME TypeOK, NEW S
    PROVE  Tally(prep, S) \in Nat /\ Tally(sq, S) \in Nat /\ Tally(cq, S) \in Nat
  BY TallyNat DEF TypeOK

(* Handling takes the first completion.                                    *)
LEMMA Handled ==
    ASSUME TypeOK, NEW op, Handling(op), NEW S
    PROVE  /\ Head(cq) \in Cqes /\ Head(cq).op = op /\ pc = "loop"
           /\ Tally(cq, S) = Tally(cq', S) + One(Head(cq), S)
           /\ Tally(cq', S) \in Nat
<1>1. cq \in Seq(Cqes) /\ cq # <<>> /\ cq' = Tail(cq) /\ Head(cq).op = op /\ pc = "loop"
  BY DEF TypeOK, Handling
<1>2. Tail(cq) \in Seq(Cqes) /\ Head(cq) \in Cqes
  BY <1>1, HeadIn
<1>3. Tally(cq, S) \in Nat /\ Tally(Tail(cq), S) \in Nat
  BY <1>1, <1>2, TallyNat
<1>4. /\ Head(cq) \in S => Tally(Tail(cq), S) = Tally(cq, S) - 1
      /\ Head(cq) \notin S => Tally(Tail(cq), S) = Tally(cq, S)
  BY <1>1, TallyTail
<1>. QED
  BY <1>1, <1>2, <1>3, <1>4 DEF One

(* Handling an accept may leave its second half in place of it.            *)
Takes(op) ==
    /\ pc = "loop" /\ cq # <<>> /\ Head(cq).op = op
    /\ \/ cq' = Tail(cq)
       \/ op = "accept" /\ cq' = <<AcceptEnd>> \o Tail(cq)

(* What handles a completion takes it in this sense.                       *)
LEMMA HandlingTakes ==
    /\ \A op : Handling(op) => Takes(op)
    /\ TypeOK => \A s \in Sessions : HandleAccept(s) => Takes("accept")
<1>1. \A op : Handling(op) => Takes(op)
  BY DEF Handling, Takes
<1>2. ASSUME TypeOK, NEW s \in Sessions, HandleAccept(s) PROVE Takes("accept")
  <2>1. /\ pc = "loop" /\ cq # <<>> /\ Head(cq).op = "accept"
        /\ cq' = AcceptsLeft(Head(cq)) \o Tail(cq) /\ cq \in Seq(Cqes)
    BY <1>2 DEF HandleAccept, TypeOK
  <2>2. <<>> \o Tail(cq) = Tail(cq)
    BY <2>1, HeadIn
  <2>. QED
    BY <2>1, <2>2 DEF Takes, AcceptsLeft
<1>. QED
  BY <1>1, <1>2

(* It counts once for any set that the second half is not in.              *)
LEMMA TakenOff ==
    ASSUME TypeOK, NEW op, Takes(op), NEW S, AcceptEnd \notin S
    PROVE  /\ Head(cq) \in Cqes /\ Head(cq).op = op /\ pc = "loop"
           /\ Tally(cq, S) = Tally(cq', S) + One(Head(cq), S)
           /\ Tally(cq', S) \in Nat
<1>1. cq \in Seq(Cqes) /\ cq # <<>> /\ Head(cq).op = op /\ pc = "loop"
  BY DEF TypeOK, Takes
<1>2. Tail(cq) \in Seq(Cqes) /\ Head(cq) \in Cqes
  BY <1>1, HeadIn
<1>3. Tally(cq, S) \in Nat /\ Tally(Tail(cq), S) \in Nat
  BY <1>1, <1>2, TallyNat
<1>4. /\ Head(cq) \in S => Tally(Tail(cq), S) = Tally(cq, S) - 1
      /\ Head(cq) \notin S => Tally(Tail(cq), S) = Tally(cq, S)
  BY <1>1, TallyTail
<1>5. Tally(cq', S) = Tally(Tail(cq), S)
  <2>1. CASE cq' = <<AcceptEnd>> \o Tail(cq)
    <3>1. <<AcceptEnd>> \in Seq(Cqes) /\ Tally(<<AcceptEnd>>, S) = 0
      BY EntryTypes, TallySingle
    <3>2. Tally(<<AcceptEnd>> \o Tail(cq), S) = Tally(<<AcceptEnd>>, S) + Tally(Tail(cq), S)
      BY <1>2, <3>1, TallyConcat
    <3>. QED
      BY <1>3, <2>1, <3>1, <3>2
  <2>. QED
    BY <2>1 DEF Takes
<1>. QED
  BY <1>1, <1>2, <1>3, <1>4, <1>5 DEF One

(* Posting adds a completion.                                              *)
LEMMA Posted ==
    ASSUME TypeOK, NEW c \in Cqes, Post(c), NEW S
    PROVE  Tally(cq', S) = Tally(cq, S) + One(c, S)
<1>1. cq \in Seq(Cqes) /\ cq' = Append(cq, c)
  BY DEF TypeOK, Post
<1>2. /\ c \in S => Tally(Append(cq, c), S) = Tally(cq, S) + 1
      /\ c \notin S => Tally(Append(cq, c), S) = Tally(cq, S)
  BY <1>1, TallyAppend
<1>. QED
  BY <1>1, <1>2, TallyTypes DEF One

(* io_uring_get_sqe adds an entry.                                         *)
LEMMA Prepared ==
    ASSUME TypeOK, NEW e \in Sqes, prep' = Append(prep, e), NEW S
    PROVE  Tally(prep', S) = Tally(prep, S) + One(e, S)
<1>1. prep \in Seq(Sqes)
  BY DEF TypeOK
<1>2. /\ e \in S => Tally(Append(prep, e), S) = Tally(prep, S) + 1
      /\ e \notin S => Tally(Append(prep, e), S) = Tally(prep, S)
  BY <1>1, TallyAppend
<1>. QED
  BY <1>2, TallyTypes DEF One

(* io_uring_submit moves entries and loses none.                           *)
LEMMA Published ==
    ASSUME TypeOK, sq' = sq \o prep, prep' = <<>>, NEW S
    PROVE  Tally(prep', S) = 0 /\ Tally(sq', S) = Tally(sq, S) + Tally(prep, S)
<1>1. prep \in Seq(Sqes) /\ sq \in Seq(Sqes)
  BY DEF TypeOK
<1>2. Tally(sq \o prep, S) = Tally(sq, S) + Tally(prep, S)
  BY <1>1, TallyConcat
<1>. QED
  BY <1>2, TallyEmpty

(* The SQPOLL thread takes the first entry.                                *)
LEMMA Taken ==
    ASSUME TypeOK, TakeSqe, NEW S
    PROVE  /\ Head(sq) \in Sqes
           /\ Tally(sq, S) = Tally(sq', S) + One(Head(sq), S)
           /\ Tally(sq', S) \in Nat
<1>1. sq \in Seq(Sqes) /\ sq # <<>> /\ sq' = Tail(sq)
  BY DEF TypeOK, TakeSqe
<1>2. Tail(sq) \in Seq(Sqes) /\ Head(sq) \in Sqes
  BY <1>1, HeadIn
<1>3. Tally(sq, S) \in Nat /\ Tally(Tail(sq), S) \in Nat
  BY <1>1, <1>2, TallyNat
<1>4. /\ Head(sq) \in S => Tally(Tail(sq), S) = Tally(sq, S) - 1
      /\ Head(sq) \notin S => Tally(Tail(sq), S) = Tally(sq, S)
  BY <1>1, TallyTail
<1>. QED
  BY <1>1, <1>2, <1>3, <1>4 DEF One

-----------------------------------------------------------------------------
(***************************************************************************)
(* What a step does to slots and descriptors.                              *)
(***************************************************************************)

(* A completion or a request served for an Active session.                 *)
Serves(s) ==
    \/ HandleReadEnd(s) \/ HandleSendResult(s) \/ HandleNotif(s)
    \/ \E units \in 0 .. MaxUnits, closing, full \in BOOLEAN :
            HandleReadData(s, units, closing, full)

(* The steps that leave every slot as it is.                               *)
Quiet ==
    \/ FlushFull \/ HandleAcceptEnd \/ HandleNop \/ Submit \/ LoopExit
    \/ TakeSqe \/ AcceptFails \/ UNCHANGED vars
    \/ \E fd \in Fds, more \in BOOLEAN : AcceptDone(fd, more)
    \/ \E s \in Sessions :
        \/ Notify(s)
        \/ \E ok \in BOOLEAN : RecvDone(s, ok)
        \/ \E n \in 0 .. MaxUnits : SendDone(s, n)

(* Those are all the steps there are.                                      *)
LEMMA StepKinds ==
    [Next]_vars => \/ Quiet
                   \/ \E s \in Sessions : \/ HandleAccept(s) \/ Serves(s)
                                           \/ HandleInactive(s) \/ Expire(s)
  BY DEF Next, Handle, Kernel, Quiet, Serves

(* Quiet steps indeed touch no slot.                                       *)
LEMMA QuietSlots == Quiet => UNCHANGED <<status, io, socket, linked>>
<1>1. ASSUME \/ FlushFull \/ HandleAcceptEnd \/ HandleNop \/ Submit \/ LoopExit
             \/ TakeSqe \/ AcceptFails \/ UNCHANGED vars
      PROVE  UNCHANGED <<status, io, socket, linked>>
  BY <1>1 DEF FlushFull, HandleAcceptEnd, HandleNop, Submit, LoopExit, TakeSqe, AcceptFails,
     vars, workerVars
<1>2. ASSUME NEW fd \in Fds, NEW more \in BOOLEAN, AcceptDone(fd, more)
      PROVE  UNCHANGED <<status, io, socket, linked>>
  BY <1>2 DEF AcceptDone, workerVars
<1>3. ASSUME NEW s \in Sessions, \/ Notify(s)
                                 \/ \E ok \in BOOLEAN : RecvDone(s, ok)
                                 \/ \E n \in 0 .. MaxUnits : SendDone(s, n)
      PROVE  UNCHANGED <<status, io, socket, linked>>
  BY <1>3 DEF Notify, RecvDone, SendDone, workerVars
<1>. QED
  BY <1>1, <1>2, <1>3 DEF Quiet

(* An Active session that is served stays Active or turns Closing, and may *)
(* close its socket.                                                       *)
LEMMA ServedSlot ==
    ASSUME TypeOK, NEW s \in Sessions, Serves(s)
    PROVE  /\ status[s] = "Active"
           /\ status' = status \/ status' = [status EXCEPT ![s] = "Closing"]
           /\ io' = [io EXCEPT ![s] = io'[s]]
           /\ linked' = linked
           /\ Close(s) \/ KeepOpen
           /\ Handling(Head(cq).op) /\ Head(cq).op \in {"recv", "send", "notif"}
           /\ Head(cq).s = s
<1>1. io \in [Sessions -> SUBSET IoFlags]
  BY DEF TypeOK
<1>2. ASSUME NEW f, io' = [io EXCEPT ![s] = f]
      PROVE  io' = [io EXCEPT ![s] = io'[s]]
  BY <1>1, <1>2
<1>3. CASE HandleReadEnd(s)
  BY <1>2, <1>3 DEF HandleReadEnd, SetClosing, Handling
<1>4. CASE HandleSendResult(s)
  BY <1>2, <1>4 DEF HandleSendResult, SetClosing, Handling
<1>5. CASE HandleNotif(s)
  <2>1. \E f : io' = [io EXCEPT ![s] = f]
    BY <1>5 DEF HandleNotif
  <2>. QED
    BY <1>2, <1>5, <2>1 DEF HandleNotif, SetClosing, Handling
<1>6. ASSUME NEW units \in 0 .. MaxUnits, NEW closing \in BOOLEAN, NEW full \in BOOLEAN,
             HandleReadData(s, units, closing, full)
      PROVE  /\ status[s] = "Active"
             /\ status' = status \/ status' = [status EXCEPT ![s] = "Closing"]
             /\ io' = [io EXCEPT ![s] = io'[s]]
             /\ linked' = linked
             /\ Close(s) \/ KeepOpen
             /\ Handling(Head(cq).op) /\ Head(cq).op = "recv"
             /\ Head(cq).s = s
  <2>1. io' = [io EXCEPT ![s] = io'[s]] /\ (Close(s) \/ KeepOpen)
    BY <1>2, <1>6, ReadDataPrepares
  <2>. QED
    BY <1>6, <2>1 DEF HandleReadData, SetClosing, Handling
<1>. QED
  BY <1>3, <1>4, <1>5, <1>6 DEF Serves

-----------------------------------------------------------------------------
(***************************************************************************)
(* The wheel.                                                              *)
(***************************************************************************)

(* An Active session is on the wheel, and off it is only what the wheel    *)
(* has closed; a slot without a Session is not on it.                      *)
WheelInv ==
    /\ \A s \in Sessions : status[s] = "Active" => s \in linked
    /\ \A s \in linked : status[s] # "Free"
    /\ NoLimbo

(* Completions, timeouts and requests leave the wheel in order.            *)
LEMMA WheelStep == TypeOK /\ WheelInv /\ [Next]_vars => WheelInv'
<1>. SUFFICES ASSUME TypeOK, WheelInv, [Next]_vars PROVE WheelInv'
  OBVIOUS
<1>0. /\ status \in [Sessions -> {"Free", "Active", "Closing"}]
      /\ io \in [Sessions -> SUBSET IoFlags]
      /\ linked \in SUBSET Sessions
      /\ socket \in [Sessions -> Fds \cup {NoFd}]
  BY DEF TypeOK
<1>1. CASE Quiet
  BY <1>1, QuietSlots DEF WheelInv, NoLimbo
<1>2. ASSUME NEW s \in Sessions, HandleAccept(s) PROVE WheelInv'
  BY <1>0, <1>2 DEF HandleAccept, Timed, WheelInv, NoLimbo
<1>3. ASSUME NEW s \in Sessions, Serves(s) PROVE WheelInv'
  <2>1. /\ status[s] = "Active" /\ linked' = linked
        /\ status' = status \/ status' = [status EXCEPT ![s] = "Closing"]
        /\ \A r \in Sessions \ {s} : status'[r] = status[r] /\ io'[r] = io[r]
        /\ \A r \in Sessions \ {s} : socket'[r] = socket[r]
    BY <1>0, <1>3, ServedSlot DEF Close, KeepOpen
  <2>2. s \in linked
    BY <2>1 DEF WheelInv
  <2>. QED
    BY <1>0, <2>1, <2>2 DEF WheelInv, NoLimbo
<1>4. ASSUME NEW s \in Sessions, Free(s), io' = io PROVE WheelInv'
  BY <1>0, <1>4 DEF Free, Close, WheelInv, NoLimbo
<1>5. ASSUME NEW s \in Sessions, HandleInactive(s) PROVE WheelInv'
  <2>1. io' = io /\ (Free(s) \/ UNCHANGED <<status, linked, socket>>)
    BY <1>5 DEF HandleInactive
  <2>. QED
    BY <1>4, <2>1 DEF WheelInv, NoLimbo
<1>6. ASSUME NEW s \in Sessions, Expire(s) PROVE WheelInv'
  <2>1. CASE Free(s)
    BY <1>4, <1>6, <2>1 DEF Expire
  <2>2. CASE io[s] # {} /\ Close(s) /\ SetClosing(s) /\ linked' = linked \ {s}
    BY <1>0, <1>6, <2>2 DEF Expire, Close, SetClosing, WheelInv, NoLimbo
  <2>. QED
    BY <1>6, <2>1, <2>2 DEF Expire
<1>. QED
  BY <1>1, <1>2, <1>3, <1>5, <1>6, StepKinds

(* A session in use is on the wheel, or the wheel itself has closed it and *)
(* left its slot to a completion: no other way leads off the wheel.        *)
THEOREM Reclaimable == Spec => []NoLimbo
<1>1. Init => WheelInv
  BY DEF Init, WheelInv, NoLimbo
<1>. QED
  BY <1>1, WheelStep, TypeCorrect, PTL DEF Spec, WheelInv

-----------------------------------------------------------------------------
(***************************************************************************)
(* Descriptors.                                                            *)
(***************************************************************************)

AcceptOf(fd) == {c \in Cqes : c.op = "accept" /\ c.fd = fd}

(* A connection has been accepted by exactly one completion, or is held by *)
(* exactly one session; a slot without a Session holds none.               *)
FdInv ==
    /\ \A fd \in Fds, s \in Sessions : owner[fd] = s <=> status[s] # "Free" /\ socket[s] = fd
    /\ \A fd \in Fds : Tally(cq, AcceptOf(fd)) = IF owner[fd] = Unclaimed THEN 1 ELSE 0
    /\ \A s \in Sessions : status[s] = "Free" => socket[s] = NoFd

(* FdInv is FdOwnership, and more.                                         *)
LEMMA FdInvOwnership == TypeOK /\ FdInv => FdOwnership
<1>. SUFFICES ASSUME TypeOK, FdInv, NEW fd \in Fds
             PROVE  owner[fd] = Unclaimed <=>
                      \E c \in Entries(cq) : c.op = "accept" /\ c.fd = fd
  BY DEF FdInv, FdOwnership
<1>1. Tally(cq, AcceptOf(fd)) > 0 <=> \E i \in DOMAIN cq : cq[i] \in AcceptOf(fd)
  BY TallyNat DEF TypeOK
<1>2. (\E i \in DOMAIN cq : cq[i] \in AcceptOf(fd)) <=>
        \E c \in Entries(cq) : c.op = "accept" /\ c.fd = fd
  <2>1. \A i \in DOMAIN cq : cq[i] \in Cqes
    BY DEF TypeOK
  <2>. QED
    BY <2>1 DEF AcceptOf, Entries
<1>. QED
  BY <1>1, <1>2 DEF FdInv

(* The completions of sessions are none of the listener's.                 *)
LEMMA NotAccept ==
    ASSUME NEW c \in Cqes, c.op # "accept", NEW fd \in Fds
    PROVE  One(c, AcceptOf(fd)) = 0
  BY DEF One, AcceptOf

(* ::close by the holder, or by nobody, keeps owners and sockets agreed.   *)
LEMMA ClosedFds ==
    ASSUME TypeOK, FdInv, NEW s \in Sessions, Close(s),
           status' \in [Sessions -> {"Free", "Active", "Closing"}],
           \A r \in Sessions \ {s} : status'[r] = status[r],
           \A fd \in Fds : Tally(cq', AcceptOf(fd)) = Tally(cq, AcceptOf(fd))
    PROVE  FdInv'
<1>0. /\ socket \in [Sessions -> Fds \cup {NoFd}]
      /\ owner \in [Fds -> Sessions \cup {NoSession, Unclaimed}]
  BY DEF TypeOK
<1>1. /\ socket' = [socket EXCEPT ![s] = NoFd]
      /\ owner' = [fd \in Fds |-> IF fd = socket[s] THEN NoSession ELSE owner[fd]]
  BY DEF Close
<1>2. \A fd \in Fds : socket[s] = fd => owner[fd] = s
  BY Marks DEF FdInv
<1>3. \A fd \in Fds, r \in Sessions :
        owner'[fd] = r <=> status'[r] # "Free" /\ socket'[r] = fd
  <2>. SUFFICES ASSUME NEW fd \in Fds, NEW r \in Sessions
               PROVE  owner'[fd] = r <=> status'[r] # "Free" /\ socket'[r] = fd
    OBVIOUS
  <2>1. CASE r = s
    BY <1>0, <1>1, <2>1, Marks DEF FdInv
  <2>2. CASE r # s
    BY <1>0, <1>1, <1>2, <2>2, Marks DEF FdInv
  <2>. QED
    BY <2>1, <2>2
<1>4. \A fd \in Fds : owner'[fd] = Unclaimed <=> owner[fd] = Unclaimed
  BY <1>0, <1>1, <1>2, Marks
<1>5. \A r \in Sessions : status'[r] = "Free" => socket'[r] = NoFd
  BY <1>0, <1>1 DEF FdInv
<1>. QED
  BY <1>3, <1>4, <1>5 DEF FdInv

(* Without accepts and closes nothing moves.                               *)
LEMMA SameFds ==
    ASSUME TypeOK, FdInv, UNCHANGED <<socket, owner>>,
           \A r \in Sessions : status'[r] = "Free" <=> status[r] = "Free",
           \A fd \in Fds : Tally(cq', AcceptOf(fd)) = Tally(cq, AcceptOf(fd))
    PROVE  FdInv'
  BY DEF FdInv

(* A completion that is no accept leaves the tallies of accepts.           *)
LEMMA OtherHandled ==
    ASSUME TypeOK, NEW op, Handling(op), op # "accept"
    PROVE  \A fd \in Fds : Tally(cq', AcceptOf(fd)) = Tally(cq, AcceptOf(fd))
<1>. SUFFICES ASSUME NEW fd \in Fds
             PROVE  Tally(cq', AcceptOf(fd)) = Tally(cq, AcceptOf(fd))
  OBVIOUS
<1>1. /\ Head(cq) \in Cqes /\ Head(cq).op = op
      /\ Tally(cq, AcceptOf(fd)) = Tally(cq', AcceptOf(fd)) + One(Head(cq), AcceptOf(fd))
      /\ Tally(cq', AcceptOf(fd)) \in Nat
  BY Handled
<1>2. One(Head(cq), AcceptOf(fd)) = 0
  BY <1>1, NotAccept
<1>. QED
  BY <1>1, <1>2

(* A completion queued that is no accept leaves them too.                  *)
LEMMA OtherPosted ==
    ASSUME TypeOK, NEW c \in Cqes, Post(c), c.op # "accept"
    PROVE  \A fd \in Fds : Tally(cq', AcceptOf(fd)) = Tally(cq, AcceptOf(fd))
<1>. SUFFICES ASSUME NEW fd \in Fds
             PROVE  Tally(cq', AcceptOf(fd)) = Tally(cq, AcceptOf(fd))
  OBVIOUS
<1>1. Tally(cq', AcceptOf(fd)) = Tally(cq, AcceptOf(fd)) + One(c, AcceptOf(fd))
  BY Posted
<1>. QED
  BY <1>1, NotAccept, TallyTypes

(* Every step keeps descriptors, slots and accept completions agreed.      *)
LEMMA FdStep == TypeOK /\ WheelInv /\ FdInv /\ [Next]_vars => FdInv'
<1>. SUFFICES ASSUME TypeOK, WheelInv, FdInv, [Next]_vars PROVE FdInv'
  OBVIOUS
<1>0. /\ status \in [Sessions -> {"Free", "Active", "Closing"}]
      /\ socket \in [Sessions -> Fds \cup {NoFd}]
      /\ owner \in [Fds -> Sessions \cup {NoSession, Unclaimed}]
      /\ linked \in SUBSET Sessions
  BY DEF TypeOK
<1>. DEFINE AcceptsKept == \A fd \in Fds : Tally(cq', AcceptOf(fd)) = Tally(cq, AcceptOf(fd))
<1>1. ASSUME NEW fd \in Fds, NEW more \in BOOLEAN, AcceptDone(fd, more) PROVE FdInv'
  <2>. DEFINE c == [op |-> "accept", fd |-> fd, more |-> more]
  <2>1. c \in Cqes /\ Post(c)
    BY <1>1, EntryTypes DEF AcceptDone
  <2>2. \A f \in Fds : Tally(cq', AcceptOf(f)) = Tally(cq, AcceptOf(f)) + One(c, AcceptOf(f))
    BY <2>1, Posted
  <2>3. \A f \in Fds : One(c, AcceptOf(f)) = IF f = fd THEN 1 ELSE 0
    BY <2>1 DEF One, AcceptOf
  <2>4. /\ owner[fd] = NoSession /\ owner' = [owner EXCEPT ![fd] = Unclaimed]
        /\ UNCHANGED <<status, socket>>
    BY <1>1 DEF AcceptDone, workerVars
  <2>. HIDE DEF c
  <2>5. \A f \in Fds : Tally(cq', AcceptOf(f)) = IF owner'[f] = Unclaimed THEN 1 ELSE 0
    BY <1>0, <2>2, <2>3, <2>4, Marks DEF FdInv
  <2>6. \A f \in Fds, s \in Sessions : owner'[f] = s <=> status'[s] # "Free" /\ socket'[s] = f
    BY <1>0, <2>4, Marks DEF FdInv
  <2>. QED
    BY <2>4, <2>5, <2>6 DEF FdInv
<1>2. ASSUME AcceptsKept, UNCHANGED <<status, socket, owner>> PROVE FdInv'
  BY <1>2, SameFds
<1>3. CASE FlushFull \/ Submit \/ LoopExit \/ UNCHANGED vars
  BY <1>2, <1>3 DEF FlushFull, Submit, LoopExit, vars, workerVars
<1>4. CASE HandleAcceptEnd \/ HandleNop
  <2>1. Handling("acceptEnd") \/ Handling("nop")
    BY <1>4 DEF HandleAcceptEnd, HandleNop
  <2>2. AcceptsKept
    BY <2>1, OtherHandled
  <2>. QED
    BY <1>2, <1>4, <2>2 DEF HandleAcceptEnd, HandleNop
<1>5. CASE TakeSqe \/ AcceptFails
  <2>1. UNCHANGED cq \/ \E c \in Cqes : Post(c) /\ c.op # "accept"
    BY <1>5, KernelPosts
  <2>2. AcceptsKept
    BY <2>1, OtherPosted
  <2>. QED
    BY <1>2, <1>5, <2>2 DEF TakeSqe, AcceptFails, workerVars
<1>6. ASSUME NEW s \in Sessions, \/ Notify(s)
                                 \/ \E ok \in BOOLEAN : RecvDone(s, ok)
                                 \/ \E n \in 0 .. MaxUnits : SendDone(s, n)
      PROVE  FdInv'
  <2>1. \E c \in Cqes : Post(c) /\ c.op # "accept"
    BY <1>6, KernelPosts
  <2>2. AcceptsKept
    BY <2>1, OtherPosted
  <2>3. UNCHANGED <<status, socket, owner>>
    BY <1>6 DEF Notify, RecvDone, SendDone, workerVars
  <2>. QED
    BY <1>2, <2>2, <2>3
<1>7. CASE Quiet
  BY <1>1, <1>3, <1>4, <1>5, <1>6, <1>7 DEF Quiet
<1>8. ASSUME NEW s \in Sessions, HandleAccept(s) PROVE FdInv'
  <2>. DEFINE fd == Head(cq).fd
  <2>1. /\ Head(cq) \in Cqes /\ Head(cq).op = "accept"
        /\ \A f \in Fds : /\ Tally(cq, AcceptOf(f)) = Tally(cq', AcceptOf(f)) + One(Head(cq), AcceptOf(f))
                          /\ Tally(cq', AcceptOf(f)) \in Nat
    <3>1. Takes("accept") /\ \A f \in Fds : AcceptEnd \notin AcceptOf(f)
      BY <1>8, HandlingTakes, EntryTypes DEF AcceptOf, AcceptEnd
    <3>. QED
      BY <3>1, TakenOff
  <2>2. fd \in Fds /\ \A f \in Fds : One(Head(cq), AcceptOf(f)) = IF f = fd THEN 1 ELSE 0
    BY <2>1, EntryFields DEF One, AcceptOf
  <2>3. status[s] = "Free"
    BY <1>8 DEF HandleAccept
  <2>4. \/ /\ status' = [status EXCEPT ![s] = "Active"]
           /\ socket' = [socket EXCEPT ![s] = fd]
           /\ owner' = [owner EXCEPT ![fd] = s]
        \/ /\ UNCHANGED <<status, socket>>
           /\ owner' = [owner EXCEPT ![fd] = NoSession]
    BY <1>8 DEF HandleAccept
  <2>. HIDE DEF fd
  <2>5. owner[fd] = Unclaimed
    BY <2>1, <2>2 DEF FdInv
  <2>6. \A f \in Fds : Tally(cq', AcceptOf(f)) = IF owner'[f] = Unclaimed THEN 1 ELSE 0
    <3>. SUFFICES ASSUME NEW f \in Fds
                 PROVE  Tally(cq', AcceptOf(f)) = IF owner'[f] = Unclaimed THEN 1 ELSE 0
      OBVIOUS
    <3>1. CASE f = fd
      <4>1. owner'[f] # Unclaimed
        BY <1>0, <2>2, <2>4, <3>1, Marks
      <4>2. Tally(cq, AcceptOf(f)) = 1
        BY <2>5, <3>1 DEF FdInv
      <4>. QED
        BY <2>1, <2>2, <3>1, <4>1, <4>2
    <3>2. CASE f # fd
      <4>1. owner'[f] = owner[f]
        BY <1>0, <2>2, <2>4, <3>2
      <4>2. Tally(cq, AcceptOf(f)) = Tally(cq', AcceptOf(f))
        BY <2>1, <2>2, <3>2
      <4>. QED
        BY <4>1, <4>2 DEF FdInv
    <3>. QED
      BY <3>1, <3>2
  <2>7. \A f \in Fds, r \in Sessions : owner'[f] = r <=> status'[r] # "Free" /\ socket'[r] = f
    BY <1>0, <2>2, <2>3, <2>4, <2>5, Marks DEF FdInv
  <2>8. \A r \in Sessions : status'[r] = "Free" => socket'[r] = NoFd
    BY <1>0, <2>4 DEF FdInv
  <2>. QED
    BY <2>6, <2>7, <2>8 DEF FdInv
<1>9. ASSUME NEW s \in Sessions, Serves(s) PROVE FdInv'
  <2>1. /\ status[s] = "Active"
        /\ status' = status \/ status' = [status EXCEPT ![s] = "Closing"]
        /\ Close(s) \/ KeepOpen
        /\ Handling(Head(cq).op) /\ Head(cq).op \in {"recv", "send", "notif"}
    BY <1>9, ServedSlot
  <2>2. AcceptsKept
    BY <2>1, OtherHandled
  <2>3. CASE Close(s)
    BY <1>0, <2>1, <2>2, <2>3, ClosedFds
  <2>4. CASE KeepOpen
    BY <1>0, <2>1, <2>2, <2>4, SameFds DEF KeepOpen
  <2>. QED
    BY <2>1, <2>3, <2>4
<1>10. ASSUME NEW s \in Sessions, HandleInactive(s) PROVE FdInv'
  <2>1. AcceptsKept
    BY <1>10, OtherHandled DEF HandleInactive
  <2>2. CASE Free(s)
    BY <1>0, <2>1, <2>2, ClosedFds DEF Free
  <2>. QED
    BY <1>2, <1>10, <2>1, <2>2 DEF HandleInactive
<1>11. ASSUME NEW s \in Sessions, Expire(s) PROVE FdInv'
  <2>1. AcceptsKept
    BY <1>11 DEF Expire
  <2>2. CASE Free(s)
    BY <1>0, <2>1, <2>2, ClosedFds DEF Free
  <2>3. CASE Close(s) /\ SetClosing(s)
    BY <1>0, <2>1, <2>3, ClosedFds DEF SetClosing
  <2>. QED
    BY <1>11, <2>2, <2>3 DEF Expire
<1>. QED
  BY <1>7, <1>8, <1>9, <1>10, <1>11, StepKinds

(* Nothing is held at first.                                               *)
LEMMA FdInit == Init => WheelInv /\ FdInv
<1>. SUFFICES ASSUME Init PROVE WheelInv /\ FdInv
  OBVIOUS
<1>1. WheelInv
  BY DEF Init, WheelInv, NoLimbo
<1>2. \A fd \in Fds : Tally(cq, AcceptOf(fd)) = 0
  BY TallyEmpty DEF Init
<1>3. FdInv
  BY <1>2, Marks DEF Init, FdInv
<1>. QED
  BY <1>1, <1>3

(* However accepts, closes and late completions interleave, a descriptor   *)
(* is open exactly while one live Session or one accept completion has it. *)
THEOREM Ownership == Spec => []FdOwnership
  BY TypeCorrect, FdInit, WheelStep, FdStep, FdInvOwnership, PTL DEF Spec

-----------------------------------------------------------------------------
(***************************************************************************)
(* Refinement.                                                             *)
(***************************************************************************)

(* ::close in a slot that keeps its Session: a step of the slot, or none.  *)
LEMMA ShutOrNothing ==
    ASSUME TypeOK, FdInv, NEW s \in Sessions, Close(s), status[s] # "Free",
           \A r \in Sessions : status'[r] = "Free" <=> status[r] = "Free"
    PROVE  Slots!Shut(s) \/ UNCHANGED <<Phase, socket>>
<1>0. socket \in [Sessions -> Fds \cup {NoFd}]
  BY DEF TypeOK
<1>1. socket' = [socket EXCEPT ![s] = NoFd]
  BY DEF Close
<1>2. CASE socket[s] = NoFd
  <2>1. socket' = socket
    BY <1>0, <1>1, <1>2
  <2>2. Phase' = Phase
    BY <2>1 DEF Phase
  <2>. QED
    BY <2>1, <2>2
<1>3. CASE socket[s] # NoFd
  <2>1. Phase' = [Phase EXCEPT ![s] = "closed"] /\ Phase[s] = "open"
    BY <1>0, <1>1, <1>3 DEF Phase
  <2>. QED
    BY <1>1, <2>1 DEF Slots!Shut
<1>. QED
  BY <1>2, <1>3

(* Freeing a slot returns it.                                              *)
LEMMA FreeReturns ==
    ASSUME TypeOK, NEW s \in Sessions, Free(s), status[s] # "Free"
    PROVE  \E S \in SUBSET Sessions : Slots!Return(S)
<1>0. /\ socket \in [Sessions -> Fds \cup {NoFd}]
      /\ status \in [Sessions -> {"Free", "Active", "Closing"}]
  BY DEF TypeOK
<1>1. socket' = [socket EXCEPT ![s] = NoFd] /\ status' = [status EXCEPT ![s] = "Free"]
  BY DEF Free, Close
<1>. DEFINE S == {s}
<1>2. /\ \A r \in S : Phase[r] # "free"
      /\ Phase' = [r \in Sessions |-> IF r \in S THEN "free" ELSE Phase[r]]
      /\ socket' = [r \in Sessions |-> IF r \in S THEN NoFd ELSE socket[r]]
  BY <1>0, <1>1 DEF Phase
<1>3. S \in SUBSET Sessions
  OBVIOUS
<1>. HIDE DEF S
<1>. QED
  BY <1>2, <1>3 DEF Slots!Return

(* One step of the worker or the kernel is one step of a slot, or none.    *)
LEMMA SlotStep ==
    TypeOK /\ WheelInv /\ FdInv /\ [Next]_vars => [Slots!Next]_<<Phase, socket>>
<1>. SUFFICES ASSUME TypeOK, WheelInv, FdInv, [Next]_vars
             PROVE  [Slots!Next]_<<Phase, socket>>
  OBVIOUS
<1>0. /\ status \in [Sessions -> {"Free", "Active", "Closing"}]
      /\ socket \in [Sessions -> Fds \cup {NoFd}]
      /\ linked \in SUBSET Sessions
  BY DEF TypeOK
<1>1. ASSUME UNCHANGED <<status, socket>> PROVE UNCHANGED <<Phase, socket>>
  BY <1>1 DEF Phase
<1>2. CASE Quiet
  BY <1>1, <1>2, QuietSlots
<1>3. ASSUME NEW s \in Sessions, HandleAccept(s)
      PROVE  UNCHANGED <<Phase, socket>> \/ \E fd \in Fds : Slots!Open(s, fd)
  <2>. DEFINE fd == Head(cq).fd
  <2>1. /\ Head(cq) \in Cqes /\ Head(cq).op = "accept"
        /\ Tally(cq, AcceptOf(fd)) = Tally(cq', AcceptOf(fd)) + One(Head(cq), AcceptOf(fd))
        /\ Tally(cq', AcceptOf(fd)) \in Nat
    BY <1>3, HandlingTakes, TakenOff DEF AcceptOf, AcceptEnd
  <2>2. fd \in Fds /\ One(Head(cq), AcceptOf(fd)) = 1
    BY <2>1, EntryFields DEF One, AcceptOf
  <2>3. CASE UNCHANGED <<status, socket>>
    BY <1>1, <2>3
  <2>4. CASE status' = [status EXCEPT ![s] = "Active"] /\ socket' = [socket EXCEPT ![s] = fd]
    <3>. HIDE DEF fd
    <3>1. owner[fd] = Unclaimed
      BY <2>1, <2>2 DEF FdInv
    <3>2. \A r \in Sessions : socket[r] # fd
      BY <1>0, <2>2, <3>1, Marks DEF FdInv
    <3>3. status[s] = "Free"
      BY <1>3 DEF HandleAccept
    <3>4. Phase' = [Phase EXCEPT ![s] = "open"] /\ Phase[s] = "free"
      BY <1>0, <2>2, <2>4, <3>3, Marks DEF Phase
    <3>. QED
      BY <2>2, <2>4, <3>2, <3>4 DEF Slots!Open
  <2>. QED
    BY <1>3, <2>3, <2>4 DEF HandleAccept
<1>4. ASSUME NEW s \in Sessions, Serves(s)
      PROVE  UNCHANGED <<Phase, socket>> \/ Slots!Shut(s)
  <2>1. /\ status[s] = "Active"
        /\ status' = status \/ status' = [status EXCEPT ![s] = "Closing"]
        /\ Close(s) \/ KeepOpen
    BY <1>4, ServedSlot
  <2>2. \A r \in Sessions : status'[r] = "Free" <=> status[r] = "Free"
    BY <1>0, <2>1
  <2>3. CASE KeepOpen
    BY <1>0, <2>2, <2>3 DEF KeepOpen, Phase
  <2>. QED
    BY <2>1, <2>2, <2>3, ShutOrNothing
<1>5. ASSUME NEW s \in Sessions, HandleInactive(s)
      PROVE  UNCHANGED <<Phase, socket>> \/ \E S \in SUBSET Sessions : Slots!Return(S)
  <2>1. (Free(s) /\ status[s] # "Free") \/ UNCHANGED <<status, socket>>
    BY <1>5 DEF HandleInactive
  <2>. QED
    BY <1>1, <2>1, FreeReturns
<1>6. ASSUME NEW s \in Sessions, Expire(s)
      PROVE  \/ UNCHANGED <<Phase, socket>> \/ Slots!Shut(s)
             \/ \E S \in SUBSET Sessions : Slots!Return(S)
  <2>1. status[s] # "Free"
    BY <1>6 DEF Expire, WheelInv
  <2>2. CASE Free(s)
    BY <2>1, <2>2, FreeReturns
  <2>3. CASE Close(s) /\ SetClosing(s)
    <3>1. \A r \in Sessions : status'[r] = "Free" <=> status[r] = "Free"
      BY <1>0, <2>1, <2>3 DEF SetClosing
    <3>. QED
      BY <2>1, <2>3, <3>1, ShutOrNothing
  <2>. QED
    BY <1>6, <2>2, <2>3 DEF Expire
<1>. QED
  BY <1>2, <1>3, <1>4, <1>5, <1>6, StepKinds DEF Slots!Next

(* The io_uring build gives out and takes back slots and descriptors in    *)
(* the same order as the epoll build: every behaviour is one of            *)
(* SlotLifecycle.                                                          *)
THEOREM SlotRefinement == Spec => SlotsKept
<1>1. Init => Slots!Init
  BY DEF Init, Slots!Init, Phase
<1>. QED
  BY <1>1, TypeCorrect, FdInit, WheelStep, FdStep, SlotStep, PTL
     DEF Spec, SlotsKept, Slots!Spec, Slots!slotVars

-----------------------------------------------------------------------------
(***************************************************************************)
(* Operations of a session that are not over.                              *)
(***************************************************************************)

EntryOf(op, s) == {e \in Sqes \cup Cqes : e.op = op /\ e.s = s}

Out(op, s) ==
    Tally(prep, EntryOf(op, s)) + Tally(sq, EntryOf(op, s)) + Tally(cq, EntryOf(op, s))

Reads(s) == Out("recv", s) + recvs[s]
InHand(s) == Len(sends[s])
Writes(s) == Out("send", s) + InHand(s)
Zeros(s) == Tally(cq, EntryOf("notif", s)) + notifs[s]

(* Tallies of a ring count what Count counts.                              *)
LEMMA CountTally ==
    ASSUME NEW q \in Seq(Sqes \cup Cqes), NEW op, NEW s
    PROVE  Count(q, op, s) = Tally(q, EntryOf(op, s))
<1>1. \A i \in DOMAIN q : q[i] \in Sqes \cup Cqes
  OBVIOUS
<1>2. {i \in DOMAIN q : q[i].op = op /\ q[i].s = s} = Places(q, EntryOf(op, s))
  BY <1>1 DEF Places, EntryOf
<1>. QED
  BY <1>2 DEF Count, Tally

(* What is out, as the properties count it and as the proofs do.           *)
LEMMA OutTallies ==
    ASSUME TypeOK, NEW s \in Sessions
    PROVE  RecvsOut(s) = Reads(s) /\ SendsOut(s) = Writes(s) /\ NotifsOut(s) = Zeros(s)
<1>. DEFINE T == Sqes \cup Cqes
<1>1. prep \in Seq(T) /\ sq \in Seq(T) /\ cq \in Seq(T)
  <2>1. prep \in Seq(Sqes) /\ sq \in Seq(Sqes) /\ cq \in Seq(Cqes)
    BY DEF TypeOK
  <2>. QED
    BY <2>1
<1>. HIDE DEF T
<1>2. prep \o sq \in Seq(T) /\ (prep \o sq) \o cq \in Seq(T)
  BY <1>1
<1>3. \A S : /\ Tally(prep \o sq, S) = Tally(prep, S) + Tally(sq, S)
             /\ Tally((prep \o sq) \o cq, S) = Tally(prep \o sq, S) + Tally(cq, S)
  BY <1>1, <1>2, TallyConcat
<1>4. \A op : Count((prep \o sq) \o cq, op, s) = Out(op, s)
  BY <1>2, <1>3, CountTally DEF T, Out
<1>5. Count(cq, "notif", s) = Tally(cq, EntryOf("notif", s))
  BY <1>1, CountTally DEF T
<1>. QED
  BY <1>4, <1>5 DEF RecvsOut, SendsOut, NotifsOut, Reads, Writes, Zeros, InHand

(* Whether an entry counts.                                                *)
LEMMA OneOf ==
    ASSUME NEW e \in Sqes \cup Cqes, NEW op, NEW s
    PROVE  One(e, EntryOf(op, s)) = IF e.op = op /\ e.s = s THEN 1 ELSE 0
  BY DEF One, EntryOf

(* Every number is a natural.                                              *)
LEMMA OutTypes ==
    ASSUME TypeOK, NEW s \in Sessions
    PROVE  /\ \A op : Out(op, s) \in Nat
           /\ recvs[s] \in Nat /\ InHand(s) \in Nat /\ notifs[s] \in Nat
           /\ Reads(s) \in Nat /\ Writes(s) \in Nat /\ Zeros(s) \in Nat
<1>1. \A S : Tally(prep, S) \in Nat /\ Tally(sq, S) \in Nat /\ Tally(cq, S) \in Nat
  BY TallyTypes
<1>2. recvs[s] \in Nat /\ InHand(s) \in Nat /\ notifs[s] \in Nat
  BY DEF TypeOK, InHand
<1>3. \A op : Out(op, s) \in Nat
  BY <1>1 DEF Out
<1>4. Reads(s) \in Nat /\ Writes(s) \in Nat
  BY <1>2, <1>3 DEF Reads, Writes
<1>5. Zeros(s) \in Nat
  BY <1>1, <1>2 DEF Zeros
<1>. QED
  BY <1>2, <1>3, <1>4, <1>5

(* A completion handled and entries prepared: what is out afterwards.      *)
LEMMA OutHandled ==
    ASSUME TypeOK, NEW op, Takes(op), UNCHANGED <<sq, kernelVars>>,
           NEW s \in Sessions, NEW r \in Nat, NEW w \in Nat,
           Tally(prep', EntryOf("recv", s)) = Tally(prep, EntryOf("recv", s)) + r,
           Tally(prep', EntryOf("send", s)) = Tally(prep, EntryOf("send", s)) + w
    PROVE  LET mine(k) == IF op = k /\ Head(cq).s = s THEN 1 ELSE 0 IN
           /\ Reads(s)' = Reads(s) + r - mine("recv")
           /\ Writes(s)' = Writes(s) + w - mine("send")
           /\ Zeros(s)' = Zeros(s) - mine("notif")
           /\ Reads(s)' \in Nat /\ Writes(s)' \in Nat /\ Zeros(s)' \in Nat
           /\ Reads(s) >= mine("recv")
<1>. DEFINE Kinds == {"recv", "send", "notif"}
<1>1. Head(cq) \in Cqes /\ Head(cq).op = op
  BY HeadIn DEF Takes, TypeOK
<1>2. \A k \in Kinds :
          /\ Tally(cq, EntryOf(k, s)) =
                Tally(cq', EntryOf(k, s)) + (IF op = k /\ Head(cq).s = s THEN 1 ELSE 0)
          /\ Tally(cq', EntryOf(k, s)) \in Nat
  <2>0. \A k \in Kinds : AcceptEnd \notin EntryOf(k, s)
    BY DEF EntryOf, AcceptEnd
  <2>1. \A k \in Kinds :
          /\ Tally(cq, EntryOf(k, s)) = Tally(cq', EntryOf(k, s)) + One(Head(cq), EntryOf(k, s))
          /\ Tally(cq', EntryOf(k, s)) \in Nat
    BY <2>0, TakenOff
  <2>2. \A k : One(Head(cq), EntryOf(k, s)) = IF Head(cq).op = k /\ Head(cq).s = s THEN 1 ELSE 0
    BY <1>1, OneOf
  <2>. QED
    BY <1>1, <2>1, <2>2
<1>3. recvs' = recvs /\ InHand(s)' = InHand(s) /\ notifs' = notifs /\ sq' = sq
  BY DEF kernelVars, InHand
<1>4. \A S : Tally(prep, S) \in Nat /\ Tally(sq, S) \in Nat
  BY TallyTypes
<1>5. recvs[s] \in Nat /\ InHand(s) \in Nat /\ notifs[s] \in Nat
  BY OutTypes
<1>6. /\ Reads(s)' = Reads(s) + r - (IF op = "recv" /\ Head(cq).s = s THEN 1 ELSE 0)
      /\ Reads(s)' \in Nat
      /\ Reads(s) >= (IF op = "recv" /\ Head(cq).s = s THEN 1 ELSE 0)
  <2>. DEFINE S == EntryOf("recv", s)
  <2>1. /\ Tally(cq, S) = Tally(cq', S) + (IF op = "recv" /\ Head(cq).s = s THEN 1 ELSE 0)
        /\ Tally(cq', S) \in Nat /\ Tally(prep, S) \in Nat /\ Tally(sq, S) \in Nat
    BY <1>2, <1>4
  <2>2. Tally(prep', S) = Tally(prep, S) + r
    OBVIOUS
  <2>3. /\ Reads(s) = Tally(prep, S) + Tally(sq, S) + Tally(cq, S) + recvs[s]
        /\ Reads(s)' = Tally(prep', S) + Tally(sq, S) + Tally(cq', S) + recvs[s]
    BY <1>3 DEF Reads, Out
  <2>. HIDE DEF S
  <2>. QED
    BY <1>5, <2>1, <2>2, <2>3
<1>7. /\ Writes(s)' = Writes(s) + w - (IF op = "send" /\ Head(cq).s = s THEN 1 ELSE 0)
      /\ Writes(s)' \in Nat
  <2>. DEFINE S == EntryOf("send", s)
  <2>1. /\ Tally(cq, S) = Tally(cq', S) + (IF op = "send" /\ Head(cq).s = s THEN 1 ELSE 0)
        /\ Tally(cq', S) \in Nat /\ Tally(prep, S) \in Nat /\ Tally(sq, S) \in Nat
    BY <1>2, <1>4
  <2>2. Tally(prep', S) = Tally(prep, S) + w
    OBVIOUS
  <2>3. /\ Writes(s) = Tally(prep, S) + Tally(sq, S) + Tally(cq, S) + InHand(s)
        /\ Writes(s)' = Tally(prep', S) + Tally(sq, S) + Tally(cq', S) + InHand(s)
    BY <1>3 DEF Writes, Out
  <2>. HIDE DEF S
  <2>. QED
    BY <1>5, <2>1, <2>2, <2>3
<1>8. /\ Zeros(s)' = Zeros(s) - (IF op = "notif" /\ Head(cq).s = s THEN 1 ELSE 0)
      /\ Zeros(s)' \in Nat
  BY <1>2, <1>3, <1>5 DEF Zeros
<1>. QED
  BY <1>6, <1>7, <1>8

(* The same when nothing is prepared.                                      *)
LEMMA OutOnlyHandled ==
    ASSUME TypeOK, NEW op, Takes(op), UNCHANGED <<prep, sq, kernelVars>>,
           NEW s \in Sessions
    PROVE  LET mine(k) == IF op = k /\ Head(cq).s = s THEN 1 ELSE 0 IN
           /\ Reads(s)' = Reads(s) - mine("recv")
           /\ Writes(s)' = Writes(s) - mine("send")
           /\ Zeros(s)' = Zeros(s) - mine("notif")
           /\ Reads(s)' \in Nat /\ Writes(s)' \in Nat /\ Zeros(s)' \in Nat
           /\ Reads(s) >= mine("recv")
<1>1. /\ Tally(prep', EntryOf("recv", s)) = Tally(prep, EntryOf("recv", s)) + 0
      /\ Tally(prep', EntryOf("send", s)) = Tally(prep, EntryOf("send", s)) + 0
  BY TallyTypes
<1>. DEFINE mine(k) == IF op = k /\ Head(cq).s = s THEN 1 ELSE 0
<1>2. /\ Reads(s)' = Reads(s) + 0 - mine("recv")
      /\ Writes(s)' = Writes(s) + 0 - mine("send")
      /\ Zeros(s)' = Zeros(s) - mine("notif")
      /\ Reads(s)' \in Nat /\ Writes(s)' \in Nat /\ Zeros(s)' \in Nat
      /\ Reads(s) >= mine("recv")
  BY <1>1, OutHandled
<1>. QED
  BY <1>2, OutTypes

(* What is out, from what becomes of the rings and of the kernel's hands.  *)
LEMMA ReadsParts ==
    ASSUME TypeOK, NEW s \in Sessions, NEW a \in Int, NEW b \in Int, NEW c \in Int, NEW d \in Int,
           Tally(prep', EntryOf("recv", s)) = Tally(prep, EntryOf("recv", s)) + a,
           Tally(sq', EntryOf("recv", s)) = Tally(sq, EntryOf("recv", s)) + b,
           Tally(cq', EntryOf("recv", s)) = Tally(cq, EntryOf("recv", s)) + c,
           recvs'[s] = recvs[s] + d
    PROVE  Reads(s)' = Reads(s) + (a + b + c + d)
<1>. DEFINE S == EntryOf("recv", s)
<1>1. Tally(prep, S) \in Nat /\ Tally(sq, S) \in Nat /\ Tally(cq, S) \in Nat
  BY TallyTypes
<1>2. recvs[s] \in Nat
  BY OutTypes
<1>3. /\ Reads(s) = Tally(prep, S) + Tally(sq, S) + Tally(cq, S) + recvs[s]
      /\ Reads(s)' = Tally(prep', S) + Tally(sq', S) + Tally(cq', S) + recvs'[s]
  BY DEF Reads, Out
<1>4. \A p, q, r, x \in Int :
        (p + a) + (q + b) + (r + c) + (x + d) = (p + q + r + x) + (a + b + c + d)
  OBVIOUS
<1>5. /\ Tally(prep', S) = Tally(prep, S) + a
      /\ Tally(sq', S) = Tally(sq, S) + b
      /\ Tally(cq', S) = Tally(cq, S) + c
      /\ recvs'[s] = recvs[s] + d
  OBVIOUS
<1>. HIDE DEF S
<1>. QED
  BY <1>1, <1>2, <1>3, <1>4, <1>5

(* The writes under way move with the tallies they are the sum of.         *)
LEMMA WritesParts ==
    ASSUME TypeOK, NEW s \in Sessions, NEW a \in Int, NEW b \in Int, NEW c \in Int, NEW d \in Int,
           Tally(prep', EntryOf("send", s)) = Tally(prep, EntryOf("send", s)) + a,
           Tally(sq', EntryOf("send", s)) = Tally(sq, EntryOf("send", s)) + b,
           Tally(cq', EntryOf("send", s)) = Tally(cq, EntryOf("send", s)) + c,
           InHand(s)' = InHand(s) + d
    PROVE  Writes(s)' = Writes(s) + (a + b + c + d)
<1>. DEFINE S == EntryOf("send", s)
<1>1. Tally(prep, S) \in Nat /\ Tally(sq, S) \in Nat /\ Tally(cq, S) \in Nat
  BY TallyTypes
<1>2. InHand(s) \in Nat
  BY OutTypes
<1>3. /\ Writes(s) = Tally(prep, S) + Tally(sq, S) + Tally(cq, S) + InHand(s)
      /\ Writes(s)' = Tally(prep', S) + Tally(sq', S) + Tally(cq', S) + InHand(s)'
  BY DEF Writes, Out
<1>4. \A p, q, r, x \in Int :
        (p + a) + (q + b) + (r + c) + (x + d) = (p + q + r + x) + (a + b + c + d)
  OBVIOUS
<1>5. /\ Tally(prep', S) = Tally(prep, S) + a
      /\ Tally(sq', S) = Tally(sq, S) + b
      /\ Tally(cq', S) = Tally(cq, S) + c
      /\ InHand(s)' = InHand(s) + d
  OBVIOUS
<1>. HIDE DEF S
<1>. QED
  BY <1>1, <1>2, <1>3, <1>4, <1>5

(* A ring that is left alone keeps its tallies.                            *)
LEMMA Untouched ==
    ASSUME TypeOK, NEW S
    PROVE  /\ prep' = prep => Tally(prep', S) = Tally(prep, S) + 0
           /\ sq' = sq => Tally(sq', S) = Tally(sq, S) + 0
           /\ cq' = cq => Tally(cq', S) = Tally(cq, S) + 0
  BY TallyTypes

(* io_uring_submit changes nothing of what is out.                         *)
LEMMA OutPublished ==
    ASSUME TypeOK, sq' = sq \o prep, prep' = <<>>, UNCHANGED <<cq, kernelVars>>,
           NEW s \in Sessions
    PROVE  Reads(s)' = Reads(s) /\ Writes(s)' = Writes(s) /\ Zeros(s)' = Zeros(s)
<1>0. recvs' = recvs /\ sends' = sends /\ notifs' = notifs /\ cq' = cq
  BY DEF kernelVars
<1>1. \A S : \E n \in Nat, m \in Int :
        /\ m + n + 0 + 0 = 0
        /\ Tally(prep', S) = Tally(prep, S) + m /\ Tally(sq', S) = Tally(sq, S) + n
        /\ Tally(cq', S) = Tally(cq, S) + 0
  <2>. SUFFICES ASSUME NEW S
               PROVE  \E n \in Nat, m \in Int :
                        /\ m + n + 0 + 0 = 0
                        /\ Tally(prep', S) = Tally(prep, S) + m
                        /\ Tally(sq', S) = Tally(sq, S) + n
                        /\ Tally(cq', S) = Tally(cq, S) + 0
    OBVIOUS
  <2>. DEFINE n == Tally(prep, S)
  <2>1. n \in Nat /\ 0 - n \in Int /\ (0 - n) + n + 0 + 0 = 0 /\ n + (0 - n) = 0
    BY TallyTypes
  <2>2. Tally(prep', S) = 0 /\ Tally(sq', S) = Tally(sq, S) + n /\ Tally(cq', S) = Tally(cq, S) + 0
    BY <1>0, Published, TallyTypes
  <2>. QED
    BY <2>1, <2>2
<1>2. recvs'[s] = recvs[s] + 0 /\ InHand(s)' = InHand(s) + 0
  BY <1>0, OutTypes DEF InHand
<1>3. Reads(s)' = Reads(s)
  <2>1. PICK n \in Nat, m \in Int :
          /\ m + n + 0 + 0 = 0
          /\ Tally(prep', EntryOf("recv", s)) = Tally(prep, EntryOf("recv", s)) + m
          /\ Tally(sq', EntryOf("recv", s)) = Tally(sq, EntryOf("recv", s)) + n
          /\ Tally(cq', EntryOf("recv", s)) = Tally(cq, EntryOf("recv", s)) + 0
    BY <1>1
  <2>2. 0 \in Int /\ n \in Int /\ recvs'[s] = recvs[s] + 0
    BY <1>2
  <2>3. Reads(s)' = Reads(s) + (m + n + 0 + 0)
    BY <2>1, <2>2, ReadsParts, ZenonT(30)
  <2>. QED
    BY <2>1, <2>3, OutTypes
<1>4. Writes(s)' = Writes(s)
  <2>1. PICK n \in Nat, m \in Int :
          /\ m + n + 0 + 0 = 0
          /\ Tally(prep', EntryOf("send", s)) = Tally(prep, EntryOf("send", s)) + m
          /\ Tally(sq', EntryOf("send", s)) = Tally(sq, EntryOf("send", s)) + n
          /\ Tally(cq', EntryOf("send", s)) = Tally(cq, EntryOf("send", s)) + 0
    BY <1>1
  <2>2. Writes(s)' = Writes(s) + (m + n + 0 + 0)
    BY <1>2, <2>1, WritesParts
  <2>. QED
    BY <2>1, <2>2, OutTypes
<1>5. Zeros(s)' = Zeros(s)
  BY <1>0 DEF Zeros
<1>. QED
  BY <1>3, <1>4, <1>5

(* A completion posted, and what the kernel has in hand changed.           *)
LEMMA OutPosted ==
    ASSUME TypeOK, NEW c \in Cqes, Post(c), UNCHANGED <<prep, sq>>, NEW s \in Sessions,
           recvs'[s] \in Int, InHand(s)' \in Int, notifs'[s] \in Int
    PROVE  LET one(k) == IF c.op = k /\ c.s = s THEN 1 ELSE 0 IN
           /\ Reads(s)' = Reads(s) + one("recv") + (recvs'[s] - recvs[s])
           /\ Writes(s)' = Writes(s) + one("send") + (InHand(s)' - InHand(s))
           /\ Zeros(s)' = Zeros(s) + one("notif") + (notifs'[s] - notifs[s])
<1>. DEFINE one(k) == IF c.op = k /\ c.s = s THEN 1 ELSE 0
<1>1. \A k : Tally(cq', EntryOf(k, s)) = Tally(cq, EntryOf(k, s)) + one(k)
  <2>1. \A S : Tally(cq', S) = Tally(cq, S) + One(c, S)
    BY Posted
  <2>2. \A k : One(c, EntryOf(k, s)) = one(k)
    BY OneOf
  <2>. QED
    BY <2>1, <2>2
<1>2. \A k : one(k) \in Int
  OBVIOUS
<1>3. \A S : Tally(prep, S) \in Nat /\ Tally(sq, S) \in Nat /\ Tally(cq, S) \in Nat
  BY TallyTypes
<1>4. recvs[s] \in Int /\ InHand(s) \in Int /\ notifs[s] \in Int
  BY OutTypes
<1>. HIDE DEF one
<1>5. \A k : Out(k, s)' = Out(k, s) + one(k) /\ Out(k, s) \in Int
  BY <1>1, <1>2, <1>3 DEF Out
<1>6. Reads(s)' = Reads(s) + one("recv") + (recvs'[s] - recvs[s])
  BY <1>2, <1>4, <1>5 DEF Reads
<1>7. Writes(s)' = Writes(s) + one("send") + (InHand(s)' - InHand(s))
  BY <1>2, <1>4, <1>5 DEF Writes
<1>8. Zeros(s)' = Zeros(s) + one("notif") + (notifs'[s] - notifs[s])
  BY <1>1, <1>2, <1>3, <1>4 DEF Zeros
<1>. QED
  BY <1>6, <1>7, <1>8 DEF one

(* Whatever the kernel does, each operation stays out until it is handled. *)
LEMMA QuietOut ==
    ASSUME TypeOK, Quiet, ~LoopExit, NEW s \in Sessions
    PROVE  /\ Reads(s)' = Reads(s) /\ Writes(s)' = Writes(s)
           /\ Zeros(s)' >= Zeros(s) /\ Zeros(s)' \in Nat
<1>0. /\ Reads(s) \in Nat /\ Writes(s) \in Nat /\ Zeros(s) \in Nat
      /\ recvs[s] \in Nat /\ InHand(s) \in Nat /\ notifs[s] \in Nat
  BY OutTypes
<1>. DEFINE Same == Reads(s)' = Reads(s) /\ Writes(s)' = Writes(s) /\ Zeros(s)' = Zeros(s)
<1>1. CASE FlushFull \/ Submit
  BY <1>0, <1>1, OutPublished DEF FlushFull, Submit
<1>2. CASE HandleNop
  <2>0. Handling("nop") /\ UNCHANGED <<prep, sq, kernelVars>>
    BY <1>2 DEF HandleNop
  <2>1. /\ Reads(s)' = Reads(s) - 0
        /\ Writes(s)' = Writes(s) - 0
        /\ Zeros(s)' = Zeros(s) - 0
    BY <2>0, HandlingTakes, OutOnlyHandled
  <2>. QED
    BY <1>0, <2>1
<1>3. CASE HandleAcceptEnd
  <2>1. \A k \in {"recv", "send"} :
          Tally(prep', EntryOf(k, s)) = Tally(prep, EntryOf(k, s)) + 0
    <3>1. CASE prep' = Append(prep, Accept)
      <4>1. \A S : Tally(prep', S) = Tally(prep, S) + One(Accept, S)
        BY <3>1, EntryTypes, Prepared
      <4>2. \A k \in {"recv", "send"} : One(Accept, EntryOf(k, s)) = 0
        BY EntryTypes, OneOf DEF Accept
      <4>. QED
        BY <4>1, <4>2
    <3>2. CASE prep' = prep
      BY <3>2, Untouched
    <3>. QED
      BY <1>3, <3>1, <3>2 DEF HandleAcceptEnd
  <2>2. Handling("acceptEnd") /\ UNCHANGED <<sq, kernelVars>>
    BY <1>3 DEF HandleAcceptEnd
  <2>3. /\ Reads(s)' = Reads(s) + 0 - 0
        /\ Writes(s)' = Writes(s) + 0 - 0
        /\ Zeros(s)' = Zeros(s) - 0
    BY <2>1, <2>2, HandlingTakes, OutHandled
  <2>. QED
    BY <1>0, <2>3
<1>4. ASSUME NEW c \in Cqes, Post(c), c.op \notin {"recv", "send", "notif"},
             UNCHANGED <<prep, sq, recvs, sends, notifs>>
      PROVE  Same
  <2>1. recvs'[s] = recvs[s] /\ InHand(s)' = InHand(s) /\ notifs'[s] = notifs[s]
    BY <1>4 DEF InHand
  <2>2. /\ Reads(s)' = Reads(s) + 0 + (recvs'[s] - recvs[s])
        /\ Writes(s)' = Writes(s) + 0 + (InHand(s)' - InHand(s))
        /\ Zeros(s)' = Zeros(s) + 0 + (notifs'[s] - notifs[s])
    BY <1>0, <1>4, <2>1, OutPosted
  <2>. QED
    BY <1>0, <2>1, <2>2
<1>5. CASE AcceptFails
  <2>1. UNCHANGED <<prep, sq, recvs, sends, notifs>>
    BY <1>5 DEF AcceptFails, workerVars
  <2>2. Same
    BY <1>4, <1>5, <2>1, KernelPosts
  <2>. QED
    BY <1>0, <2>2
<1>6. ASSUME NEW fd \in Fds, NEW more \in BOOLEAN, AcceptDone(fd, more) PROVE Same
  <2>1. UNCHANGED <<prep, sq, recvs, sends, notifs>>
    BY <1>6 DEF AcceptDone, workerVars
  <2>2. /\ Post([op |-> "accept", fd |-> fd, more |-> more])
        /\ [op |-> "accept", fd |-> fd, more |-> more] \in Cqes
    BY <1>6, EntryTypes DEF AcceptDone
  <2>. QED
    BY <1>4, <2>1, <2>2
<1>7. ASSUME NEW r \in Sessions, Notify(r) PROVE Same
  <2>1. PICK c \in Cqes : Post(c) /\ c = [op |-> "notif", s |-> r]
    BY <1>7, KernelPosts
  <2>2. /\ UNCHANGED <<prep, sq, recvs, sends>>
        /\ notifs \in [Sessions -> Nat] /\ notifs' = [notifs EXCEPT ![r] = @ - 1]
    BY <1>7 DEF Notify, workerVars, TypeOK
  <2>3. /\ recvs'[s] = recvs[s] /\ InHand(s)' = InHand(s)
        /\ notifs'[s] = IF s = r THEN notifs[s] - 1 ELSE notifs[s]
    BY <2>2 DEF InHand
  <2>4. /\ Reads(s)' = Reads(s) + 0 + (recvs'[s] - recvs[s])
        /\ Writes(s)' = Writes(s) + 0 + (InHand(s)' - InHand(s))
        /\ Zeros(s)' = Zeros(s) + (IF r = s THEN 1 ELSE 0) + (notifs'[s] - notifs[s])
    BY <1>0, <2>1, <2>2, <2>3, OutPosted
  <2>. QED
    BY <1>0, <2>3, <2>4
<1>8. ASSUME NEW r \in Sessions, NEW ok \in BOOLEAN, RecvDone(r, ok) PROVE Same
  <2>1. PICK c \in Cqes : Post(c) /\ c = [op |-> "recv", s |-> r, ok |-> ok]
    BY <1>8, KernelPosts
  <2>2. /\ UNCHANGED <<prep, sq, sends, notifs>>
        /\ recvs \in [Sessions -> Nat] /\ recvs' = [recvs EXCEPT ![r] = @ - 1]
    BY <1>8 DEF RecvDone, workerVars, TypeOK
  <2>3. /\ notifs'[s] = notifs[s] /\ InHand(s)' = InHand(s)
        /\ recvs'[s] = IF s = r THEN recvs[s] - 1 ELSE recvs[s]
    BY <2>2 DEF InHand
  <2>4. /\ Zeros(s)' = Zeros(s) + 0 + (notifs'[s] - notifs[s])
        /\ Writes(s)' = Writes(s) + 0 + (InHand(s)' - InHand(s))
        /\ Reads(s)' = Reads(s) + (IF r = s THEN 1 ELSE 0) + (recvs'[s] - recvs[s])
    BY <1>0, <2>1, <2>2, <2>3, OutPosted
  <2>. QED
    BY <1>0, <2>3, <2>4
<1>9. ASSUME NEW r \in Sessions, NEW n \in 0 .. MaxUnits, SendDone(r, n)
      PROVE  /\ Reads(s)' = Reads(s) /\ Writes(s)' = Writes(s)
             /\ Zeros(s)' >= Zeros(s) /\ Zeros(s)' \in Nat
  <2>1. PICK c \in Cqes : /\ Post(c)
                          /\ c = [op |-> "send", s |-> r, ok |-> n > 0, n |-> n, more |-> TRUE]
    BY <1>9, KernelPosts
  <2>2. /\ UNCHANGED <<prep, sq, recvs>> /\ notifs' = [notifs EXCEPT ![r] = @ + 1]
        /\ sends' = [sends EXCEPT ![r] = Tail(@)] /\ sends[r] # <<>>
    BY <1>9 DEF SendDone
  <2>3. InHand(s)' = IF s = r THEN InHand(s) - 1 ELSE InHand(s)
    <3>1. sends \in [Sessions -> SendQueue]
      BY TypeParts DEF KernelTypes
    <3>2. Len(Tail(sends[r])) = Len(sends[r]) - 1
      BY <2>2, <3>1, HeadIn DEF SendQueue
    <3>. QED
      BY <2>2, <3>1, <3>2 DEF InHand
  <2>4. /\ recvs'[s] = recvs[s]
        /\ notifs'[s] = IF s = r THEN notifs[s] + 1 ELSE notifs[s]
    <3>1. notifs \in [Sessions -> Nat]
      BY DEF TypeOK
    <3>. QED
      BY <2>2, <3>1
  <2>5. /\ Reads(s)' = Reads(s) + 0 + (recvs'[s] - recvs[s])
        /\ Writes(s)' = Writes(s) + (IF r = s THEN 1 ELSE 0) + (InHand(s)' - InHand(s))
        /\ Zeros(s)' = Zeros(s) + 0 + (notifs'[s] - notifs[s])
    <3>1. Post(c) /\ c.op = "send" /\ c.s = r /\ UNCHANGED <<prep, sq>>
      BY <2>1, <2>2
    <3>2. recvs'[s] \in Int /\ InHand(s)' \in Int /\ notifs'[s] \in Int
      BY <1>0, <2>3, <2>4
    <3>. QED
      BY <3>1, <3>2, OutPosted
  <2>. QED
    BY <1>0, <2>3, <2>4, <2>5
<1>10. CASE UNCHANGED vars
  BY <1>0, <1>10 DEF vars, workerVars, kernelVars, Reads, Writes, Zeros, Out, InHand
<1>11. CASE TakeSqe
  <2>. DEFINE e == Head(sq)
  <2>1. /\ e \in Sqes
        /\ \A S : Tally(sq, S) = Tally(sq', S) + One(e, S) /\ Tally(sq', S) \in Nat
    BY <1>11, Taken
  <2>2. \A k : One(e, EntryOf(k, s)) = IF e.op = k /\ e.s = s THEN 1 ELSE 0
    BY <2>1, OneOf
  <2>3. UNCHANGED <<prep, notifs>>
    BY <1>11 DEF TakeSqe, workerVars
  <2>4. \A S : Tally(prep, S) \in Nat /\ Tally(sq, S) \in Nat /\ Tally(cq, S) \in Nat
    BY TallyTypes
  <2>5. ASSUME \A k \in {"recv", "send", "notif"} :
                  Tally(cq', EntryOf(k, s)) = Tally(cq, EntryOf(k, s)),
               e.op \notin {"recv", "send"}, UNCHANGED <<recvs, sends>>
        PROVE  Same
    <3>1. \A k \in {"recv", "send"} : Tally(sq', EntryOf(k, s)) = Tally(sq, EntryOf(k, s))
      BY <2>1, <2>2, <2>4, <2>5
    <3>. QED
      BY <2>3, <2>5, <3>1 DEF Reads, Writes, Zeros, Out, InHand
  <2>6. ASSUME UNCHANGED cq
        PROVE  \A S : Tally(cq', S) = Tally(cq, S)
    BY <2>6
  <2>7. ASSUME NEW c \in Cqes, Post(c)
        PROVE  \A k : Tally(cq', EntryOf(k, s)) =
                       Tally(cq, EntryOf(k, s)) + (IF c.op = k /\ c.s = s THEN 1 ELSE 0)
    <3>1. \A S : Tally(cq', S) = Tally(cq, S) + One(c, S)
      BY <2>7, Posted
    <3>2. \A k : One(c, EntryOf(k, s)) = IF c.op = k /\ c.s = s THEN 1 ELSE 0
      BY OneOf
    <3>. QED
      BY <3>1, <3>2
  <2>8. CASE e.op = "nop"
    <3>1. Post(Nop) /\ UNCHANGED <<recvs, sends>> /\ Nop \in Cqes
      BY <1>11, <2>8, EntryTypes DEF TakeSqe
    <3>2. \A k \in {"recv", "send", "notif"} :
            Tally(cq', EntryOf(k, s)) = Tally(cq, EntryOf(k, s)) + 0
      BY <3>1, <2>7 DEF Nop
    <3>. QED
      BY <1>0, <2>4, <2>5, <2>8, <3>1, <3>2
  <2>9. CASE e.op = "accept"
    <3>1. UNCHANGED <<cq, recvs, sends>>
      BY <1>11, <2>9 DEF TakeSqe
    <3>. QED
      BY <1>0, <2>5, <2>6, <2>9, <3>1
  <2>10. CASE e.op = "recv"
    <3>. DEFINE c == [op |-> "recv", s |-> e.s, ok |-> FALSE]
                x == IF e.s = s THEN 1 ELSE 0
    <3>1. sends' = sends /\ e.s \in Sessions /\ c \in Cqes
      BY <1>11, <2>1, <2>10, EntryFields, EntryTypes DEF TakeSqe
    <3>2. \/ Post(c) /\ recvs' = recvs
          \/ cq' = cq /\ recvs' = [recvs EXCEPT ![e.s] = @ + 1]
      BY <1>11, <2>10 DEF TakeSqe
    <3>3. Tally(sq, EntryOf("recv", s)) = Tally(sq', EntryOf("recv", s)) + x
          /\ Tally(sq, EntryOf("send", s)) = Tally(sq', EntryOf("send", s)) + 0
          /\ Tally(sq', EntryOf("recv", s)) \in Nat /\ Tally(sq', EntryOf("send", s)) \in Nat
      BY <2>1, <2>2, <2>10
    <3>4. /\ Tally(cq', EntryOf("recv", s)) + recvs'[s] =
               Tally(cq, EntryOf("recv", s)) + recvs[s] + x
          /\ Tally(cq', EntryOf("send", s)) = Tally(cq, EntryOf("send", s))
          /\ Tally(cq', EntryOf("notif", s)) = Tally(cq, EntryOf("notif", s))
          /\ Tally(cq', EntryOf("recv", s)) \in Nat /\ recvs'[s] \in Nat
      <4>1. CASE Post(c) /\ recvs' = recvs
        <5>1. /\ Tally(cq', EntryOf("recv", s)) = Tally(cq, EntryOf("recv", s)) + x
              /\ Tally(cq', EntryOf("send", s)) = Tally(cq, EntryOf("send", s)) + 0
              /\ Tally(cq', EntryOf("notif", s)) = Tally(cq, EntryOf("notif", s)) + 0
          BY <2>7, <3>1, <4>1
        <5>. QED
          BY <1>0, <2>4, <4>1, <5>1
      <4>2. CASE cq' = cq /\ recvs' = [recvs EXCEPT ![e.s] = @ + 1]
        <5>1. recvs'[s] = recvs[s] + x
          <6>1. recvs \in [Sessions -> Nat]
            BY DEF TypeOK
          <6>. QED
            BY <1>0, <3>1, <4>2, <6>1
        <5>. QED
          BY <1>0, <2>4, <2>6, <4>2, <5>1
      <4>. QED
        BY <3>2, <4>1, <4>2
    <3>5. Reads(s)' = Reads(s)
      <4>1. x \in Nat
        OBVIOUS
      <4>. HIDE DEF x
      <4>. QED
        BY <4>1, <1>0, <2>3, <2>4, <3>3, <3>4 DEF Reads, Out
    <3>. QED
      BY <1>0, <2>3, <2>4, <3>1, <3>3, <3>4, <3>5 DEF Writes, Zeros, Out, InHand
  <2>11. CASE e.op = "send"
    <3>. DEFINE c == [op |-> "send", s |-> e.s, ok |-> FALSE, n |-> 0, more |-> FALSE]
                x == IF e.s = s THEN 1 ELSE 0
    <3>0. e.s \in Sessions /\ 0 \in 0 .. MaxUnits
      BY <2>1, <2>11, EntryFields, Sizes
    <3>1. recvs' = recvs /\ c \in Cqes
      BY <1>11, <2>11, <3>0, EntryTypes DEF TakeSqe
    <3>2. \/ Post(c) /\ sends' = sends
          \/ cq' = cq /\ sends' = [sends EXCEPT ![e.s] = Append(@, [from |-> e.from, to |-> e.to])]
      BY <1>11, <2>11 DEF TakeSqe
    <3>3. Tally(sq, EntryOf("send", s)) = Tally(sq', EntryOf("send", s)) + x
          /\ Tally(sq, EntryOf("recv", s)) = Tally(sq', EntryOf("recv", s)) + 0
          /\ Tally(sq', EntryOf("recv", s)) \in Nat /\ Tally(sq', EntryOf("send", s)) \in Nat
      BY <2>1, <2>2, <2>11
    <3>4. /\ Tally(cq', EntryOf("send", s)) + InHand(s)' =
               Tally(cq, EntryOf("send", s)) + InHand(s) + x
          /\ Tally(cq', EntryOf("recv", s)) = Tally(cq, EntryOf("recv", s))
          /\ Tally(cq', EntryOf("notif", s)) = Tally(cq, EntryOf("notif", s))
          /\ Tally(cq', EntryOf("send", s)) \in Nat /\ InHand(s)' \in Nat
      <4>1. CASE Post(c) /\ sends' = sends
        <5>1. /\ Tally(cq', EntryOf("send", s)) = Tally(cq, EntryOf("send", s)) + x
              /\ Tally(cq', EntryOf("recv", s)) = Tally(cq, EntryOf("recv", s)) + 0
              /\ Tally(cq', EntryOf("notif", s)) = Tally(cq, EntryOf("notif", s)) + 0
          BY <2>7, <3>1, <4>1
        <5>2. InHand(s)' = InHand(s)
          BY <4>1 DEF InHand
        <5>. QED
          BY <1>0, <2>4, <5>1, <5>2
      <4>2. CASE cq' = cq /\ sends' = [sends EXCEPT ![e.s] = Append(@, [from |-> e.from, to |-> e.to])]
        <5>1. InHand(s)' = InHand(s) + x
          <6>1. sends \in [Sessions -> SendQueue]
            BY TypeParts DEF KernelTypes
          <6>2. Len(Append(sends[e.s], [from |-> e.from, to |-> e.to])) = Len(sends[e.s]) + 1
            BY <3>0, <6>1 DEF SendQueue
          <6>3. CASE e.s = s
            BY <3>0, <4>2, <6>1, <6>2, <6>3 DEF InHand
          <6>4. CASE e.s # s
            BY <1>0, <3>0, <4>2, <6>1, <6>4 DEF InHand
          <6>. QED
            BY <6>3, <6>4
        <5>. QED
          BY <1>0, <2>4, <2>6, <4>2, <5>1
      <4>. QED
        BY <3>2, <4>1, <4>2
    <3>5. Writes(s)' = Writes(s)
      <4>1. x \in Nat
        OBVIOUS
      <4>. HIDE DEF x
      <4>. QED
        BY <4>1, <1>0, <2>3, <2>4, <3>3, <3>4 DEF Writes, Out
    <3>. QED
      BY <1>0, <2>3, <2>4, <3>1, <3>3, <3>4, <3>5 DEF Reads, Zeros, Out
  <2>. QED
    BY <1>0, <2>1, <2>8, <2>9, <2>10, <2>11, EntryFields
<1>. QED
  BY <1>0, <1>1, <1>2, <1>3, <1>4, <1>5, <1>6, <1>7, <1>8, <1>9, <1>10, <1>11 DEF Quiet

(* An entry of session s prepared: what it adds to each session's.         *)
LEMMA PreparedFor ==
    ASSUME TypeOK, NEW e \in Sqes, prep' = Append(prep, e), NEW t, NEW op
    PROVE  Tally(prep', EntryOf(op, t)) =
             Tally(prep, EntryOf(op, t)) + (IF e.op = op /\ e.s = t THEN 1 ELSE 0)
  BY Prepared, OneOf

Bit(b) == IF b THEN 1 ELSE 0

(* Serving a completion of session s: what is out and what the flags say   *)
(* afterwards.  rd and wr: a recv, a send has been prepared.               *)
ServedOut(s, t, rd, wr) ==
    LET c == Head(cq) IN
    /\ rd => c.op = "recv"
    /\ wr => c.op # "send"
    /\ Reads(t)' = Reads(t) + Bit(t = s /\ rd) - Bit(t = s /\ c.op = "recv")
    /\ Writes(t)' = Writes(t) + Bit(t = s /\ wr) - Bit(t = s /\ c.op = "send")
    /\ Zeros(t)' = Zeros(t) - Bit(t = s /\ c.op = "notif")
    /\ Reads(t)' \in Nat /\ Writes(t)' \in Nat /\ Zeros(t)' \in Nat
    /\ Reads(t) >= Bit(t = s /\ c.op = "recv")
    /\ "READING" \in io'[s] <=> rd \/ ("READING" \in io[s] /\ c.op # "recv")
    /\ "WRITING" \in io'[s] <=> wr \/ ("WRITING" \in io[s] /\ c.op # "send")
    /\ "WAITING_ZC" \in io'[s] <=>
          (c.op = "send" /\ c.more) \/ ("WAITING_ZC" \in io[s] /\ c.op # "notif")

(* Each of the handlers of an Active session does that.                    *)
LEMMA ServedEffect ==
    ASSUME TypeOK, NEW s \in Sessions, Serves(s), NEW t \in Sessions
    PROVE  \E rd, wr \in BOOLEAN : ServedOut(s, t, rd, wr)
<1>0. /\ io \in [Sessions -> SUBSET IoFlags]
      /\ Reads(t) \in Nat /\ Writes(t) \in Nat /\ Zeros(t) \in Nat
  BY OutTypes DEF TypeOK
<1>1. CASE HandleReadEnd(s)
  <2>1. Handling("recv") /\ UNCHANGED <<prep, sq, kernelVars>> /\ Head(cq).s = s
        /\ io' = [io EXCEPT ![s] = @ \ {"READING"}] /\ Head(cq).op = "recv"
    BY <1>1 DEF HandleReadEnd, Handling
  <2>2. /\ Reads(t)' = Reads(t) - (IF t = s THEN 1 ELSE 0)
        /\ Writes(t)' = Writes(t) - 0
        /\ Zeros(t)' = Zeros(t) - 0
        /\ Reads(t)' \in Nat /\ Writes(t)' \in Nat /\ Zeros(t)' \in Nat
        /\ Reads(t) >= (IF t = s THEN 1 ELSE 0)
    BY <2>1, HandlingTakes, OutOnlyHandled
  <2>3. ServedOut(s, t, FALSE, FALSE)
    BY <1>0, <2>1, <2>2 DEF ServedOut, Bit
  <2>. QED
    BY <2>3
<1>2. CASE HandleSendResult(s)
  <2>1. Handling("send") /\ UNCHANGED <<prep, sq, kernelVars>> /\ Head(cq).s = s
        /\ io' = [io EXCEPT ![s] = ResultFlags(s, Head(cq).more)] /\ Head(cq).op = "send"
    BY <1>2 DEF HandleSendResult, Handling
  <2>2. /\ Reads(t)' = Reads(t) - 0
        /\ Writes(t)' = Writes(t) - (IF t = s THEN 1 ELSE 0)
        /\ Zeros(t)' = Zeros(t) - 0
        /\ Reads(t)' \in Nat /\ Writes(t)' \in Nat /\ Zeros(t)' \in Nat
        /\ Reads(t) >= 0
    BY <2>1, HandlingTakes, OutOnlyHandled
  <2>3. /\ "READING" \in io'[s] <=> "READING" \in io[s]
        /\ "WRITING" \notin io'[s]
        /\ "WAITING_ZC" \in io'[s] <=> Head(cq).more \/ "WAITING_ZC" \in io[s]
    BY <1>0, <2>1 DEF ResultFlags
  <2>4. ServedOut(s, t, FALSE, FALSE)
    BY <1>0, <2>1, <2>2, <2>3 DEF ServedOut, Bit
  <2>. QED
    BY <2>4
<1>3. CASE HandleNotif(s)
  <2>. DEFINE freed == IF head[s] + locked[s] > tail[s] THEN tail[s] ELSE head[s] + locked[s]
              e == Send(s, freed, tail[s])
  <2>1. Handling("notif") /\ UNCHANGED <<sq, kernelVars>> /\ Head(cq).s = s
        /\ Head(cq).op = "notif"
    BY <1>3 DEF HandleNotif, Handling
  <2>2. \E wr \in BOOLEAN :
          /\ IF wr THEN prep' = Append(prep, e) ELSE prep' = prep
          /\ io' = [io EXCEPT ![s] = (@ \ {"WAITING_ZC"}) \cup (IF wr THEN {"WRITING"} ELSE {})]
    <3>1. \/ prep' = Append(prep, e) /\ io' = [io EXCEPT ![s] = (@ \ {"WAITING_ZC"}) \cup {"WRITING"}]
          \/ prep' = prep /\ io' = [io EXCEPT ![s] = @ \ {"WAITING_ZC"}]
      BY <1>3 DEF HandleNotif
    <3>. QED
      BY <3>1
  <2>3. e \in Sqes
    <3>1. head[s] \in 0 .. MaxUnits /\ tail[s] \in 0 .. MaxUnits /\ locked[s] \in 0 .. MaxUnits
          /\ socket[s] \in Fds \cup {NoFd}
      BY DEF TypeOK
    <3>2. freed \in 0 .. MaxUnits
      BY <3>1, Sizes
    <3>. QED
      BY <3>1, <3>2, EntryTypes DEF Send
  <2>4. e.op = "send" /\ e.s = s
    BY DEF Send
  <2>. HIDE DEF e
  <2>5. PICK wr \in BOOLEAN :
          /\ IF wr THEN prep' = Append(prep, e) ELSE prep' = prep
          /\ io' = [io EXCEPT ![s] = (@ \ {"WAITING_ZC"}) \cup (IF wr THEN {"WRITING"} ELSE {})]
    BY <2>2
  <2>6. /\ Tally(prep', EntryOf("recv", t)) = Tally(prep, EntryOf("recv", t)) + 0
        /\ Tally(prep', EntryOf("send", t)) = Tally(prep, EntryOf("send", t)) + Bit(t = s /\ wr)
    <3>1. CASE wr
      BY <2>3, <2>4, <2>5, <3>1, PreparedFor DEF Bit
    <3>2. CASE ~wr
      BY <2>5, <3>2, Untouched DEF Bit
    <3>. QED
      BY <3>1, <3>2
  <2>7. /\ Reads(t)' = Reads(t) + 0 - 0
        /\ Writes(t)' = Writes(t) + Bit(t = s /\ wr) - 0
        /\ Zeros(t)' = Zeros(t) - (IF t = s THEN 1 ELSE 0)
        /\ Reads(t)' \in Nat /\ Writes(t)' \in Nat /\ Zeros(t)' \in Nat
        /\ Reads(t) >= 0
    <3>1. Bit(t = s /\ wr) \in Nat
      BY DEF Bit
    <3>. QED
      BY <2>1, <2>6, <3>1, HandlingTakes, OutHandled
  <2>8. ServedOut(s, t, FALSE, wr)
    BY <1>0, <2>1, <2>5, <2>7 DEF ServedOut, Bit
  <2>. QED
    BY <2>8
<1>4. ASSUME NEW units \in 0 .. MaxUnits, NEW closing \in BOOLEAN, NEW full \in BOOLEAN,
             HandleReadData(s, units, closing, full)
      PROVE  \E rd, wr \in BOOLEAN : ServedOut(s, t, rd, wr)
  <2>1. Handling("recv") /\ UNCHANGED <<sq, kernelVars>> /\ Head(cq).s = s
        /\ Head(cq).op = "recv"
    BY <1>4 DEF HandleReadData, Handling
  <2>2. PICK write, read \in Seq(Sqes) :
              /\ \/ write = <<>>
                 \/ /\ Room(0)
                    /\ \E a, b \in 0 .. MaxUnits : write = <<Send(s, a, b)>>
              /\ \/ read = <<>>
                 \/ /\ Room(Len(write))
                    /\ read \in {<<Nop>>, <<Recv(s)>>}
              /\ prep' = (prep \o write) \o read
              /\ io' = [io EXCEPT ![s] = (@ \ {"READING"}) \cup ReadFlag(read)
                                         \cup (IF write # <<>> THEN {"WRITING"} ELSE {})]
              /\ IF read = <<Nop>> THEN Close(s) ELSE KeepOpen
    BY <1>4, ReadDataPrepares, SMTT(30)
  <2>. DEFINE rd == read = <<Recv(s)>>
              wr == write # <<>>
  <2>3. \A S : Tally(prep', S) = Tally(prep, S) + Tally(write, S) + Tally(read, S)
    <3>1. prep \in Seq(Sqes) /\ prep \o write \in Seq(Sqes)
      BY DEF TypeOK
    <3>2. \A S : /\ Tally(prep \o write, S) = Tally(prep, S) + Tally(write, S)
                 /\ Tally((prep \o write) \o read, S) = Tally(prep \o write, S) + Tally(read, S)
      BY <3>1, TallyConcat
    <3>. QED
      BY <2>2, <3>2
  <2>4. /\ Tally(write, EntryOf("recv", t)) = 0
        /\ Tally(write, EntryOf("send", t)) = Bit(t = s /\ wr)
    <3>1. CASE write = <<>>
      BY <3>1, TallyEmpty DEF Bit
    <3>2. ASSUME NEW a \in 0 .. MaxUnits, NEW b \in 0 .. MaxUnits, write = <<Send(s, a, b)>>
          PROVE  /\ Tally(write, EntryOf("recv", t)) = 0
                 /\ Tally(write, EntryOf("send", t)) = Bit(t = s /\ wr)
      <4>. DEFINE e == Send(s, a, b)
      <4>1. e \in Sqes /\ e.op = "send" /\ e.s = s
        BY EntryTypes DEF Send, TypeOK
      <4>2. write = <<e>> /\ wr
        BY <3>2
      <4>. HIDE DEF e
      <4>3. e \notin EntryOf("recv", t) /\ (e \in EntryOf("send", t) <=> t = s)
        BY <4>1 DEF EntryOf
      <4>. QED
        BY <4>1, <4>2, <4>3, TallySingle DEF Bit
    <3>. QED
      BY <2>2, <3>1, <3>2
  <2>5. /\ Tally(read, EntryOf("recv", t)) = Bit(t = s /\ rd)
        /\ Tally(read, EntryOf("send", t)) = 0
    <3>1. CASE read = <<>>
      BY <3>1, TallyEmpty DEF Bit
    <3>2. CASE read = <<Nop>>
      <4>1. Nop \notin EntryOf("recv", t) /\ Nop \notin EntryOf("send", t) /\ Nop \in Sqes
        BY EntryTypes DEF EntryOf, Nop
      <4>2. Nop # Recv(s)
        BY DEF Nop, Recv
      <4>3. ~rd
        BY <3>2, <4>2
      <4>. HIDE DEF rd
      <4>. QED
        BY <3>2, <4>1, <4>3, TallySingle DEF Bit
    <3>3. CASE read = <<Recv(s)>>
      <4>. DEFINE e == Recv(s)
      <4>1. e \in Sqes /\ e.op = "recv" /\ e.s = s
        BY EntryTypes DEF Recv, TypeOK
      <4>2. read = <<e>> /\ rd
        BY <3>3
      <4>. HIDE DEF e
      <4>3. e \notin EntryOf("send", t) /\ (e \in EntryOf("recv", t) <=> t = s)
        BY <4>1 DEF EntryOf
      <4>. QED
        BY <4>1, <4>2, <4>3, TallySingle DEF Bit
    <3>. QED
      BY <2>2, <3>1, <3>2, <3>3
  <2>6. ReadFlag(read) = IF rd THEN {"READING"} ELSE {}
    <3>1. CASE read = <<>>
      BY <3>1 DEF ReadFlag
    <3>2. CASE read = <<Nop>>
      BY <3>2 DEF ReadFlag, Nop, Recv
    <3>3. CASE read = <<Recv(s)>>
      BY <3>3 DEF ReadFlag, Recv
    <3>. QED
      BY <2>2, <3>1, <3>2, <3>3
  <2>7. io' = [io EXCEPT ![s] = (@ \ {"READING"}) \cup (IF rd THEN {"READING"} ELSE {})
                                 \cup (IF wr THEN {"WRITING"} ELSE {})]
    BY <2>2, <2>6
  <2>. HIDE DEF rd, wr
  <2>8. /\ Bit(t = s /\ rd) \in Nat /\ Bit(t = s /\ wr) \in Nat
        /\ Tally(prep', EntryOf("recv", t)) = Tally(prep, EntryOf("recv", t)) + Bit(t = s /\ rd)
        /\ Tally(prep', EntryOf("send", t)) = Tally(prep, EntryOf("send", t)) + Bit(t = s /\ wr)
    <3>1. Tally(prep, EntryOf("recv", t)) \in Nat /\ Tally(prep, EntryOf("send", t)) \in Nat
      BY TallyTypes
    <3>2. Bit(t = s /\ rd) \in Nat /\ Bit(t = s /\ wr) \in Nat
      BY DEF Bit
    <3>. QED
      BY <2>3, <2>4, <2>5, <3>1, <3>2
  <2>9. /\ Reads(t)' = Reads(t) + Bit(t = s /\ rd) - (IF t = s THEN 1 ELSE 0)
        /\ Writes(t)' = Writes(t) + Bit(t = s /\ wr) - 0
        /\ Zeros(t)' = Zeros(t) - 0
        /\ Reads(t)' \in Nat /\ Writes(t)' \in Nat /\ Zeros(t)' \in Nat
        /\ Reads(t) >= (IF t = s THEN 1 ELSE 0)
    BY <2>1, <2>8, HandlingTakes, OutHandled
  <2>10. /\ "READING" \in io'[s] <=> rd
         /\ "WRITING" \in io'[s] <=> wr \/ "WRITING" \in io[s]
         /\ "WAITING_ZC" \in io'[s] <=> "WAITING_ZC" \in io[s]
    BY <1>0, <2>7
  <2>11. ServedOut(s, t, rd, wr)
    BY <1>0, <2>1, <2>9, <2>10 DEF ServedOut, Bit
  <2>12. rd \in BOOLEAN /\ wr \in BOOLEAN
    BY DEF rd, wr
  <2>. QED
    BY <2>11, <2>12
<1>. QED
  BY <1>1, <1>2, <1>3, <1>4 DEF Serves

-----------------------------------------------------------------------------
(***************************************************************************)
(* Flags and what is behind them.                                          *)
(***************************************************************************)

Pinned(s) ==
    /\ Reads(s) <= 1
    /\ Reads(s) = 1 => status[s] # "Free" /\ "READING" \in io[s]

Backed(s) ==
    pc # "done" /\ status[s] = "Active" =>
        /\ "READING" \in io[s] => Reads(s) > 0
        /\ "WRITING" \in io[s] => Writes(s) > 0
        /\ "WAITING_ZC" \in io[s] => Zeros(s) > 0

(* A result that says F_NOTIF is to follow has one behind it.              *)
NotifFollows ==
    \A s \in Sessions, i \in DOMAIN cq :
        cq[i].op = "send" /\ cq[i].s = s /\ cq[i].more =>
            \/ notifs[s] > 0
            \/ \E j \in DOMAIN cq : j > i /\ cq[j].op = "notif" /\ cq[j].s = s

IoInv == NotifFollows /\ \A s \in Sessions : Pinned(s) /\ Backed(s)

(* A new completion goes to the end, behind nothing that needs it there.   *)
LEMMA FollowsPosted ==
    ASSUME TypeOK, NotifFollows, NEW c \in Cqes, Post(c),
           NEW x \in Sessions, \A s \in Sessions \ {x} : notifs'[s] = notifs[s],
           notifs'[x] >= notifs[x] \/ (c.op = "notif" /\ c.s = x),
           notifs'[x] \in Nat,
           c.op = "send" /\ c.more => c.s = x /\ notifs'[x] > 0
    PROVE  NotifFollows'
<1>0. /\ cq \in Seq(Cqes) /\ cq' = Append(cq, c)
      /\ notifs \in [Sessions -> Nat]
  BY DEF TypeOK, Post
<1>. DEFINE n == Len(cq)
<1>1. /\ DOMAIN cq = 1 .. n /\ DOMAIN cq' = 1 .. n + 1 /\ n \in Nat
      /\ \A i \in 1 .. n : cq'[i] = cq[i]
      /\ cq'[n + 1] = c
  BY <1>0
<1>. SUFFICES ASSUME NEW s \in Sessions, NEW i \in 1 .. n + 1,
                    cq'[i].op = "send", cq'[i].s = s, cq'[i].more
             PROVE  \/ notifs'[s] > 0
                    \/ \E j \in 1 .. n + 1 : j > i /\ cq'[j].op = "notif" /\ cq'[j].s = s
  BY <1>1 DEF NotifFollows
<1>. HIDE DEF n
<1>2. CASE i = n + 1
  BY <1>1, <1>2
<1>3. CASE i \in 1 .. n
  <2>1. \/ notifs[s] > 0
        \/ \E j \in 1 .. n : j > i /\ cq[j].op = "notif" /\ cq[j].s = s
    BY <1>1, <1>3 DEF NotifFollows
  <2>2. CASE \E j \in 1 .. n : j > i /\ cq[j].op = "notif" /\ cq[j].s = s
    BY <1>1, <2>2
  <2>3. CASE notifs[s] > 0
    <3>1. CASE notifs'[s] > 0
      BY <3>1
    <3>2. CASE ~(notifs'[s] > 0)
      <4>1. s = x /\ c.op = "notif" /\ c.s = x
        BY <1>0, <2>3, <3>2
      <4>2. n + 1 \in 1 .. n + 1 /\ n + 1 > i
        BY <1>1, <1>3
      <4>. QED
        BY <1>1, <4>1, <4>2
    <3>. QED
      BY <3>1, <3>2
  <2>. QED
    BY <2>1, <2>2, <2>3
<1>. QED
  BY <1>1, <1>2, <1>3

(* Taking the first completion leaves the order of the others.             *)
LEMMA FollowsHandled ==
    ASSUME TypeOK, NotifFollows, NEW op, Handling(op), UNCHANGED notifs
    PROVE  NotifFollows'
<1>0. cq \in Seq(Cqes) /\ cq # <<>> /\ cq' = Tail(cq)
  BY DEF TypeOK, Handling
<1>. DEFINE n == Len(cq)
<1>1. /\ DOMAIN cq = 1 .. n /\ DOMAIN cq' = 1 .. n - 1 /\ n \in Nat /\ n > 0
      /\ \A i \in 1 .. n - 1 : cq'[i] = cq[i + 1]
  BY <1>0
<1>. SUFFICES ASSUME NEW s \in Sessions, NEW i \in 1 .. n - 1,
                    cq'[i].op = "send", cq'[i].s = s, cq'[i].more
             PROVE  \/ notifs[s] > 0
                    \/ \E j \in 1 .. n - 1 : j > i /\ cq'[j].op = "notif" /\ cq'[j].s = s
  BY <1>1 DEF NotifFollows
<1>. HIDE DEF n
<1>2. i + 1 \in 1 .. n /\ cq[i + 1] = cq'[i]
  BY <1>1
<1>3. \/ notifs[s] > 0
      \/ \E j \in 1 .. n : j > i + 1 /\ cq[j].op = "notif" /\ cq[j].s = s
  BY <1>1, <1>2 DEF NotifFollows
<1>4. ASSUME NEW j \in 1 .. n, j > i + 1, cq[j].op = "notif", cq[j].s = s
      PROVE  \E k \in 1 .. n - 1 : k > i /\ cq'[k].op = "notif" /\ cq'[k].s = s
  <2>1. j - 1 \in 1 .. n - 1 /\ j - 1 > i /\ (j - 1) + 1 = j
    BY <1>1, <1>4
  <2>. QED
    BY <1>1, <1>4, <2>1
<1>. QED
  BY <1>3, <1>4

(* So does putting the second half of an accept in its place.              *)
LEMMA FollowsTaken ==
    ASSUME TypeOK, NotifFollows, NEW op, Takes(op), UNCHANGED notifs
    PROVE  NotifFollows'
<1>1. CASE cq' = Tail(cq)
  BY <1>1, FollowsHandled DEF Takes, Handling
<1>2. CASE cq' = <<AcceptEnd>> \o Tail(cq)
  <2>1. cq \in Seq(Cqes) /\ cq # <<>>
    BY DEF TypeOK, Takes
  <2>. DEFINE n == Len(cq)
  <2>2. /\ DOMAIN cq = 1 .. n /\ DOMAIN cq' = 1 .. n /\ n \in Nat
        /\ cq'[1] = AcceptEnd
        /\ \A i \in 2 .. n : cq'[i] = cq[i]
    BY <1>2, <2>1
  <2>. SUFFICES ASSUME NEW s \in Sessions, NEW i \in 1 .. n,
                      cq'[i].op = "send", cq'[i].s = s, cq'[i].more
               PROVE  \/ notifs[s] > 0
                      \/ \E j \in 1 .. n : j > i /\ cq'[j].op = "notif" /\ cq'[j].s = s
    BY <2>2 DEF NotifFollows
  <2>. HIDE DEF n
  <2>3. i \in 2 .. n
    BY <2>2 DEF AcceptEnd
  <2>4. \/ notifs[s] > 0
        \/ \E j \in 1 .. n : j > i /\ cq[j].op = "notif" /\ cq[j].s = s
    BY <2>2, <2>3 DEF NotifFollows
  <2>5. ASSUME NEW j \in 1 .. n, j > i, cq[j].op = "notif", cq[j].s = s
        PROVE  \E k \in 1 .. n : k > i /\ cq'[k].op = "notif" /\ cq'[k].s = s
    <3>1. j \in 2 .. n
      BY <2>2, <2>3, <2>5
    <3>. QED
      BY <2>2, <2>5, <3>1
  <2>. QED
    BY <2>4, <2>5
<1>. QED
  BY <1>1, <1>2 DEF Takes

(* Every step keeps a notification behind each result that announces one.  *)
LEMMA FollowsStep == TypeOK /\ NotifFollows /\ [Next]_vars => NotifFollows'
<1>. SUFFICES ASSUME TypeOK, NotifFollows, [Next]_vars, NEW x \in Sessions
             PROVE  NotifFollows'
  BY DEF NotifFollows
<1>0. notifs \in [Sessions -> Nat]
  BY DEF TypeOK
<1>1. ASSUME UNCHANGED <<cq, notifs>> PROVE NotifFollows'
  BY <1>1 DEF NotifFollows
<1>2. ASSUME NEW c \in Cqes, Post(c), c.op = "send" => ~c.more, UNCHANGED notifs
      PROVE  NotifFollows'
  BY <1>0, <1>2, FollowsPosted
<1>3. CASE FlushFull \/ Submit \/ UNCHANGED vars
  BY <1>1, <1>3 DEF FlushFull, Submit, vars, kernelVars
<1>4. CASE LoopExit
  BY <1>4 DEF LoopExit, NotifFollows
<1>5. ASSUME \/ HandleAcceptEnd \/ HandleNop
             \/ \E s \in Sessions : HandleInactive(s)
      PROVE  NotifFollows'
  BY <1>5, FollowsHandled DEF HandleAcceptEnd, HandleNop, HandleInactive, kernelVars
<1>14. ASSUME NEW s \in Sessions, HandleAccept(s) PROVE NotifFollows'
  <2>1. UNCHANGED notifs
    BY <1>14 DEF HandleAccept, kernelVars
  <2>. QED
    BY <1>14, <2>1, HandlingTakes, FollowsTaken
<1>6. ASSUME NEW s \in Sessions, Serves(s) PROVE NotifFollows'
  <2>1. Handling(Head(cq).op)
    BY <1>6, ServedSlot
  <2>2. UNCHANGED notifs
    BY <1>6 DEF Serves, HandleReadEnd, HandleSendResult, HandleNotif, HandleReadData, kernelVars
  <2>. QED
    BY <2>1, <2>2, FollowsHandled
<1>7. ASSUME NEW s \in Sessions, Expire(s) PROVE NotifFollows'
  BY <1>1, <1>7 DEF Expire, kernelVars
<1>8. CASE TakeSqe
  <2>1. UNCHANGED notifs
    BY <1>8 DEF TakeSqe
  <2>. QED
    BY <1>1, <1>2, <1>8, <2>1, KernelPosts
<1>9. CASE AcceptFails
  <2>1. UNCHANGED notifs
    BY <1>9 DEF AcceptFails
  <2>. QED
    BY <1>2, <1>9, <2>1, KernelPosts
<1>10. ASSUME NEW fd \in Fds, NEW more \in BOOLEAN, AcceptDone(fd, more) PROVE NotifFollows'
  BY <1>2, <1>10, EntryTypes DEF AcceptDone
<1>11. ASSUME NEW s \in Sessions, NEW ok \in BOOLEAN, RecvDone(s, ok) PROVE NotifFollows'
  <2>1. UNCHANGED notifs
    BY <1>11 DEF RecvDone
  <2>. QED
    BY <1>2, <1>11, <2>1, KernelPosts
<1>12. ASSUME NEW s \in Sessions, Notify(s) PROVE NotifFollows'
  <2>1. PICK c \in Cqes : Post(c) /\ c = [op |-> "notif", s |-> s]
    BY <1>12, KernelPosts
  <2>2. notifs' = [notifs EXCEPT ![s] = @ - 1] /\ notifs[s] > 0
    BY <1>12 DEF Notify
  <2>3. notifs'[s] \in Nat /\ \A r \in Sessions \ {s} : notifs'[r] = notifs[r]
    BY <1>0, <2>2
  <2>. QED
    BY <2>1, <2>3, FollowsPosted
<1>13. ASSUME NEW s \in Sessions, NEW n \in 0 .. MaxUnits, SendDone(s, n) PROVE NotifFollows'
  <2>1. PICK c \in Cqes : /\ Post(c)
                          /\ c = [op |-> "send", s |-> s, ok |-> n > 0, n |-> n, more |-> TRUE]
    BY <1>13, KernelPosts
  <2>2. notifs' = [notifs EXCEPT ![s] = @ + 1]
    BY <1>13 DEF SendDone
  <2>3. /\ notifs'[s] \in Nat /\ notifs'[s] > 0 /\ notifs'[s] >= notifs[s]
        /\ \A r \in Sessions \ {s} : notifs'[r] = notifs[r]
    BY <1>0, <2>2
  <2>4. c.s = s
    BY <2>1
  <2>. QED
    BY <2>1, <2>3, <2>4, FollowsPosted
<1>. QED
  BY <1>3, <1>4, <1>5, <1>6, <1>7, <1>8, <1>9, <1>10, <1>11, <1>12, <1>13, <1>14, StepKinds
     DEF Quiet

(* A result at the front that announces a notification: there is one.      *)
LEMMA NotifAhead ==
    ASSUME TypeOK, NotifFollows, Handling("send"), NEW s \in Sessions,
           Head(cq).s = s, Head(cq).more
    PROVE  Zeros(s) > 0
<1>0. cq \in Seq(Cqes) /\ cq # <<>> /\ Head(cq).op = "send"
  BY DEF TypeOK, Handling
<1>1. 1 \in DOMAIN cq /\ cq[1] = Head(cq)
  BY <1>0
<1>2. notifs[s] > 0 \/ \E j \in DOMAIN cq : cq[j].op = "notif" /\ cq[j].s = s
  BY <1>0, <1>1 DEF NotifFollows
<1>3. (\E j \in DOMAIN cq : cq[j].op = "notif" /\ cq[j].s = s) =>
        Tally(cq, EntryOf("notif", s)) > 0
  <2>1. \A j \in DOMAIN cq : cq[j] \in Cqes
    BY <1>0
  <2>2. (\E j \in DOMAIN cq : cq[j].op = "notif" /\ cq[j].s = s) =>
           \E j \in DOMAIN cq : cq[j] \in EntryOf("notif", s)
    BY <2>1 DEF EntryOf
  <2>. QED
    BY <1>0, <2>2, TallyNat
<1>4. Tally(cq, EntryOf("notif", s)) \in Nat /\ notifs[s] \in Nat
  BY TallyTypes, OutTypes
<1>. QED
  BY <1>2, <1>3, <1>4 DEF Zeros

(* Flags and operations stay in step, whoever moves.                       *)
LEMMA IoStep == TypeOK /\ IoInv /\ [Next]_vars => IoInv'
<1>. SUFFICES ASSUME TypeOK, IoInv, [Next]_vars, NEW t \in Sessions
             PROVE  Pinned(t)' /\ Backed(t)'
  BY FollowsStep DEF IoInv
<1>0. /\ status \in [Sessions -> {"Free", "Active", "Closing"}]
      /\ io \in [Sessions -> SUBSET IoFlags]
      /\ Reads(t) \in Nat /\ Writes(t) \in Nat /\ Zeros(t) \in Nat
      /\ Pinned(t) /\ Backed(t)
  BY OutTypes DEF TypeOK, IoInv
<1>1. CASE LoopExit
  <2>1. pc' = "done" /\ prep' = <<>> /\ sq' = <<>> /\ cq' = <<>> /\ recvs'[t] = 0
    BY <1>1 DEF LoopExit
  <2>2. Reads(t)' = 0
    BY <2>1, TallyEmpty DEF Reads, Out
  <2>. QED
    BY <2>1, <2>2 DEF Pinned, Backed
<1>2. CASE Quiet /\ ~LoopExit
  <2>1. /\ Reads(t)' = Reads(t) /\ Writes(t)' = Writes(t)
        /\ Zeros(t)' >= Zeros(t) /\ Zeros(t)' \in Nat
        /\ UNCHANGED <<status, io>>
    BY <1>2, QuietOut, QuietSlots
  <2>2. pc' # "done" => pc # "done"
    BY <1>2 DEF Quiet, FlushFull, HandleAcceptEnd, HandleNop, Submit, TakeSqe, AcceptFails,
       vars, workerVars, AcceptDone, Notify, RecvDone, SendDone, Handling
  <2>4. Zeros(t) > 0 => Zeros(t)' > 0
    BY <1>0, <2>1
  <2>. QED
    BY <1>0, <2>1, <2>2, <2>4 DEF Pinned, Backed
<1>3. ASSUME NEW s \in Sessions, Serves(s) PROVE Pinned(t)' /\ Backed(t)'
  <2>1. PICK rd \in BOOLEAN, wr \in BOOLEAN : ServedOut(s, t, rd, wr)
    BY <1>3, ServedEffect
  <2>2. /\ status[s] = "Active"
        /\ status' = status \/ status' = [status EXCEPT ![s] = "Closing"]
        /\ io' = [io EXCEPT ![s] = io'[s]]
        /\ Handling(Head(cq).op) /\ Head(cq).op \in {"recv", "send", "notif"}
        /\ Head(cq).s = s
    BY <1>3, ServedSlot
  <2>3. pc = "loop"
    BY <2>2 DEF Handling
  <2>4. CASE t # s
    <3>1. Reads(t)' = Reads(t) /\ Writes(t)' = Writes(t) /\ Zeros(t)' = Zeros(t)
      BY <1>0, <2>1, <2>4 DEF ServedOut, Bit
    <3>2. status'[t] = status[t] /\ io'[t] = io[t]
      BY <1>0, <2>2, <2>4
    <3>. QED
      BY <1>0, <2>3, <3>1, <3>2 DEF Pinned, Backed
  <2>5. CASE t = s
    <3>1. status'[s] # "Free"
      BY <1>0, <2>2
    <3>2. CASE Head(cq).op = "recv"
      <4>1. /\ Reads(t)' = Reads(t) + Bit(rd) - 1 /\ Reads(t)' \in Nat /\ Reads(t) >= 1
            /\ Writes(t)' = Writes(t) + Bit(wr) /\ Zeros(t)' = Zeros(t)
            /\ "READING" \in io'[t] <=> rd
            /\ "WRITING" \in io'[t] <=> wr \/ "WRITING" \in io[t]
            /\ "WAITING_ZC" \in io'[t] <=> "WAITING_ZC" \in io[t]
        BY <1>0, <2>1, <2>5, <3>2 DEF ServedOut, Bit
      <4>. QED
        BY <1>0, <2>2, <2>3, <2>5, <3>1, <4>1 DEF Pinned, Backed, Bit
    <3>3. CASE Head(cq).op = "send"
      <4>1. /\ Reads(t)' = Reads(t) /\ Zeros(t)' = Zeros(t)
            /\ Writes(t)' = Writes(t) + Bit(wr) - 1 /\ Writes(t)' \in Nat
            /\ "READING" \in io'[t] <=> "READING" \in io[t]
            /\ "WRITING" \in io'[t] <=> wr
            /\ "WAITING_ZC" \in io'[t] <=> Head(cq).more \/ "WAITING_ZC" \in io[t]
        BY <1>0, <2>1, <2>5, <3>3 DEF ServedOut, Bit
      <4>2. Head(cq).more => Zeros(t) > 0
        BY <2>2, <2>5, <3>3, NotifAhead DEF IoInv
      <4>3. ~wr
        BY <2>1, <3>3 DEF ServedOut
      <4>. QED
        BY <1>0, <2>2, <2>3, <2>5, <3>1, <4>1, <4>2, <4>3 DEF Pinned, Backed
    <3>4. CASE Head(cq).op = "notif"
      <4>1. /\ Reads(t)' = Reads(t) /\ Zeros(t)' = Zeros(t) - 1
            /\ Writes(t)' = Writes(t) + Bit(wr)
            /\ "READING" \in io'[t] <=> "READING" \in io[t]
            /\ "WRITING" \in io'[t] <=> wr \/ "WRITING" \in io[t]
            /\ "WAITING_ZC" \notin io'[t]
        BY <1>0, <2>1, <2>5, <3>4 DEF ServedOut, Bit
      <4>. QED
        BY <1>0, <2>2, <2>3, <2>5, <3>1, <4>1 DEF Pinned, Backed, Bit
    <3>. QED
      BY <2>2, <3>2, <3>3, <3>4
  <2>. QED
    BY <2>4, <2>5
<1>4. ASSUME NEW s \in Sessions, HandleAccept(s) PROVE Pinned(t)' /\ Backed(t)'
  <2>. DEFINE fd == Head(cq).fd
              e == [Recv(s) EXCEPT !.fd = fd]
  <2>1. Takes("accept") /\ UNCHANGED <<sq, kernelVars>> /\ status[s] = "Free" /\ pc' = pc
    BY <1>4, HandlingTakes DEF HandleAccept
  <2>2. pc = "loop" /\ Head(cq) \in Cqes /\ Head(cq).op = "accept"
    BY <2>1, HeadIn DEF Takes, TypeOK
  <2>3. e \in Sqes /\ e.op = "recv" /\ e.s = s
    BY <2>1, <2>2, EntryFields, EntryTypes DEF Recv
  <2>4. CASE /\ status' = [status EXCEPT ![s] = "Active"] /\ io' = [io EXCEPT ![s] = {"READING"}]
             /\ prep' = Append(prep, e)
    <3>. HIDE DEF e
    <3>1. /\ Tally(prep', EntryOf("recv", t)) = Tally(prep, EntryOf("recv", t)) + Bit(t = s)
          /\ Tally(prep', EntryOf("send", t)) = Tally(prep, EntryOf("send", t)) + 0
      BY <2>3, <2>4, PreparedFor DEF Bit
    <3>2. Bit(t = s) \in Nat
      BY DEF Bit
    <3>3. /\ Reads(t)' = Reads(t) + Bit(t = s) - 0
          /\ Writes(t)' = Writes(t) + 0 - 0
          /\ Zeros(t)' = Zeros(t) - 0
      BY <2>1, <3>1, <3>2, HandlingTakes, OutHandled
    <3>4. CASE t = s
      <4>1. Reads(t) = 0 /\ Reads(t)' = 1
        BY <1>0, <2>1, <3>3, <3>4 DEF Pinned, Bit
      <4>2. status'[t] = "Active" /\ io'[t] = {"READING"}
        BY <1>0, <2>4, <3>4
      <4>. QED
        BY <4>1, <4>2 DEF Pinned, Backed
    <3>5. CASE t # s
      <4>1. Reads(t)' = Reads(t) /\ Writes(t)' = Writes(t) /\ Zeros(t)' = Zeros(t)
        BY <1>0, <3>3, <3>5 DEF Bit
      <4>2. status'[t] = status[t] /\ io'[t] = io[t]
        BY <1>0, <2>4, <3>5
      <4>. QED
        BY <1>0, <2>2, <4>1, <4>2 DEF Pinned, Backed
    <3>. QED
      BY <3>4, <3>5
  <2>5. CASE UNCHANGED <<status, prep, io>>
    <3>1. /\ Reads(t)' = Reads(t) - 0
          /\ Writes(t)' = Writes(t) - 0
          /\ Zeros(t)' = Zeros(t) - 0
      BY <2>1, <2>5, HandlingTakes, OutOnlyHandled
    <3>2. Reads(t)' = Reads(t) /\ Writes(t)' = Writes(t) /\ Zeros(t)' = Zeros(t)
      BY <1>0, <3>1
    <3>. QED
      BY <1>0, <2>2, <2>5, <3>2 DEF Pinned, Backed
  <2>. QED
    BY <1>4, <2>4, <2>5 DEF HandleAccept
<1>5. ASSUME NEW s \in Sessions, HandleInactive(s) PROVE Pinned(t)' /\ Backed(t)'
  <2>1. /\ Handling(Head(cq).op) /\ UNCHANGED <<prep, sq, kernelVars>> /\ Head(cq).s = s
        /\ status[s] # "Active" /\ io' = io
        /\ \/ io[s] = {} /\ status' = [status EXCEPT ![s] = "Free"]
           \/ status' = status
    BY <1>5 DEF HandleInactive, Free
  <2>2. pc = "loop" /\ Head(cq).op = Head(cq).op
    BY <2>1 DEF Handling
  <2>3. /\ Reads(t)' = Reads(t) - Bit(Head(cq).op = "recv" /\ s = t)
        /\ Writes(t)' = Writes(t) - Bit(Head(cq).op = "send" /\ s = t)
        /\ Zeros(t)' = Zeros(t) - Bit(Head(cq).op = "notif" /\ s = t)
        /\ Reads(t)' \in Nat
    BY <2>1, HandlingTakes, OutOnlyHandled DEF Bit
  <2>4. CASE t # s
    <3>1. Reads(t)' = Reads(t) /\ Writes(t)' = Writes(t) /\ Zeros(t)' = Zeros(t)
      BY <1>0, <2>3, <2>4 DEF Bit
    <3>2. status'[t] = status[t]
      BY <1>0, <2>1, <2>4
    <3>. QED
      BY <1>0, <2>1, <2>2, <3>1, <3>2 DEF Pinned, Backed
  <2>5. CASE t = s
    <3>1. Reads(t)' <= Reads(t) /\ status'[t] # "Active"
      BY <1>0, <2>1, <2>3, <2>5 DEF Bit
    <3>2. Reads(t)' = 1 => status'[t] # "Free" /\ "READING" \in io[t]
      <4>1. Reads(t)' = 1 => Reads(t) = 1
        BY <1>0, <3>1 DEF Pinned
      <4>. QED
        BY <1>0, <2>1, <2>5, <4>1 DEF Pinned
    <3>. QED
      BY <1>0, <2>1, <2>3, <3>1, <3>2 DEF Pinned, Backed
  <2>. QED
    BY <2>4, <2>5
<1>6. ASSUME NEW s \in Sessions, Expire(s) PROVE Pinned(t)' /\ Backed(t)'
  <2>1. /\ UNCHANGED <<io, prep, pc, sq, cq, kernelVars>>
        /\ \/ io[s] = {} /\ status' = [status EXCEPT ![s] = "Free"]
           \/ status' = [status EXCEPT ![s] = "Closing"]
    BY <1>6 DEF Expire, Free, SetClosing
  <2>2. Reads(t)' = Reads(t) /\ Writes(t)' = Writes(t) /\ Zeros(t)' = Zeros(t)
    BY <2>1 DEF Reads, Writes, Zeros, Out, InHand, kernelVars
  <2>3. CASE t # s
    <3>1. status'[t] = status[t]
      BY <1>0, <2>1, <2>3
    <3>. QED
      BY <1>0, <2>1, <2>2, <3>1 DEF Pinned, Backed
  <2>4. CASE t = s
    <3>1. status'[t] # "Active" /\ (status'[t] = "Free" => io[t] = {})
      BY <1>0, <2>1, <2>4
    <3>. QED
      BY <1>0, <2>1, <2>2, <3>1 DEF Pinned, Backed
  <2>. QED
    BY <2>3, <2>4
<1>. QED
  BY <1>1, <1>2, <1>3, <1>4, <1>5, <1>6, StepKinds

(* Nothing is out at first but the accept.                                 *)
LEMMA IoInit == Init => IoInv
<1>. SUFFICES ASSUME Init PROVE IoInv
  OBVIOUS
<1>1. NotifFollows
  BY DEF Init, NotifFollows
<1>2. ASSUME NEW s \in Sessions PROVE Pinned(s) /\ Backed(s)
  <2>1. Tally(prep, EntryOf("recv", s)) = 0 /\ Tally(cq, EntryOf("recv", s)) = 0
    BY TallyEmpty DEF Init
  <2>2. Tally(sq, EntryOf("recv", s)) = 0
    <3>1. Accept \notin EntryOf("recv", s)
      BY DEF Accept, EntryOf
    <3>. QED
      BY <3>1, TallySingle, EntryTypes DEF Init
  <2>3. Reads(s) = 0
    BY <2>1, <2>2 DEF Init, Reads, Out
  <2>. QED
    BY <2>3 DEF Init, Pinned, Backed
<1>. QED
  BY <1>1, <1>2 DEF IoInv

(* What IoInv says in the properties' own counts.                          *)
LEMMA IoInvMeans == TypeOK /\ IoInv => RecvPinned /\ FlagsBacked
  BY OutTallies, OutTypes DEF IoInv, Pinned, Backed, RecvPinned, FlagsBacked

(* The kernel never has two recvs into one read ring, nor one into the     *)
(* memory of a slot that was given back: the reserved slot is what makes   *)
(* a completion's raw pointer safe, whatever expires or closes meanwhile.  *)
THEOREM PinnedMemory == Spec => []RecvPinned
  BY TypeCorrect, IoInit, IoStep, IoInvMeans, PTL DEF Spec

(* No Active session ever waits for a completion that will not come, with  *)
(* rings of any size and however the kernel delays.                        *)
THEOREM NoStalledSession == Spec => []FlagsBacked
  BY TypeCorrect, IoInit, IoStep, IoInvMeans, PTL DEF Spec

-----------------------------------------------------------------------------
(***************************************************************************)
(* The listener.                                                           *)
(***************************************************************************)

ListenInv ==
    pc \notin {"done", "noEntry"} =>
        Tally(prep, Listening) + Tally(sq, Listening) + Tally(cq, Listening) + Bit(armed) = 1

(* Which entries are the listener's own.                                   *)
LEMMA OneListening ==
    /\ \A e \in Sqes : One(e, Listening) = Bit(e.op = "accept")
    /\ \A c \in Cqes :
        One(c, Listening) = Bit(c.op = "acceptEnd" \/ (c.op = "accept" /\ ~c.more))
<1>1. ASSUME NEW e \in Sqes PROVE One(e, Listening) = Bit(e.op = "accept")
  <2>1. e \in Listening <=> e.op = "accept"
    <3>1. CASE e.op = "accept"
      BY <3>1, EntryFields DEF Listening
    <3>2. CASE e.op # "accept"
      <4>0. /\ Accept.op = "accept"
            /\ \A x \in [op : {"accept"}, fd : Fds, more : {FALSE}] : x.op = "accept"
        BY DEF Accept
      <4>1. e # Accept /\ e \notin [op : {"accept"}, fd : Fds, more : {FALSE}]
        BY <3>2, <4>0
      <4>2. e # AcceptEnd
        BY EntryFields DEF AcceptEnd
      <4>. QED
        BY <3>2, <4>1, <4>2 DEF Listening
    <3>. QED
      BY <3>1, <3>2
  <2>. QED
    BY <2>1 DEF One, Bit
<1>2. ASSUME NEW c \in Cqes
      PROVE  One(c, Listening) = Bit(c.op = "acceptEnd" \/ (c.op = "accept" /\ ~c.more))
  <2>1. c.op = "acceptEnd" => c \in Listening
    BY EntryFields DEF Listening
  <2>2. c.op = "accept" => (c \in Listening <=> ~c.more)
    <3>. SUFFICES ASSUME c.op = "accept" PROVE c \in Listening <=> ~c.more
      OBVIOUS
    <3>1. c.fd \in Fds /\ c.more \in BOOLEAN /\ c = [op |-> "accept", fd |-> c.fd, more |-> c.more]
      BY EntryFields
    <3>2. DOMAIN c = {"op", "fd", "more"} /\ DOMAIN Accept = {"op"}
      BY <3>1 DEF Accept
    <3>3. c # Accept /\ c # AcceptEnd
      BY <3>2 DEF AcceptEnd
    <3>4. c \in [op : {"accept"}, fd : Fds, more : {FALSE}] <=> c.more = FALSE
      BY <3>1
    <3>. QED
      BY <3>1, <3>3, <3>4 DEF Listening
  <2>3. c.op \notin {"accept", "acceptEnd"} => c \notin Listening
    <3>. SUFFICES ASSUME c.op \notin {"accept", "acceptEnd"} PROVE c \notin Listening
      OBVIOUS
    <3>0. /\ Accept.op = "accept" /\ AcceptEnd.op = "acceptEnd"
          /\ \A x \in [op : {"accept"}, fd : Fds, more : {FALSE}] : x.op = "accept"
      BY DEF Accept, AcceptEnd
    <3>1. c # Accept /\ c # AcceptEnd /\ c \notin [op : {"accept"}, fd : Fds, more : {FALSE}]
      BY <3>0
    <3>. QED
      BY <3>1 DEF Listening
  <2>. QED
    BY <2>1, <2>2, <2>3 DEF One, Bit
<1>. QED
  BY <1>1, <1>2

(* The property's count is the sum of the tallies.                         *)
LEMMA ListenMeans == TypeOK /\ ListenInv => ListenerArmed
<1>. SUFFICES ASSUME TypeOK, ListenInv PROVE ListenerArmed
  OBVIOUS
<1>. DEFINE T == Sqes \cup Cqes
            pending == (prep \o sq) \o cq
<1>1. prep \in Seq(T) /\ sq \in Seq(T) /\ cq \in Seq(T)
  <2>1. prep \in Seq(Sqes) /\ sq \in Seq(Sqes) /\ cq \in Seq(Cqes)
    BY DEF TypeOK
  <2>. QED
    BY <2>1
<1>. HIDE DEF T
<1>2. prep \o sq \in Seq(T)
  BY <1>1
<1>3. /\ Tally(prep \o sq, Listening) = Tally(prep, Listening) + Tally(sq, Listening)
      /\ Tally(pending, Listening) = Tally(prep \o sq, Listening) + Tally(cq, Listening)
  BY <1>1, <1>2, TallyConcat
<1>4. Cardinality({i \in DOMAIN pending : pending[i] \in Listening}) = Tally(pending, Listening)
  BY DEF Tally, Places
<1>. QED
  BY <1>3, <1>4 DEF ListenInv, ListenerArmed, Bit, Listening

(* The accept is never lost and never doubled.                             *)
LEMMA ListenStep == TypeOK /\ ListenInv /\ [Next]_vars => ListenInv'
<1>. SUFFICES ASSUME TypeOK, ListenInv, [Next]_vars, pc' \notin {"done", "noEntry"}
             PROVE  ListenInv'
  BY DEF ListenInv
<1>. DEFINE P == Tally(prep, Listening)
            Q == Tally(sq, Listening)
            C == Tally(cq, Listening)
<1>0. P \in Nat /\ Q \in Nat /\ C \in Nat /\ armed \in BOOLEAN
  BY TallyTypes DEF TypeOK
<1>1. ASSUME pc \notin {"done", "noEntry"}, NEW p \in Int, NEW q \in Int, NEW c \in Int,
             P' = P + p, Q' = Q + q, C' = C + c, p + q + c + Bit(armed') = Bit(armed)
      PROVE  ListenInv'
  <2>1. P + Q + C + Bit(armed) = 1
    BY <1>1 DEF ListenInv
  <2>2. Bit(armed) \in Int /\ Bit(armed') \in Int
    BY DEF Bit
  <2>3. P' + Q' + C' + Bit(armed') = 1
    <3>. HIDE DEF P, Q, C
    <3>. QED
      BY <1>0, <1>1, <2>1, <2>2
  <2>. QED
    BY <2>3 DEF ListenInv
<1>2. CASE FlushFull \/ Submit
  <2>1. P' = 0 /\ Q' = Q + P /\ C' = C /\ armed' = armed /\ pc = "loop"
    BY <1>2, Published DEF FlushFull, Submit, kernelVars
  <2>2. P' = P + (0 - P) /\ C' = C + 0
    BY <1>0, <2>1
  <2>. HIDE DEF P, Q, C
  <2>3. 0 - P \in Int /\ P \in Int /\ (0 - P) + P + 0 + Bit(armed') = Bit(armed)
    BY <1>0, <2>1 DEF Bit
  <2>. QED
    BY <1>1, <2>1, <2>2, <2>3
<1>3. CASE LoopExit
  BY <1>3 DEF LoopExit
<1>4. CASE HandleAcceptEnd
  <2>1. /\ Handling("acceptEnd") /\ pc = "loop" /\ prep' = Append(prep, Accept)
        /\ sq' = sq /\ armed' = armed
    BY <1>4 DEF HandleAcceptEnd, kernelVars, Handling
  <2>2. P' = P + 1
    BY <2>1, Prepared, EntryTypes, OneListening DEF Bit, Accept
  <2>3. C' = C - 1
    BY <1>0, <2>1, Handled, OneListening DEF Bit
  <2>4. Q' = Q + 0 /\ C' = C + (-1)
    BY <1>0, <2>1, <2>3
  <2>. HIDE DEF P, Q, C
  <2>5. 1 + 0 + (-1) + Bit(armed') = Bit(armed)
    BY <2>1 DEF Bit
  <2>. QED
    BY <1>1, <2>1, <2>2, <2>4, <2>5
<1>5. ASSUME pc \notin {"done", "noEntry"}, P' = P, Q' = Q, C' = C, armed' = armed PROVE ListenInv'
  BY <1>5 DEF ListenInv
<1>6. CASE UNCHANGED vars
  BY <1>5, <1>6 DEF vars, workerVars, kernelVars
<1>7. ASSUME NEW c \in Cqes, Post(c), c.op \notin {"accept", "acceptEnd"} PROVE C' = C
  <2>1. C' = C + One(c, Listening)
    BY <1>7, Posted
  <2>2. One(c, Listening) = 0
    BY <1>7, OneListening DEF Bit
  <2>. QED
    BY <1>0, <2>1, <2>2
<1>8. ASSUME NEW op, Handling(op), op \notin {"accept", "acceptEnd"} PROVE C' = C
  <2>1. C = C' + One(Head(cq), Listening) /\ C' \in Nat /\ Head(cq) \in Cqes /\ Head(cq).op = op
    BY <1>8, Handled
  <2>2. One(Head(cq), Listening) = 0
    BY <1>8, <2>1, OneListening DEF Bit
  <2>. QED
    BY <1>0, <2>1, <2>2
<1>18. CASE HandleNop
  BY <1>5, <1>8, <1>18 DEF HandleNop, Handling, kernelVars
<1>9. CASE TakeSqe
  <2>. DEFINE e == Head(sq)
  <2>1. e \in Sqes /\ Q = Q' + One(e, Listening) /\ Q' \in Nat /\ pc \notin {"done", "noEntry"} /\ P' = P
    BY <1>9, Taken DEF TakeSqe, workerVars
  <2>2. UNCHANGED cq \/ \E c \in Cqes : Post(c) /\ c.op \in {"nop", "recv", "send"}
    BY <1>9, KernelPosts
  <2>3. C' = C
    BY <1>7, <2>2
  <2>4. CASE e.op = "accept"
    <3>1. armed' = TRUE /\ Q = Q' + 1
      BY <1>9, <2>1, <2>4, OneListening DEF TakeSqe, Bit
    <3>2. armed = FALSE
      <4>1. P + Q + C + Bit(armed) = 1
        BY <2>1 DEF ListenInv
      <4>2. P \in Nat /\ C \in Nat /\ Q' \in Nat
        BY <1>0, <2>1
      <4>. HIDE DEF P, Q, C
      <4>3. SUFFICES ASSUME armed # FALSE PROVE FALSE
        OBVIOUS
      <4>4. Bit(armed) = 1 \/ armed \notin BOOLEAN
        BY <4>3 DEF Bit
      <4>5. armed \in BOOLEAN
        BY DEF TypeOK
      <4>. QED
        BY <3>1, <4>1, <4>2, <4>4, <4>5
    <3>3. Q' = Q + (-1) /\ P' = P + 0 /\ C' = C + 0
      BY <1>0, <2>1, <2>3, <3>1
    <3>. HIDE DEF P, Q, C
    <3>4. 0 + (-1) + 0 + Bit(armed') = Bit(armed)
      BY <3>1, <3>2 DEF Bit
    <3>. QED
      BY <1>1, <2>1, <3>3, <3>4
  <2>5. CASE e.op # "accept"
    <3>1. armed' = armed
      BY <1>9, <2>1, <2>5, EntryFields DEF TakeSqe
    <3>2. Q' = Q
      BY <1>0, <2>1, <2>5, OneListening DEF Bit
    <3>. QED
      BY <1>5, <2>1, <2>3, <3>1, <3>2
  <2>. QED
    BY <2>4, <2>5
<1>10. CASE AcceptFails
  <2>1. /\ armed = TRUE /\ armed' = FALSE /\ UNCHANGED <<prep, sq, pc>>
    BY <1>0, <1>10 DEF AcceptFails, workerVars
  <2>2. C' = C + 1
    BY <1>10, KernelPosts, Posted, OneListening DEF Bit
  <2>3. P' = P + 0 /\ Q' = Q + 0
    BY <1>0, <2>1
  <2>. HIDE DEF P, Q, C
  <2>4. 0 + 0 + 1 + Bit(armed') = Bit(armed)
    BY <2>1 DEF Bit
  <2>5. 0 \in Int /\ 1 \in Int
    OBVIOUS
  <2>. QED
    BY <1>1, <2>1, <2>2, <2>3, <2>4, <2>5, ZenonT(30)
<1>11. ASSUME NEW fd \in Fds, NEW more \in BOOLEAN, AcceptDone(fd, more) PROVE ListenInv'
  <2>. DEFINE c == [op |-> "accept", fd |-> fd, more |-> more]
  <2>1. UNCHANGED <<prep, sq, pc>> /\ armed = TRUE /\ armed' = more
    BY <1>0, <1>11 DEF AcceptDone, workerVars
  <2>2. c \in Cqes /\ Post(c) /\ c.op = "accept" /\ c.more = more
    BY <1>11, EntryTypes DEF AcceptDone
  <2>. HIDE DEF c
  <2>3. C' = C + Bit(~more)
    BY <2>2, Posted, OneListening DEF Bit
  <2>4. P' = P + 0 /\ Q' = Q + 0
    BY <1>0, <2>1
  <2>. HIDE DEF P, Q, C
  <2>5. 0 + 0 + Bit(~more) + Bit(armed') = Bit(armed) /\ Bit(~more) \in Int
    BY <2>1 DEF Bit
  <2>6. 0 \in Int
    OBVIOUS
  <2>. QED
    BY <1>1, <2>1, <2>3, <2>4, <2>5, <2>6, ZenonT(30)
<1>12. ASSUME NEW s \in Sessions, \/ Notify(s)
                                  \/ \E ok \in BOOLEAN : RecvDone(s, ok)
                                  \/ \E n \in 0 .. MaxUnits : SendDone(s, n)
       PROVE  ListenInv'
  <2>1. UNCHANGED <<prep, sq, armed, pc>>
    BY <1>12 DEF Notify, RecvDone, SendDone, workerVars
  <2>2. \E c \in Cqes : Post(c) /\ c.op \notin {"accept", "acceptEnd"}
    BY <1>12, KernelPosts
  <2>. QED
    BY <1>5, <1>7, <2>1, <2>2
<1>13. CASE Quiet
  BY <1>2, <1>3, <1>4, <1>6, <1>9, <1>10, <1>11, <1>12, <1>13, <1>18 DEF Quiet
<1>14. ASSUME NEW s \in Sessions, HandleAccept(s) PROVE ListenInv'
  <2>. DEFINE e == [Recv(s) EXCEPT !.fd = Head(cq).fd]
  <2>1. /\ UNCHANGED <<sq, armed, pc>> /\ pc = "loop"
        /\ prep' = Append(prep, e) \/ prep' = prep
        /\ cq \in Seq(Cqes) /\ cq # <<>> /\ Head(cq).op = "accept"
        /\ cq' = AcceptsLeft(Head(cq)) \o Tail(cq)
    BY <1>14 DEF HandleAccept, kernelVars, TypeOK
  <2>2. Head(cq) \in Cqes /\ Tail(cq) \in Seq(Cqes)
    BY <2>1, HeadIn
  <2>3. e \in Sqes /\ e.op = "recv"
    BY <2>1, <2>2, EntryFields, EntryTypes DEF Recv
  <2>. HIDE DEF e
  <2>4. P' = P
    <3>1. prep' = Append(prep, e) => P' = P + One(e, Listening)
      BY <2>3, Prepared
    <3>2. One(e, Listening) = 0
      BY <2>3, OneListening DEF Bit
    <3>. QED
      BY <1>0, <2>1, <3>1, <3>2
  <2>5. C' = C
    <3>. DEFINE left == AcceptsLeft(Head(cq))
    <3>1. left \in Seq(Cqes) /\ Tally(left, Listening) = Bit(~Head(cq).more)
      <4>1. AcceptEnd \in Listening
        BY DEF Listening
      <4>2. Tally(<<AcceptEnd>>, Listening) = 1 /\ Tally(<<>>, Listening) = 0
        BY <4>1, EntryTypes, TallySingle, TallyEmpty
      <4>. QED
        BY <4>2, EntryTypes DEF AcceptsLeft, Bit
    <3>2. C = Tally(Tail(cq), Listening) + Bit(~Head(cq).more)
      <4>1. /\ Head(cq) \in Listening => Tally(Tail(cq), Listening) = C - 1
            /\ Head(cq) \notin Listening => Tally(Tail(cq), Listening) = C
        BY <2>1, TallyTail
      <4>2. One(Head(cq), Listening) = Bit(~Head(cq).more)
        BY <2>1, <2>2, OneListening DEF Bit
      <4>. QED
        BY <1>0, <4>1, <4>2 DEF One, Bit
    <3>3. C' = Tally(left, Listening) + Tally(Tail(cq), Listening)
      <4>. HIDE DEF left
      <4>1. Tally(left \o Tail(cq), Listening) = Tally(left, Listening) + Tally(Tail(cq), Listening)
        BY <2>2, <3>1, TallyConcat
      <4>2. cq' = left \o Tail(cq)
        BY <2>1 DEF left
      <4>. QED
        BY <4>1, <4>2
    <3>4. Tally(Tail(cq), Listening) \in Nat /\ Bit(~Head(cq).more) \in Nat
      BY <2>2, TallyNat DEF Bit
    <3>. QED
      BY <3>1, <3>2, <3>3, <3>4
  <2>. QED
    BY <1>5, <2>1, <2>4, <2>5
<1>15. ASSUME NEW s \in Sessions, Serves(s) PROVE ListenInv'
  <2>1. Handling(Head(cq).op) /\ Head(cq).op \in {"recv", "send", "notif"}
    BY <1>15, ServedSlot
  <2>2. C' = C
    BY <1>8, <2>1
  <2>3. UNCHANGED <<sq, armed, pc>>
    BY <1>15 DEF Serves, HandleReadEnd, HandleSendResult, HandleNotif, HandleReadData, kernelVars
  <2>4. P' = P
    <3>1. CASE HandleReadEnd(s) \/ HandleSendResult(s)
      BY <3>1 DEF HandleReadEnd, HandleSendResult
    <3>2. CASE HandleNotif(s)
      <4>. DEFINE freed == IF head[s] + locked[s] > tail[s] THEN tail[s] ELSE head[s] + locked[s]
                  e == Send(s, freed, tail[s])
      <4>1. prep' = Append(prep, e) \/ prep' = prep
        BY <3>2 DEF HandleNotif
      <4>2. e \in Sqes
        <5>1. head[s] \in 0 .. MaxUnits /\ tail[s] \in 0 .. MaxUnits /\ locked[s] \in 0 .. MaxUnits
              /\ socket[s] \in Fds \cup {NoFd}
          BY DEF TypeOK
        <5>2. freed \in 0 .. MaxUnits
          BY <5>1, Sizes
        <5>. QED
          BY <5>1, <5>2, EntryTypes DEF Send
      <4>3. e.op = "send"
        BY DEF Send
      <4>. HIDE DEF e
      <4>4. prep' = Append(prep, e) => P' = P + One(e, Listening)
        BY <4>2, Prepared
      <4>5. One(e, Listening) = 0
        BY <4>2, <4>3, OneListening DEF Bit
      <4>. QED
        BY <1>0, <4>1, <4>4, <4>5
    <3>3. ASSUME NEW units \in 0 .. MaxUnits, NEW closing \in BOOLEAN, NEW full \in BOOLEAN,
                 HandleReadData(s, units, closing, full)
          PROVE  P' = P
      <4>1. PICK write, read \in Seq(Sqes) :
              /\ \/ write = <<>>
                 \/ /\ Room(0)
                    /\ \E a, b \in 0 .. MaxUnits : write = <<Send(s, a, b)>>
              /\ \/ read = <<>>
                 \/ /\ Room(Len(write))
                    /\ read \in {<<Nop>>, <<Recv(s)>>}
              /\ prep' = (prep \o write) \o read
              /\ io' = [io EXCEPT ![s] = (@ \ {"READING"}) \cup ReadFlag(read)
                                         \cup (IF write # <<>> THEN {"WRITING"} ELSE {})]
              /\ IF read = <<Nop>> THEN Close(s) ELSE KeepOpen
        BY <3>3, ReadDataPrepares
      <4>2. ASSUME NEW e \in Sqes, e.op # "accept" PROVE Tally(<<e>>, Listening) = 0
        <5>1. One(e, Listening) = 0
          BY <4>2, OneListening DEF Bit
        <5>2. e \notin Listening
          BY <5>1 DEF One
        <5>. QED
          BY <5>2, TallySingle
      <4>3. /\ Nop \in Sqes /\ Nop.op # "accept" /\ Recv(s) \in Sqes /\ Recv(s).op # "accept"
            /\ \A a, b \in 0 .. MaxUnits : Send(s, a, b) \in Sqes /\ Send(s, a, b).op # "accept"
        BY EntryTypes DEF Nop, Recv, Send, TypeOK
      <4>4. Tally(write, Listening) = 0
        BY <4>1, <4>2, <4>3, TallyEmpty
      <4>5. Tally(read, Listening) = 0
        BY <4>1, <4>2, <4>3, TallyEmpty
      <4>6. P' = P + Tally(write, Listening) + Tally(read, Listening)
        <5>1. prep \in Seq(Sqes) /\ prep \o write \in Seq(Sqes)
          BY DEF TypeOK
        <5>2. /\ Tally(prep \o write, Listening) = Tally(prep, Listening) + Tally(write, Listening)
              /\ Tally((prep \o write) \o read, Listening) =
                    Tally(prep \o write, Listening) + Tally(read, Listening)
          BY <5>1, TallyConcat
        <5>. QED
          BY <4>1, <5>2
      <4>. QED
        BY <1>0, <4>4, <4>5, <4>6
    <3>. QED
      BY <1>15, <3>1, <3>2, <3>3 DEF Serves
  <2>. QED
    BY <1>5, <2>2, <2>3, <2>4
<1>16. ASSUME NEW s \in Sessions, HandleInactive(s) PROVE ListenInv'
  <2>1. /\ Handling(Head(cq).op) /\ Head(cq).op \in {"recv", "send", "notif"}
        /\ UNCHANGED <<prep, sq, armed, pc>>
    BY <1>16 DEF HandleInactive, kernelVars
  <2>2. C' = C
    BY <1>8, <2>1
  <2>. QED
    BY <1>5, <2>1, <2>2
<1>17. ASSUME NEW s \in Sessions, Expire(s) PROVE ListenInv'
  BY <1>5, <1>17 DEF Expire, kernelVars
<1>. QED
  BY <1>13, <1>14, <1>15, <1>16, <1>17, StepKinds

(* As long as the worker finds an entry for it there is always exactly one *)
(* accept, for rings of any size and however the multishot accept ends:    *)
(* the worker neither goes deaf nor arms the listener twice.               *)
THEOREM AlwaysListening == Spec => []ListenerArmed
<1>1. Init => ListenInv
  <2>. SUFFICES ASSUME Init PROVE ListenInv
    OBVIOUS
  <2>1. Tally(prep, Listening) = 0 /\ Tally(cq, Listening) = 0
    BY TallyEmpty DEF Init
  <2>2. Tally(sq, Listening) = 1
    BY TallySingle, EntryTypes DEF Init, Listening
  <2>. QED
    BY <2>1, <2>2 DEF Init, ListenInv, Bit
<1>. QED
  BY <1>1, TypeCorrect, ListenStep, ListenMeans, PTL DEF Spec
=============================================================================
