# WarpApi in TLA+

WarpApi is a multithreaded HTTP server with two event loops to choose from when
it is built, epoll and io_uring. This directory holds TLA+ models of the parts
of it in which order matters, TLC configurations that check them on small
instances, and proofs checked by TLAPS for all instances.

    tlc -config EpollWorkerSafety.cfg MCEpollWorker
    tlapm UringWorkerProofs.tla

Sources are named relative to `src/`, lines are those of the modelled commit.

## 1. The system

| Part | State | Operations | Model |
|---|---|---|---|
| Worker, epoll build (`EventLoop::runWorker`, one thread per core, shared nothing but the descriptors of the process) | listener, epoll set, `sessionTable`, session pool, timer wheel, `currentLoopTime` | wait, accept, dispatch, expire, stop | `EpollWorker` |
| Worker, io_uring build (the same function) | submission and completion ring, pool, wheel | handle a completion, expire, submit, re-arm the accept | `UringWorker` |
| Session, transport half (`Session.cpp`) | socket, write ring; in the io_uring build status, I/O flags and pinned bytes | `onReadReady`, `onWriteReady`, `onWriteComplete`, `processRead`, `processWrite`, `close` | `HttpConnection` (epoll), `UringWorker` (io_uring) |
| Session, HTTP half (`Session.cpp`, `HttpRequest.h`, `HttpResponse.h`) | read ring, `_req`, `_keepAlive` | `parseRequest`, `handleRequest`, `upgradeToWebSocket`, `setBody` | `HttpConnection` |
| WebSocket frames (`WebSocket.cpp`, `WebSocketContext.cpp`) | `WsState`: route, `closeSent`; both rings | `processFrames`, `dispatchFrame`, `sendFrame`, `sendText`, `close` | `WebSocketCodec` |
| Registry (`EndpointManager`, `Endpoint`, services) | a tree of routes per method | register (look-ups: part of a request in `HttpConnection`) | `ServerLifecycle` |
| Settings | one static `SettingsData` | load, validate (`updateSettings` is not called) | `ServerLifecycle` |
| Life cycle (`HttpServer`, `EventLoop`, `main`) | the `_running` flags, the signal flag, the threads, their listeners | register, start, poll, stop, destroy; set up and return of a worker | `ServerLifecycle` |
| Text utilities (`StringUtils`, `Conversions`) | none | `find_crlf`, `fast_atoi`, `fast_itoa`, `iequals_small`, base64, `urlEncode`, `urlDecode` | `TextCodecs` |

The process starts `max_threads` workers, each with a listening socket on the
same port (`SO_REUSEPORT`). A worker owns everything it needs, except that
descriptor numbers come from one table for the whole process: a number closed by
one worker may be given to another's next connection. The worker calls the
session's handlers; the handlers call the endpoint and write into the session's
write ring; both sides close sockets. In the io_uring build the kernel is a
third party that holds pointers into sessions until it has posted the
completion. `main` sets a flag in its signal handler, polls it, and calls
`stop()`, which clears `_running` and joins.

What is hard here:

- a batch of events, or a ring of completions, describes a moment that has
  passed when it is handled: sockets close, numbers and slots are reused;
- the sockets are edge triggered: what is not done now may never be told again;
- a session's slot comes back by one of several ways (hang-up, wheel,
  completion), and each has to know whether another is under way;
- a send in the io_uring build ends twice, with a result and a notification;
- the wheel runs on a clock that is read once per iteration;
- TCP cuts requests and frames anywhere, clients pipeline, and the fields of `_req`
  and `_keepAlive` live from one request to the next;
- set-up fails in the middle: of a thread among others that run, of `start()` before
  its flag is set, of a configuration of which some fields have been assigned.

`PROJECT.json` lists the hazards line by line with the properties that are about
each of them.

## 2. The modules

### EpollWorker

All workers of the epoll build. A step is one syscall or one handler. `pc[w]`
says where a worker is: `"run"` (in the loop: the batch if there is one, else
the wheel, else the top), `"wait"` (in `epoll_wait`), `"accept"` (in the
`accept4` loop), `"done"`.

| Model | Code (`EventLoop.cpp`) |
|---|---|
| `LoopTop`, `LoopExit` | 132-135; 222-225 |
| `EpollWait` | 138, the batch is what is on the set's ready list |
| `StartAccept`, `Accept`, `AcceptAborted`, `AcceptRetry`, `AcceptDrained` | 146-180: success; an error to be ignored; EMFILE; EAGAIN. `accept4` takes a descriptor before it looks at its queue, so without a free one EMFILE is the answer of an empty queue too |
| `DispatchHangup`, `DispatchIo` | 182-212, with and without `EPOLLERR`/`EPOLLHUP` |
| `ExpireTick` | one round of 215-221 |
| `Stop`, `Finished` | `stop()`, 43-53 |
| `Connect`, `Signal`, `ClockTick` | clients, the kernel's readiness, the clock |

`sessionTable`, `live` (the slots in use) and `socket` are the worker's view,
`owner` is the kernel's: which connection stands behind a descriptor. `ready` is
the kernel's list of edges. What `onReadReady` and `onWriteReady` do is reduced to
what the loop sees of it: activity or not, socket closed or not (`IoReport`: they
return true whenever they close).

Time is in wheel ticks and relative: `due[w]` ticks lie between the wheel and the
clock, `loopDue[w]` between the wheel and `currentLoopTime`, `age[s]` is
`currentLoopTime - lastActivityTick`, cut at 2 because the code only asks whether
a tick has passed. An age of 1 may or may not amount to a whole
`TIMERWHELL_TICK_INTERVAL`, so at 1 the model may refresh and may not.

### UringWorker

One worker of the io_uring build, its sessions' transport half and the kernel.
Workers of this build interact only through descriptor numbers, which one worker
with few descriptors shows as well. `prep` holds the entries the worker has
filled in, `sq` those it has submitted, `cq` the completions it has not seen;
`recvs`, `sends` and `notifs` are what the kernel has in hand. The worker handles
one completion per step; with the queue empty it expires and submits. Of a
response only its length in units matters: `head`, `tail` and `locked` are the
write ring and `_lockedZcBytes`, and `wired` says how many units have reached the
wire in order.

| Model | Code |
|---|---|
| `HandleAccept`, `AcceptsLeft`, `HandleAcceptEnd`, `FlushFull` | `EventLoop.cpp` 321-356 and `getSqeSafe`, 289-297: a connection, an end of the multishot accept, or both in one completion |
| `HandleNop`, `HandleInactive` | 359-360; 370-375 |
| `HandleReadEnd`, `HandleReadData` | `processRead`, `Session.cpp` 228-273, for any outcome of the handlers |
| `HandleSendResult`, `HandleNotif` | `processWrite`, 275-315 |
| `Expire`, `Submit` | `EventLoop.cpp` 410-426; 428 |
| `TakeSqe`, `RecvDone`, `SendDone`, `Notify`, `AcceptDone`, `AcceptFails` | the kernel and the clients |

A completion that brings a connection and has no `F_MORE` (the kernel posts it when the
completion queue overflows) is handled in two steps, the connection and then the re-arm;
no other completion comes between them. A null pointer that the code follows ends the
process: `pc` is then `"noSession"` (the completion of a NOP has no `IoRequest`) or
`"noEntry"` (the re-arm of the accept got no entry), and the worker does nothing more.

### HttpConnection

One connection of the epoll build from the client's bytes to the bytes of the
answers. The stream is a sequence of pieces; a line is two pieces, so segments
end in the middle of a line, behind it, or in a body. `onReadReady` is the walk
of `pc` through `"recv"`, `"parse"`, `"handle"` and `"flush"`; `parseRequest` is one
step (`ParseWhole`, `ParsePart`), with all it leaves behind when it gives up.
`wire` is everything the socket has taken, `taken` how much of it the client has
read; both are there to compare with what is due to the client. The head of an answer has
its `Connection` and `Content-Length` lines, each under the name that `setBody` finds for
it: `HeaderStrings` has the names in order, a `HeaderType` is a bit, and so the one goes
out as `Authorization` and the other as `User-Agent`.

`parseRequest` takes any line with two spaces for a request line. The lines with two spaces
that a client of the model sends are request lines and `User-Agent` lines; the latter come
first in the data only when a request has been taken for whole before all of it was there,
which `torn` records. What follows such a request (its remaining headers, its body) is then
parsed as a request or waited upon, as in the code.

A `patient` client sends a request only after the answer to the one before, does
not end a segment right behind a header line, and ends its stream when all is
answered. A client that is not patient does as it likes. Some properties hold
for every client and some for patient ones only; the difference is this code's
and not the model's (see http_split and section 6).

### SlotLifecycle

The abstract specification of what both loops promise of the session pool: a slot is
free, open or closed; a connection goes into a free slot only and only if no other
slot holds its descriptor; a slot leaves "open" by closing and becomes free by being
returned. `EpollWorker` and `UringWorker` both instantiate it with `phase <- Phase` and
`holds <- socket`; `SlotsKept` says that they implement it. It has no lines of its own
in the code: it says what `ObjectPool::acquire`, `Session`'s constructor, `close()` and
`releaseSession` have to amount to together, in the one build as in the other.

### ServerLifecycle

The process from `main` to its end. `main` says where the main thread is; `worker[i]`
how far thread `i` has come; `listener` which of them have their `listenFd` open. A
step is a call that may fail or that another thread can notice.

| Model | Code |
|---|---|
| `NoSettings`, `ReadSettings` | `main.cpp` 44-50, `Settings::Settings` |
| `LoadSettings`, `IsValid` | `Settings.cpp` 65-84, 7-33 |
| `Register`, `RegisterTwice`, `ServicesReady` | `EndpointManager.cpp` 19-36, called by the constructors of the services |
| `ConstructServer`, `AssertFails` | `main.cpp` 64, `HttpServer.cpp` 5-11 |
| `EnterStart`, `SpawnWorker`, `SpawnThrows`, `Started` | `HttpServer::start`, `EventLoop::start` |
| `Signal`, `Poll`, `CallStop`, `StopServer`, `StopLoop`, `Join`, `AllJoined` | the handler, the poll, both `stop()` |
| `DestroyServer`, `DestroyLoop`, `DestroyThreads` | the destructors, which an exception in `start()` reaches too |
| `OpenSocket`, `SocketFails`, `Bind`, `Listen`, `SetupFails`, `EnterLoop`, `EnterDeaf`, `LeaveLoop` | `runWorker` before and behind its loop |

The loop itself is `"serving"`: `EpollWorker` and `UringWorker` are about what happens
in it. The two meet in `_running`: `LeaveLoop` is enabled when it is clear. Whether a worker
gets there is not for this module to say, and its fairness does not say it:
`ShutdownCompletes` has `WorkersLeave` as its premise. For the epoll build that premise is
`ShutdownCompletes` of `EpollWorker`, true while descriptors do not run out and false when
they do (epoll_fd_limit). For the io_uring build it is not shown.

`SettingsData` is there with all its fields; a value is a number (0 for an empty `ip`), or
`Unreadable`, at which `EnhancedJson::get` throws and `loadSettings` stops half way. A port
is taken modulo 2^16, as `get<uint16_t>` does. `updateSettings` has no caller and is left
out: it copies `_data`, loads the copy and assigns it back without a lock, which is a data
race with every worker and not the "thread-safe" of `Settings.h` 38.

### WebSocketCodec

One connection in WebSocket mode, from the accepted upgrade on. A client's frame is a
head, an extended length if it has one, a mask and its payload, in pieces that arrive in
any portions; a step is one turn of `processFrames`' loop or one syscall.

| Model | Code |
|---|---|
| `Init` | the accepting end of `upgradeToWebSocket`, `Session.cpp` 501-529, with `onOpen`'s "connected" |
| `Wake`, `Recv`, `RecvEmpty`, `RecvFull`, `Flush`, `HandleOut`, `Sent` | epoll build: an edge, the loop of `onReadReady` with its flush, which stops receiving on EAGAIN, and `onWriteReady`, `Session.cpp` 78-174 |
| `Recv`, `RecvFull`, `Released` | io_uring build: `processRead` 243-273; the release of sent bytes by `F_NOTIF` |
| `ClientSend`, `ClientReads`, `ConnectionEnds` | the client and the wheel |
| `Refused`, `AwaitMore`, `Whole`, `Dispatch` | `processFrames`, `WebSocket.cpp` 97-160 |
| `Answer`, `Goodbye`, `Farewell`, `Write` | `dispatchFrame`, 46-95, with `onMessage` and `onClose`; `sendFrame`, 15-44; `WebSocketContext.cpp` |
| `Over`, `Abandoned` | what a false result does: `close()` in the epoll build, with what is in the write ring; `Closing` in the io_uring build |

`put` is everything that was written to the write ring, `wire` what the epoll build has handed
to the kernel. What the io_uring build puts on the wire, perhaps twice, is `UringWorker`'s
matter (uring_wire); here it only frees the front of the ring. A route sends the payload
back or closes in `onMessage`, and sends a frame or nothing in `onClose`.

`Init` is the moment the upgrade has been accepted, with an empty read ring: a client that
sends frames behind its upgrade request without waiting for the 101 is outside it.

### TextCodecs

The functions on text, as operators on sequences of character codes. `find_crlf` walks
in chunks of any width, `fast_atoi` wraps at any modulus, `HexVal` is the table of
`urlDecode` as it stands. `MCHttpConnection` extends the module and states as assumptions
what the functions are for; TLC evaluates them at the start of each HTTP run:

| Assumption | Says |
|---|---|
| `FirstReturn` | `find_crlf` returns the first CR, wherever chunks end |
| `NumbersReadBack` | `fast_atoi` inverts `fast_itoa`, and wraps where the type ends |
| `KeywordsOnly` | against a lower-case keyword, `\| 32` compares letters without case and nothing else |
| `TokensDecode` | base 64 decodes to what was encoded |
| `EscapesLost` | `urlDecode` inverts `urlEncode` on unreserved characters only (section 6) |

## 3. The runs

| Run | Question and result |
|---|---|
| `epoll_safety` | Do kernel, table, pool and wheel agree at every moment? Yes: `FdOwnership`, `DispatchSafe`, `ClosedOnWheel`, `NoStranded`; and slots are used as `SlotLifecycle` says, `SlotsKept`. |
| `epoll_live` | Does the wheel keep its promise (`NoPrematureDrop`), do slots come back (`ClosedReclaimed`), are clients taken (`BacklogServed`), does `stop()` return (`ShutdownCompletes`)? Yes, if the wheel has more than `MaxLag + 1` slots and as long as descriptors do not run out. |
| `epoll_fd_limit` | The same `ShutdownCompletes` with one descriptor for two clients: violated. `accept4` says EMFILE, though nobody waits, and is called again, for ever. |
| `epoll_silent` | Is every accepted connection timed? No: one that never sends is not on the wheel. |
| `uring_safety` | Are flags, memory given to recv, wheel, descriptors and listener consistent under every interleaving? Yes: `RecvPinned`, `FlagsBacked`, `NoLimbo`, `FdOwnership`, `ListenerArmed`, and `SlotsKept`. |
| `uring_wire` | Does the client get each byte once and in order? No, if a request is read between the result of a send and its notification. |
| `uring_release` | Is a closing session freed once the kernel is done with it? No: the completion that should do it is ignored because its own flag is still set. |
| `uring_foreign` | Does an operation run on its own connection? No: a failing send closes the socket while the session's recv is still in the submission ring, and the number goes to a new connection. |
| `http_connection` | Are requests handled in order (`InOrder`, any client, until one is taken for whole that was cut behind a header line), and does a patient client get its own answers (`OwnAnswers`, if the head of each request fits the read ring), every one (`EachAnswered`), on a connection that is closed only for a reason it gave (`CloseJustified`)? Yes. |
| `http_split` | Is a request handled only when all of it is there? No, if a segment ends with a header line. |
| `server_lifecycle` | Is the registry complete before a worker reads it (`RoutesBeforeWorkers`), is every thread joined however `main` leaves (`NoTerminate`, `NoneOutlivesMain`), every listener closed by whoever opened it (`ListenersClosed`), and does a signal at any moment, or a failing `start()`, end the process if told workers leave their loops (`ShutdownCompletes`)? Yes. |
| `websocket` | Is each frame handled, once, in order, wherever the stream is cut (`FramesInOrder`, `NothingLeft`, `EachFrameHandled`); does only a frame that cannot fit fill the ring (`FullOfOneFrame`); are replies written whole and in order, and sent so by the epoll build (`RepliesIntact`); is a session silent once `dispatchFrame` has ended it (`SilentOnceOver`)? Yes. |

The runs that end in a violation are findings: `PROJECT.json` says for each which
line of the repository promises otherwise.

### Bounds

- `EpollWorkerSafety`: two workers are the fewest that reuse each other's
  descriptors; two descriptors and three slots (two in one pool) let a slot and a
  number be reused separately and together. One wheel slot and one tick of lag
  make every expiry race with every event. `Connect` keeps the listen queue within
  the pool: what `ObjectPool::acquire` returns when it is empty is not in the
  repository.
- `EpollWorkerLive`: one worker is enough, because liveness of a worker depends on others
  only through descriptors. There is one more of them than there can be connections, so
  that `accept4` finds one and EAGAIN can come; `EpollWorkerFdLimit` has fewer. The
  wheel's promise needs `WheelSlots > MaxLag + 1`; 3 and 1 are the smallest such values.
- `UringWorkerSafety`: one descriptor for two sessions forces reuse and a failing
  accept; a submission ring of two and a completion ring of one make both full in
  every phase. `MaxSends` bounds the sends and notifications the kernel holds when
  data arrives, and two allow them to overlap. `PromptKernel = FALSE` lets the
  wheel overtake the SQPOLL thread.
- The violation runs of `UringWorker` set `PromptKernel = TRUE`, so that none rests on a
  kernel that is slower than `connection_timeout_ms`, and have larger rings.
- `HttpConnection`: a first request of each of nine kinds, one of them with a header line
  that passes for a request line, and a second that shows what the first left behind. The
  read ring holds any one request and no two; the write ring holds an answer and a half,
  the socket one piece, so that truncation, partial sends and EAGAIN happen.
- `ServerLifecycle`: two cores, so that one thread may fail to start, to bind or to return
  while another is anywhere; configurations with fewer threads than cores, with more, with
  none, without backlog, with ports that do not fit 16 bits, and one that stops being
  readable at each field; a service list with a duplicate.
- `WebSocketCodec`: a frame that is answered, then one of each of nine kinds, then one
  more, so that every kind has something before it and behind it; two routes, one that
  echoes and says farewell and one that closes, in both builds. The read ring holds four
  pieces: each allowed frame but the longest one fits, which is the point of
  `FullOfOneFrame`; the write ring of five overflows if the transport is slow, and the socket
  takes any part of what it is given, so that partial sends and EAGAIN happen.
- `TextCodecs` (TLC's side of it): strings of up to seven characters over chunks of up to
  four; numbers up to 1200 against a modulus of 256; every byte against every letter; every
  ASCII character.

`SYMMETRY` is used in the safety runs only: slots of one pool and descriptors are
interchangeable. `CHECK_DEADLOCK FALSE` stands where the system may stop: an io_uring
worker that has crashed or has lost all its slots; a connection that is closed, or
on which both sides wait; a process that has ended. The epoll workers must never stop
before `"done"`, and deadlock is checked there.

### Fairness

`EpollWorker.FairSpec`: a thread that can run is run, and the clock advances
(`epoll_wait` has a timeout, so a worker always can). Nothing is asked of clients or
of the administrator. `Flooded` excludes one behaviour from the liveness
properties: clients that connect so fast that one `accept4` loop never sees EAGAIN.

`UringWorker.FairSpec`: the worker runs; the kernel takes entries and finishes sends,
as TCP does or gives up doing; `Expire` is strongly fair, since the wheel is turned in
every iteration no matter how many completions arrive. No recv needs to complete: a
client may be silent for ever.

`HttpConnection.FairSpec`: the worker runs and the client reads what it is sent.

`ServerLifecycle.FairSpec`: the main thread, and each worker in its set-up, if they can
take a step, take one. Nothing is assumed of signals, nor of a worker in its loop: that it
leaves when it is told is the premise `WorkersLeave` of the property.

`WebSocketCodec.FairSpec`: the worker runs, and the client reads what it is sent. The latter
is needed: the epoll build stops receiving when the socket is full, and a client that does
not read is not served until the wheel ends it. In the io_uring build the fairness stands for
a recv that is re-armed: `processRead` gives up re-arming it when the submission ring is
full, and then the wheel ends the connection.

## 4. The proofs

`EpollWorkerProofs` proves the safety properties of `EpollWorker` for any number of
workers, slots and descriptors, any assignment of slots to workers, any wheel and
any lag, from `WorkerAssumption` alone (`NoEarlyTimeout` also needs
`WheelSlots > MaxLag + 1`):

| Theorem | Statement |
|---|---|
| `TypeCorrect` | `Spec => []TypeOK` |
| `Ownership` | `Spec => []FdOwnership` |
| `SafeDispatch` | `Spec => []DispatchSafe` |
| `Reclaimable` | `Spec => []ClosedOnWheel` |
| `NoLostWakeup` | `Spec => []NoStranded` |
| `NoEarlyTimeout` | `Spec => NoPrematureDrop` |

None of the properties is inductive by itself. The invariant `Inv` adds:

- `FdInv`: the table of the home worker names the holder of every open descriptor,
  and a slot without a Session holds none. Without it `Release` could clear an entry
  that matters, and `Accept` could construct a Session in a slot that still has a
  socket.
- `BatchInv`: an event left in a batch belongs to the worker's own epoll set, now and
  not only when it was collected. This is what makes the missing null test safe: a
  handler closes only the descriptor of its own event, so no other event of the batch
  loses its session, and no other worker closes it.
- `TimerInv`: the loop's clock is not ahead of the real one, a session with a recent
  stamp is linked, an empty slot is not.

`DispatchTarget` draws the conclusion for one event; one lemma per part of the
invariant has one step per action; `Invariance` combines them. For the wheel
`FullLease` is inductive relative to `Inv`: a session refreshed lately has a full turn
ahead of it, less what the wheel was behind then and what has passed since, so it
cannot be at its last tick while its age is below 2.

`SlotRefinement` (`Spec => SlotsKept`) follows from the same invariant: `Accept` is
`Open`, because `FdInv` says that a descriptor the kernel has just given out is held by no
slot; `DispatchIo` is `Shut` or nothing, since a handler closes its own socket only;
`DispatchHangup` and `ExpireTick` are `Return`. `SlotLifecycleProofs.ExclusiveHolder` then
holds of the workers without looking at them.

`UringWorkerProofs`, with `SequenceLemmas`, does the same for the io_uring worker, for any
number of slots and descriptors and any size of the rings and of responses, from
`UringAssumption`:

| Theorem | Statement | Invariant it rests on |
|---|---|---|
| `TypeCorrect` | `Spec => []TypeOK` | itself: no ring ever exceeds its size |
| `Reclaimable` | `Spec => []NoLimbo` | `WheelInv`: an Active session is on the wheel, a free slot is not, and what is in use off it is closed with a flag set |
| `Ownership` | `Spec => []FdOwnership` | `FdInv`: for each descriptor, its owner, its holder and the tally of accept completions that carry it agree |
| `SlotRefinement` | `Spec => SlotsKept` | `FdInv` and `WheelInv` |
| `PinnedMemory` | `Spec => []RecvPinned` | `IoInv` |
| `NoStalledSession` | `Spec => []FlagsBacked` | `IoInv` |
| `AlwaysListening` | `Spec => []ListenerArmed` | `ListenInv`: the armed accept, those in the two submission stages, and the completions that end one are together exactly one |

What is new here is counting: an operation moves from `prep` to `sq`, from there to the
kernel's hands and comes back through `cq`, and the invariants speak of how many there are
on the whole way. `SequenceLemmas` has the tally of a set of entries in a ring, and what
appending an entry and removing the first do to it, for rings of any length; this takes no
induction, since the tally of a sequence is a cardinality of positions. `IoInv` says for
each slot that at most one recv is somewhere on its way, and then `READING` is set (`Pinned`),
and that behind `WRITING` and `WAITING_ZC` there are sends and notifications (`Backed`);
`NotifFollows`, that a notification of a send stands in `cq` behind the result that
announces it or is still with the kernel, is what makes the latter inductive: without it
handling a result could set `WAITING_ZC` for a notification that has been handled.

`ServerLifecycleProofs` proves the five invariants of `ServerLifecycle` for any number of
cores, any configurations and any services. The inductive invariant has `RosterInv` (a
thread that runs is one of `_threads` and has not been joined), `PhaseInv` (while there
are threads, `EventLoop::_running` is set or they are being joined, so that whichever
destructor comes first will stop the loop), `RegInv` (what is registered and what is pending
are together the routes of one service list) and `ListenInv` (a listener is open from
`socket()` to the return). `PhaseInv` is the reason why it does not matter that
`HttpServer::_running` is still false when a thread cannot be started: `~EventLoop` calls
`stop()` again.

`WebSocketCodecProofs` and `HttpConnectionProofs` prove the safety properties of the two
connection modules for any frames or requests, any way to cut the stream, and any sizes of
rings and socket buffer, from `CodecAssumption` and `HttpAssumption`.

Their streams are joined from the encodings of the frames or requests (`FlattenSeq`), and
what is at which place of them is a matter of induction. The induction theorems of the
library have an operator as a parameter, which the provers cannot instantiate, but the
theorem on well-founded relations has a set: `SetInduction` and `BoundedInduction` of
`SequenceLemmas` follow from it and from the order of the naturals. With them the module
shows that joining exists and adds up (`FlattenAppend`), where part `k` begins and ends
(`Layout`), whose part a place belongs to (`Located`), and that one sequence of parts
begins another (`UptoPrefix`).

| Theorem of `WebSocketCodecProofs` | Statement |
|---|---|
| `TypeCorrect` | `Spec => []TypeOK`: no ring ever exceeds its size |
| `FramesHandledInOrder` | `Spec => []FramesInOrder` |
| `NoFrameLeftWaiting` | `Spec => []NothingLeft` |
| `FullForOneFrameOnly` | `Spec => []FullOfOneFrame` |
| `RepliesStayIntact` | `Spec => []RepliesIntact` |
| `SilentAfterGoodbye` | `Spec => SilentOnceOver` |

The invariant `IInv` is the conjunction of `TypeOK`, `FramesInOrder`, `NothingLeft` and
`RepliesIntact` with three facts: the stream stays what the client has encoded (`Encoded`),
what was written, what the write ring holds and what the wire has are pieces of replies
(`RingInv`), and a session for which `dispatchFrame` has sent a Close is no longer open
(`SilentInv`). `AtNextFrame` is its core: since what has been
consumed ends with a frame, the head the parser looks at is the head of the next frame and
not of anything else. `SilentInv` is what `SilentOnceOver` needs, `FullOfOneFrame` follows from
`NothingLeft` without being inductive, and `DueNext` says that the replies due to one frame
more are the replies due so far and those to this frame.

| Theorem of `HttpConnectionProofs` | Statement | Invariant it rests on |
|---|---|---|
| `TypeCorrect` | `Spec => []TypeOK` | `IInv` |
| `HandledOnceInOrder` | `Spec => []InOrder` | `IInv` |
| `AnswersAreOwn` | `Spec => []OwnAnswers` | `PInv` |
| `ClosesWhenJustified` | `Spec => CloseJustified` | `PInv` |

`InOrder` is true of every client, however it cuts its stream and pipelines, until a
request that was cut behind a header line has been taken for whole (`torn`). `OrderInv` says
where the session is until then: at the beginning of the next request (`Placed`). It is the
core of the proof that the line `parseRequest` finds is then that request's own, although any
line with two spaces would do. Behind a torn request nothing is promised, since its
remaining lines may be handled as requests: http_split is where that begins.

For a patient client `PInv` adds that no request is ever torn (`Turn`), and `Exchange`
relates both ends of the connection. `Manners` says what a patient client has sent: nothing
beyond the first request it has no answer to, and no segment that ends behind a header line,
so what the session has received does not end there either. `Wired` says that the wire and
the write ring are the answers the client has read and, if one more request has been handled,
as much as fits of that answer. `Taken` says that the fields are those of the request that is
handled; it needs `Fresh`, that after an answer has left nothing of its request remains in
`_req`, which is what `_req.reset()` is for. `Promised` says that `_keepAlive` is what
the request of the waiting answer has led to (`Parting`), which is what the closing of the
write path goes by; the answer itself cannot say it, under the name it has for it. `Drained` says
that where `parseRequest` is not about to run there is no whole request in the ring; from it
follows that a ring that is full is full of a request that does not fit it.

An earlier form of `OwnAnswers` did not withstand the proof: nothing in it excluded a request
whose head alone is larger than the read ring. Of such a head the ring may end behind a
header line although no segment does, and `parseRequest` takes the lines it has for a whole
request; TLC shows it with a ring of two pieces. The property is now about clients that are
patient and whose heads fit (`HeadFits`), whatever the size of their bodies. The default
ring has 64 KiB.

`TextCodecsProofs` proves what the functions on text return, for inputs of any length. The
recursive ones are defined by their equations: that functions with these equations exist is
shown by induction (`ReadingExists`, `WritingExists`, `EncodingExists`, `DecodingExists`).

| Theorem | Statement |
|---|---|
| `FirstReturn` | `find_crlf` returns the first CR, for chunks of any width: chunks do not overlap (`ChunksApart`) and leave no place out (`ChunkOf`) |
| `KeywordsOnly` | a header value is taken for a keyword exactly if it spells it in some mixture of cases. A value with a CR in it is excluded: `\| 32` takes that for the hyphen of `keep-alive` |
| `NumbersReadBack` | `fast_atoi` returns the number that `fast_itoa` has written, modulo the size of its type, whatever stands behind it (`DigitsRead`, `DigitMore`) |
| `LengthsFit` | any number below 2^64 fits the buffer of `setBody` |
| `TokensDecode` | the accept token of the handshake decodes to the digest: three bytes are packed into 24 bits and taken apart as six-bit characters (`GroupDecodes`), and character `j` of group `g` is the one the decoder looks for (`CodePlaces`, `Characters`), the padding included |
| `EscapesLost` | whatever `urlEncode` escapes in any byte string, `urlDecode` makes NUL |

All safety invariants and action properties that passing runs check are proved
(`NoPrematureDrop` is `NoEarlyTimeout`'s). What is model-checked only is liveness:
`ClosedReclaimed` and `BacklogServed`, `ShutdownCompletes` of both modules, `EachAnswered`
and `EachFrameHandled`. TLAPS has no rules for fairness and ENABLED.

## 5. What stands outside

- The ink library (`TimerWheel`, `ObjectPool`, `RingBuffer`, `InkixTree`) is not in the
  repository. Assumed: `update` links a node a full turn ahead of the wheel's position;
  `processExpired` unlinks each expired node and calls back once; a released slot may be
  acquired again; `getReadBuffer` shows all the bytes of the ring in one piece,
  `advanceReadPos` stops at the end of the data, `write` writes what fits.
- Kernel: edge-triggered epoll reports all that holds when it is asked; closing a
  descriptor removes it from its set; io_uring looks a descriptor up when it takes the
  entry; completions are never dropped (`IORING_FEAT_NODROP`, which the code asserts).
- Whether a failed `INK_ASSERT` ends the process depends on how ink is built:
  `ServerLifecycle` has both outcomes.
- Not modelled: thread affinity, the sizes of tables (`sessionTable.resize`), logging,
  `setrlimit`, the Windows parts.
- `ServerLifecycle` takes a port that another process holds as `bind` failing. The
  listening queues of `SO_REUSEPORT`, which distribute clients over the workers, are the
  kernel's.
- `WebSocketCodec` has one unit of payload per piece, so masking and the bits of the header
  are out of it; opcodes 0xB to 0xF are left out. Of the io_uring build's way to the wire it
  has the release of the write ring only: how the bytes get there, perhaps twice, is
  `UringWorker`'s subject.
- `Settings::updateSettings` has no caller and is left out.
- `TextCodecs` leaves out `hashStr`, `is_crlf`, `is_header_end` and `Conversions::iequals`.
- `HttpConnection` leaves out the spelling of request headers (`parseRequest` goes by the
  length of the name), the lines of an answer's head but Connection and Content-Length, the
  method, the query, and `MIN_REQUEST_SIZE`, which every request line of the model
  exceeds. `addHeader` stores the upgrade headers outside its array; the
  model has a crash as one outcome and, as the other, no effect on this connection. What
  the write does to a neighbouring session is not modelled. `getHeader` never returns a
  value (its test asks for a key below `None`), so every upgrade of a WebSocket route is
  refused and the WebSocket mode is never entered.

## 6. What the models taught

Beside the findings, reading and modelling showed these. Where TLC is named, a formula that
says the opposite was checked and violated while the model was written; no run repeats it.

HTTP:

- `HeaderStrings` has 14 names and is indexed with a `HeaderType`, which is `1 << position`
  (`HttpResponse.h` 83 and 90): `Connection` goes out as `Authorization` and
  `Content-Length` as `User-Agent`. No answer on a kept connection says where its body
  ends, and none tells the client whether it will be closed. From TLC: no piece of any answer
  has the name `Content-Length`. `CloseJustified` and `OwnAnswers` are therefore about what
  the request asked for and about the values, not about what a client could read.
- A request of which only part has been received already decides `_keepAlive`
  (`Session.cpp` 378). A pipelining client whose second request says "Connection: close" and
  has its body in the next segment loses that request: the answer to the first, which was
  written to keep the connection, is followed by a close (TLC). `CloseJustified` is false of
  a client that pipelines and is patient in all else.
- Of two requests handled from one segment the second, if it has no body, is answered with
  the body of the first, because `_req` is reset only when the write ring runs empty (TLC);
  and answers that exceed the write ring are cut. `OwnAnswers` is false of the same client.
- A request whose head is larger than the read ring is not refused but may be taken for a
  whole one as soon as the full ring ends with a header line. `OwnAnswers` is false of a
  patient client that sends one, which came out when it was to be proved (section 4).

Workers:

- Submitting makes no room in a ring full of published entries: `getSqeSafe` returns null
  a second time and the re-arm of the accept (`EventLoop.cpp` 351-352), unlike a connection's
  first recv, does not test for it. TLC finds it with a ring of two that holds a recv and a send.
- `IO_WAITING_ZC` is one bit for any number of sends. With a second send started between the
  result and the notification of the first, the first notification clears it
  (`Session.cpp` 280), and a slot may be freed while the kernel still has its pages and owes it
  a notification (TLC). `RecvPinned` is true and proved; the like for sends is not.
- A read ring left full crashes an io_uring worker when the NOP completes.
- In the epoll build a session whose socket has closed keeps its slot until the wheel
  reaches it.

WebSocket:

- `WebSocketContext::close` sends a Close and does not set `closeSent`: frames of the client
  are still handled, and its Close is answered with a second one (TLC). `SilentOnceOver` is
  therefore about the Close of `dispatchFrame`, and begins when `onClose` has returned, which
  may write behind it.
- In the epoll build a false result of `processFrames` is followed by `close()` at once: the
  Close it wrote, and replies to earlier frames of the same segment, stay in the write ring
  (TLC). `RepliesIntact` allows a prefix there, and there only.
- A reply that does not fit the write ring is cut in the middle of a frame, since `sendFrame`
  ignores what `writeAll` returns, and what follows it on the wire cannot be told apart by the
  client (TLC). `RepliesIntact` holds up to there (`cut`).
- In the io_uring build a Close that is written while an earlier send is in flight is never
  sent: the completions of a Closing session start no further send. `WebSocketCodec` lets it
  wait in the ring until the connection ends.
- A read ring no larger than `max_body_size` and its header makes some allowed frames
  impossible to receive; both are 64 KiB by default.

Life cycle and the rest:

- `Settings::Settings` ignores what `loadSettings` returns and keeps what was assigned before
  `get` threw, and `isValid` does not look at the fields that come last. After a
  `config.json` that fails at `connection_timeout_ms` the server starts with a timeout, and so
  a timer wheel, of 0 and with rings of 0 bytes (TLC).
- `Settings.h` 38 calls `updateSettings` thread-safe. It assigns `_data` without a lock while
  workers read it; it is not called.
- If every worker fails to bind, they all return and `main` polls on: the process lives
  and listens nowhere until a signal comes. `ShutdownCompletes` holds of it. An epoll worker
  whose `epoll_create1` fails runs its loop all the same, with a listener open on which the
  kernel queues clients that nobody accepts (`EnterDeaf`).
- `EndpointManager::count` adds the numbers of trees, not of routes. `ip` of the settings is
  validated and never used: `bind` takes `INADDR_ANY`.
- The entries of `hexval` in `Conversions.cpp` are not at the codes of their digits (those of
  "0" to "9" are 32 places too far): `%20` decodes to NUL, as does all that `urlEncode`
  escapes (`EscapesLost`).

## 7. What is left

- A composition of the two loops with `ServerLifecycle`. They meet in `_running` alone, and
  what each assumes of the other about it is stated under Fairness.
- Not modelled, because there is nothing to check without the library: the radix tree of
  routes, the ring buffer, the object pool and the timer wheel themselves; request
  headers by name and query parameters, which this version stores and never returns
  correctly; the bodies of the handlers in `GeneralServices`, which compute a response from
  a request and keep no state.
