---------------------------- MODULE ServerLifecycle ----------------------------
(***************************************************************************)
(* The process from main to its end: the settings, the registration of the *)
(* services' routes, HttpServer::start and stop over EventLoop::start and  *)
(* stop, and what a worker thread does outside its loop: the start-up of   *)
(* its listener, which may fail at every call, and the return.             *)
(*                                                                         *)
(* main and the workers are threads; a step is a call of the code that can *)
(* fail or that another thread can notice.  Exceptions unwind: from a      *)
(* failing registration at once, from a failing start through the          *)
(* destructors of HttpServer and EventLoop.                                *)
(***************************************************************************)
EXTENDS Naturals, Sequences

CONSTANTS
    Cores,      \* std::thread::hardware_concurrency(), 0 if unknown
    Configs,    \* what config.json may say, defaults filled in
    Unreadable, \* a value that EnhancedJson::get refuses to convert
    Services    \* the routes that the services register, in their order

(* The fields of SettingsData in the order in which loadSettings assigns   *)
(* them; of all but port and max_threads it only matters whether they are  *)
(* 0 (for ip: empty) and whether they have been assigned.                  *)
Place == [ip |-> 1, port |-> 2, max_threads |-> 3, backlog_size |-> 4,
          connection_timeout_ms |-> 5, max_body_size |-> 6, max_request_size |-> 7,
          max_response_size |-> 8]
Fields == DOMAIN Place

Routes == UNION {{routes[k] : k \in DOMAIN routes} : routes \in Services}

ASSUME LifecycleAssumption ==
    /\ Cores \in Nat
    /\ Configs \subseteq [Fields -> Nat \cup {Unreadable}]
    /\ Unreadable \notin Nat
    /\ Services \subseteq Seq(Routes)

VARIABLES
    main,          \* where main is: a function, a destructor ("~"), or its end
    shutdown,      \* g_shutdown_requested
    settings,      \* Settings::_data
    pending,       \* the registrations still to come
    registered,    \* the routes in EndpointManager's trees
    serverRunning, \* HttpServer::_running
    loopRunning,   \* EventLoop::_running
    threads,       \* the size of EventLoop::_threads
    joined,        \* how many of them, from the front, have been joined
    worker,        \* how far each thread has come
    listener       \* the workers whose listenFd is open

dataVars == <<settings, pending, registered>>
flagVars == <<serverRunning, loopRunning>>
threadVars == <<threads, joined, worker, listener>>
vars == <<main, shutdown, dataVars, flagVars, threadVars>>

Ended == {"exited", "aborted", "terminated"}

WorkerStates ==
    {"none", "created", "opened", "bound", "listening", "serving", "deaf", "returned"}

(* The thread runs and may read the settings and look up routes.           *)
Alive(i) == worker[i] \notin {"none", "returned"}

(* Every variable has its type; there are no more threads than cores.      *)
TypeOK ==
    /\ main \in {"config", "register", "construct", "spawn", "poll", "stop", "join",
                 "~server", "~loop", "~join", "~threads"} \cup Ended
    /\ shutdown \in BOOLEAN
    /\ settings \in [Fields -> Nat]
    /\ pending \in Seq(Routes) /\ registered \in SUBSET Routes
    /\ serverRunning \in BOOLEAN /\ loopRunning \in BOOLEAN
    /\ threads \in 0 .. Cores /\ joined \in 0 .. threads
    /\ worker \in [1 .. Cores -> WorkerStates]
    /\ listener \in SUBSET (1 .. Cores)

(* Static storage is zero, the flag is clear, no thread exists.            *)
Init ==
    /\ main = "config"
    /\ shutdown = FALSE
    /\ settings = [f \in Fields |-> 0]
    /\ pending \in Services
    /\ registered = {}
    /\ serverRunning = FALSE /\ loopRunning = FALSE
    /\ threads = 0 /\ joined = 0
    /\ worker = [i \in 1 .. Cores |-> "none"]
    /\ listener = {}

-----------------------------------------------------------------------------
(***************************************************************************)
(* Settings.                                                               *)
(***************************************************************************)

(* The fields assigned before get throws.                                  *)
Assigned(config) ==
    {f \in Fields : \A g \in Fields : Place[g] <= Place[f] => config[g] # Unreadable}

(* Faulty variant: as many threads as are asked for.                       *)
AskedValue(config, f) == config[f]

(* No more threads than cores; a port is what 16 bits keep of a number.    *)
LoadedValue(config, f) ==
    CASE f = "max_threads" -> IF Cores < config[f] THEN Cores ELSE config[f]
      [] f = "port" -> config[f] % 65536
      [] OTHER -> config[f]

(* The exception is caught, what was assigned before it stays.             *)
LoadSettings(config, data) ==
    [f \in Fields |-> IF f \in Assigned(config) THEN LoadedValue(config, f) ELSE data[f]]

IsValid(data) ==
    /\ data["port"] \in 1 .. 65535
    /\ \A f \in {"ip", "max_threads", "backlog_size"} : data[f] # 0

-----------------------------------------------------------------------------
(***************************************************************************)
(* main before the server: config.json, the services.                      *)
(***************************************************************************)

(* Without a configuration main calls exit().                              *)
NoSettings ==
    /\ main = "config"
    /\ main' = "exited"
    /\ UNCHANGED <<shutdown, dataVars, flagVars, threadVars>>

ReadSettings ==
    /\ main = "config"
    /\ \E config \in Configs : settings' = LoadSettings(config, settings)
    /\ main' = "register"
    /\ UNCHANGED <<shutdown, pending, registered, flagVars, threadVars>>

(* registerEndpoint and registerWebSocketEndpoint refuse a duplicate with  *)
(* an exception; the manager and the routes it has live on until the exit. *)
Register ==
    /\ main = "register" /\ pending # <<>>
    /\ Head(pending) \notin registered
    /\ registered' = registered \cup {Head(pending)}
    /\ pending' = Tail(pending)
    /\ UNCHANGED <<main, shutdown, settings, flagVars, threadVars>>

RegisterTwice ==
    /\ main = "register" /\ pending # <<>>
    /\ Head(pending) \in registered
    /\ main' = "exited"
    /\ UNCHANGED <<shutdown, dataVars, flagVars, threadVars>>

(* Faulty variant: the server is set up while services still register.     *)
ServicesAnyState == TRUE

(* The constructors of the services are done.                              *)
ServicesReady == pending = <<>>

(* HttpServer's constructor asserts valid settings.  Whether a failed      *)
(* INK_ASSERT ends the process depends on the build of ink.                *)
ConstructServer ==
    /\ main = "register" /\ ServicesReady
    /\ main' = "construct"
    /\ UNCHANGED <<shutdown, dataVars, flagVars, threadVars>>

AssertFails ==
    /\ main = "construct" /\ ~IsValid(settings)
    /\ main' = "aborted"
    /\ UNCHANGED <<shutdown, dataVars, flagVars, threadVars>>

-----------------------------------------------------------------------------
(***************************************************************************)
(* HttpServer::start and EventLoop::start.                                 *)
(***************************************************************************)

(* Faulty variant: running once all threads are there.                     *)
RunningLater(phase) == phase = "spawned"

(* EventLoop::_running is set before the first thread.                     *)
RunningFrom(phase) == TRUE

EnterStart ==
    /\ main = "construct"
    /\ main' = "spawn"
    /\ loopRunning' = RunningFrom("entered")
    /\ UNCHANGED <<shutdown, dataVars, serverRunning, threadVars>>

SpawnWorker ==
    /\ main = "spawn" /\ threads < settings["max_threads"]
    /\ threads' = threads + 1
    /\ worker' = [worker EXCEPT ![threads + 1] = "created"]
    /\ UNCHANGED <<main, shutdown, dataVars, flagVars, joined, listener>>

(* No thread, or no memory: HttpServer::_running is not set yet.           *)
SpawnThrows ==
    /\ main = "spawn" /\ threads < settings["max_threads"]
    /\ main' = "~server"
    /\ UNCHANGED <<shutdown, dataVars, flagVars, threadVars>>

Started ==
    /\ main = "spawn" /\ threads = settings["max_threads"]
    /\ main' = "poll"
    /\ loopRunning' = RunningFrom("spawned")
    /\ serverRunning' = TRUE
    /\ UNCHANGED <<shutdown, dataVars, threadVars>>

-----------------------------------------------------------------------------
(***************************************************************************)
(* The end: the poll, stop, the destructors.                               *)
(***************************************************************************)

(* SIGINT or SIGTERM, at any moment after the handlers are in place.       *)
Signal ==
    /\ main \notin Ended
    /\ ~shutdown
    /\ shutdown' = TRUE
    /\ UNCHANGED <<main, dataVars, flagVars, threadVars>>

Poll ==
    /\ main = "poll" /\ shutdown
    /\ main' = "stop"
    /\ UNCHANGED <<shutdown, dataVars, flagVars, threadVars>>

(* Faulty variant: the workers are joined and not told.                    *)
ToldNothing == UNCHANGED loopRunning

TellWorkers == loopRunning' = FALSE

(* EventLoop::stop, from its start to the first join.                      *)
StopLoop(joining, stopped) ==
    IF loopRunning THEN TellWorkers /\ main' = joining
    ELSE main' = stopped /\ UNCHANGED loopRunning

(* HttpServer::stop, called by main or by the destructor.                  *)
StopServer(joining, stopped) ==
    /\ serverRunning' = FALSE
    /\ IF serverRunning THEN StopLoop(joining, stopped)
       ELSE main' = stopped /\ UNCHANGED loopRunning

CallStop ==
    /\ main = "stop"
    /\ StopServer("join", "~server")
    /\ UNCHANGED <<shutdown, dataVars, threadVars>>

DestroyServer ==
    /\ main = "~server"
    /\ StopServer("~join", "~loop")
    /\ UNCHANGED <<shutdown, dataVars, threadVars>>

DestroyLoop ==
    /\ main = "~loop"
    /\ StopLoop("~join", "~threads")
    /\ UNCHANGED <<shutdown, dataVars, serverRunning, threadVars>>

(* Faulty variant: detach().                                               *)
Detachable(i) == TRUE

(* join() returns when the thread has.                                     *)
Joinable(i) == worker[i] = "returned"

Join ==
    /\ main \in {"join", "~join"} /\ joined < threads
    /\ Joinable(joined + 1)
    /\ joined' = joined + 1
    /\ UNCHANGED <<main, shutdown, dataVars, flagVars, threads, worker, listener>>

AllJoined ==
    /\ main \in {"join", "~join"} /\ joined = threads
    /\ threads' = 0 /\ joined' = 0
    /\ main' = IF main = "join" THEN "~server" ELSE "~threads"
    /\ UNCHANGED <<shutdown, dataVars, flagVars, worker, listener>>

(* The destructor of a std::thread that is still joinable terminates.      *)
DestroyThreads ==
    /\ main = "~threads"
    /\ main' = IF joined < threads THEN "terminated" ELSE "exited"
    /\ UNCHANGED <<shutdown, dataVars, flagVars, threadVars>>

-----------------------------------------------------------------------------
(***************************************************************************)
(* A worker outside its loop.                                              *)
(***************************************************************************)

Advance(i, from, to) ==
    /\ worker[i] = from
    /\ worker' = [worker EXCEPT ![i] = to]
    /\ UNCHANGED <<main, shutdown, dataVars, flagVars, threads, joined>>

OpenSocket(i) == Advance(i, "created", "opened") /\ listener' = listener \cup {i}

Bind(i) == Advance(i, "opened", "bound") /\ UNCHANGED listener
Listen(i) == Advance(i, "bound", "listening") /\ UNCHANGED listener
EnterLoop(i) == Advance(i, "listening", "serving") /\ UNCHANGED listener

(* Nobody looks at what epoll_create1 returned: the loop runs without.     *)
EnterDeaf(i) == Advance(i, "listening", "deaf") /\ UNCHANGED listener

SocketFails(i) == Advance(i, "created", "returned") /\ UNCHANGED listener

(* Faulty variant: the failing listen() only returns.                      *)
ClosedUnlessBound(i, from) == IF from = "bound" THEN listener ELSE listener \ {i}

ListenerClosed(i, from) == listener \ {i}

(* bind, listen and, in the io_uring build, io_uring_queue_init_params: a  *)
(* message, close(listenFd), return.                                       *)
SetupFails(i) ==
    \E from \in {"opened", "bound", "listening"} :
        Advance(i, from, "returned") /\ listener' = ListenerClosed(i, from)

(* while (_running).                                                       *)
LeaveLoop(i) ==
    /\ ~loopRunning
    /\ \E from \in {"serving", "deaf"} : Advance(i, from, "returned")
    /\ listener' = listener \ {i}

Main ==
    \/ NoSettings \/ ReadSettings \/ Register \/ RegisterTwice
    \/ ConstructServer \/ AssertFails \/ EnterStart \/ SpawnWorker \/ SpawnThrows \/ Started
    \/ Poll \/ CallStop \/ DestroyServer \/ DestroyLoop \/ Join \/ AllJoined \/ DestroyThreads

SetUp(i) ==
    \/ OpenSocket(i) \/ Bind(i) \/ Listen(i) \/ EnterLoop(i) \/ EnterDeaf(i)
    \/ SocketFails(i) \/ SetupFails(i)

Next == Main \/ Signal \/ \E i \in 1 .. Cores : SetUp(i) \/ LeaveLoop(i)

Spec == Init /\ [][Next]_vars

(* Threads that can run are run; of a loop nothing is assumed here.        *)
FairSpec == Spec /\ WF_vars(Main) /\ \A i \in 1 .. Cores : WF_vars(SetUp(i))

-----------------------------------------------------------------------------
(* The registry has no lock: registration is over before any thread that   *)
(* looks routes up exists, and what it finds is what the services asked    *)
(* for, all of it.                                                         *)
RoutesBeforeWorkers ==
    (\E i \in 1 .. Cores : Alive(i)) =>
        /\ pending = <<>> /\ main # "register"
        /\ \E routes \in Services : registered = {routes[k] : k \in DOMAIN routes}

(* However main leaves, also by an exception in the middle of start(), no  *)
(* std::thread is destroyed that has not been joined.                      *)
NoTerminate == main # "terminated"

(* When main returns, and static objects are destroyed, no worker is left  *)
(* that could read the settings or the registry.                           *)
NoneOutlivesMain == main \in Ended => \A i \in 1 .. Cores : ~Alive(i)

(* A worker that has returned, at whichever point, has closed its          *)
(* listener: the kernel keeps no client waiting for a thread that is gone. *)
ListenersClosed == \A i \in listener : Alive(i)

(* A worker that has been told leaves its loop.  It is for the workers'    *)
(* own modules to say when this is so: EpollWorker has it while there are  *)
(* descriptors, and a run without it when there are none.                  *)
WorkersLeave ==
    \A i \in 1 .. Cores :
        (~loopRunning /\ worker[i] \in {"serving", "deaf"}) ~> (worker[i] = "returned")

(* If workers leave when they are told, then a signal, whenever it comes,  *)
(* and an exception in start() end the process: every worker is told, in   *)
(* whichever state of its set-up it is, and none is joined before.         *)
ShutdownCompletes == WorkersLeave => ((shutdown \/ main = "~server") ~> (main \in Ended))
=============================================================================
