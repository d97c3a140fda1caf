------------------------- MODULE ServerLifecycleProofs -------------------------
(***************************************************************************)
(* The safety properties of ServerLifecycle, for any number of cores, any  *)
(* configurations and any services.                                        *)
(***************************************************************************)
EXTENDS ServerLifecycle, TLAPS

(* The types, and the bound that loadSettings puts on the threads.         *)
Types == TypeOK /\ settings["max_threads"] <= Cores

(* No thread exists in these phases.                                       *)
Before == {"config", "register", "construct"}

(* A thread that runs is one of _threads and has not been joined.          *)
RosterInv ==
    /\ \A i \in 1 .. Cores : Alive(i) => joined < i /\ i <= threads
    /\ \A i \in 1 .. Cores : threads < i => worker[i] \in {"none", "returned"}

(* While there are threads, EventLoop::_running is set until they are      *)
(* being joined: whichever destructor comes next will stop the loop.       *)
PhaseInv ==
    /\ main \in Before \cup {"~threads"} \cup Ended => threads = 0
    /\ threads > 0 => loopRunning \/ main \in {"join", "~join"}
    /\ main = "spawn" => loopRunning
    /\ main \notin {"config", "register", "exited"} => pending = <<>>

(* The routes registered so far are the first of what a service asks for,  *)
(* the others are still to come.                                           *)
Routed(routes, n) ==
    /\ pending = SubSeq(routes, n + 1, Len(routes))
    /\ registered = {routes[k] : k \in 1 .. n}
RegInv == \E routes \in Services : \E n \in 0 .. Len(routes) : Routed(routes, n)

(* A listener is open from socket() to the return.                         *)
ListenInv ==
    \A i \in listener : worker[i] \in {"opened", "bound", "listening", "serving", "deaf"}

IInv ==
    /\ Types /\ RosterInv /\ PhaseInv
    /\ ListenInv /\ NoTerminate /\ RegInv

-----------------------------------------------------------------------------
(* The thread count is a setting.                                          *)
LEMMA ThreadsField == "max_threads" \in Fields
  BY DEF Fields, Place

(* What loading leaves behind has the type of settings and no more threads *)
(* than there are cores, wherever the reading stops.                       *)
LEMMA LoadTypes ==
    ASSUME NEW config \in Configs, NEW data \in [Fields -> Nat],
           data["max_threads"] <= Cores
    PROVE  /\ LoadSettings(config, data) \in [Fields -> Nat]
           /\ LoadSettings(config, data)["max_threads"] <= Cores
<1>1. \A f \in Assigned(config) : config[f] \in Nat
  <2>. SUFFICES ASSUME NEW f \in Assigned(config) PROVE config[f] \in Nat
    OBVIOUS
  <2>1. f \in Fields /\ config[f] # Unreadable
    BY DEF Assigned, Place, Fields
  <2>. QED
    BY <2>1, LifecycleAssumption
<1>2. \A f \in Assigned(config) : LoadedValue(config, f) \in Nat
  BY <1>1, LifecycleAssumption DEF LoadedValue
<1>3. "max_threads" \in Assigned(config) => LoadedValue(config, "max_threads") <= Cores
  BY <1>1, LifecycleAssumption DEF LoadedValue
<1>. QED
  BY <1>2, <1>3, ThreadsField DEF LoadSettings

(* The invariant holds at the start: nothing runs.                         *)
LEMMA InitInv == Init => IInv
<1>. SUFFICES ASSUME Init PROVE IInv
  OBVIOUS
<1>1. Types
  <2>1. settings \in [Fields -> Nat] /\ settings["max_threads"] = 0
    BY ThreadsField DEF Init
  <2>2. worker \in [1 .. Cores -> WorkerStates]
    BY DEF Init, WorkerStates
  <2>3. Cores \in Nat
    BY LifecycleAssumption
  <2>4. threads \in 0 .. Cores /\ joined \in 0 .. threads
    BY <2>3 DEF Init
  <2>5. pending \in Seq(Routes) /\ registered \in SUBSET Routes
    BY LifecycleAssumption DEF Init
  <2>6. settings["max_threads"] <= Cores
    BY <2>1, <2>3
  <2>. QED
    BY <2>1, <2>2, <2>4, <2>5, <2>6 DEF Init, Types, TypeOK
<1>2. RegInv
  <2>1. pending \in Services /\ pending \in Seq(Routes) /\ registered = {}
    BY LifecycleAssumption DEF Init
  <2>2. Routed(pending, 0)
    BY <2>1 DEF Routed
  <2>. QED
    BY <2>1, <2>2 DEF RegInv
<1>. QED
  BY <1>1, <1>2, LifecycleAssumption DEF Init, IInv, RosterInv, PhaseInv, Alive, ListenInv, NoTerminate, Before, Ended

(* Of what is to come the first has a route, and one is registered more.   *)
LEMMA RegStep ==
    ASSUME RegInv, Register \/ UNCHANGED <<pending, registered>>
    PROVE  RegInv'
<1>1. PICK routes \in Services : \E n \in 0 .. Len(routes) : Routed(routes, n)
  BY DEF RegInv
<1>0. PICK n \in 0 .. Len(routes) : Routed(routes, n)
  BY <1>1
<1>2. routes \in Seq(Routes) /\ Len(routes) \in Nat
  BY LifecycleAssumption
<1>3. CASE UNCHANGED <<pending, registered>>
  BY <1>0, <1>3 DEF RegInv, Routed
<1>4. CASE Register
  <2>. DEFINE rest == SubSeq(routes, n + 1, Len(routes))
  <2>1. /\ pending = rest /\ rest # << >> /\ pending' = Tail(rest)
        /\ registered' = registered \cup {Head(rest)}
    BY <1>0, <1>4 DEF Register, Routed
  <2>2. n + 1 \in 1 .. Len(routes)
    <3>1. n < Len(routes)
      BY <1>2, <2>1
    <3>. QED
      BY <1>2, <3>1
  <2>3. Head(rest) = routes[n + 1] /\ Tail(rest) = SubSeq(routes, (n + 1) + 1, Len(routes))
    BY <1>2, <2>2
  <2>4. registered' = {routes[k] : k \in 1 .. n + 1}
    <3>1. 1 .. n + 1 = (1 .. n) \cup {n + 1}
      BY <1>2
    <3>. QED
      BY <1>0, <2>1, <2>3, <3>1 DEF Routed
  <2>5. Routed(routes, n + 1)'
    BY <2>1, <2>3, <2>4 DEF Routed
  <2>. QED
    BY <1>2, <2>2, <2>5 DEF RegInv
<1>. QED
  BY <1>3, <1>4

(* The steps of main that touch neither threads nor flags.                 *)
LEMMA QuietStep ==
    ASSUME IInv, RegInv', NoSettings \/ ReadSettings \/ Register \/ RegisterTwice \/ ConstructServer
                 \/ AssertFails \/ SpawnThrows \/ Poll \/ Signal \/ DestroyThreads
                 \/ UNCHANGED vars
    PROVE  IInv'
<1>. USE DEF IInv, ListenInv, NoTerminate, RosterInv, Alive, threadVars, flagVars, dataVars
<1>1. CASE UNCHANGED vars
  BY <1>1 DEF vars, Types, TypeOK, PhaseInv
<1>2. CASE NoSettings
  BY <1>2 DEF NoSettings, Types, TypeOK, PhaseInv, Before, Ended
<1>3. CASE ReadSettings
  <2>1. settings' \in [Fields -> Nat] /\ settings'["max_threads"] <= Cores
    BY <1>3, LoadTypes, TypeOK DEF ReadSettings, Types, TypeOK
  <2>. QED
    BY <1>3, <2>1 DEF ReadSettings, Types, TypeOK, PhaseInv, Before, Ended
<1>4. CASE Register
  BY <1>4 DEF Register, Types, TypeOK, PhaseInv, Before, Ended
<1>5. CASE RegisterTwice
  BY <1>5 DEF RegisterTwice, Types, TypeOK, PhaseInv, Before, Ended
<1>6. CASE ConstructServer
  BY <1>6 DEF ConstructServer, ServicesReady, Types, TypeOK, PhaseInv, Before, Ended
<1>7. CASE AssertFails
  BY <1>7 DEF AssertFails, Types, TypeOK, PhaseInv, Before, Ended
<1>8. CASE SpawnThrows
  BY <1>8 DEF SpawnThrows, Types, TypeOK, PhaseInv, Before, Ended
<1>9. CASE Poll
  BY <1>9 DEF Poll, Types, TypeOK, PhaseInv, Before, Ended
<1>10. CASE Signal
  BY <1>10 DEF Signal, Types, TypeOK, PhaseInv
<1>11. CASE DestroyThreads
  BY <1>11 DEF DestroyThreads, Types, TypeOK, PhaseInv, Before, Ended
<1>. QED
  BY <1>1, <1>2, <1>3, <1>4, <1>5, <1>6, <1>7, <1>8, <1>9, <1>10, <1>11

(* start(): the flag is set before the first thread, and a thread is put   *)
(* at the end of _threads.                                                 *)
LEMMA StartStep ==
    ASSUME IInv, RegInv', EnterStart \/ SpawnWorker \/ Started
    PROVE  IInv'
<1>. USE DEF IInv, ListenInv, NoTerminate, threadVars, flagVars, dataVars, RunningFrom
<1>1. CASE EnterStart
  BY <1>1 DEF EnterStart, Types, TypeOK, PhaseInv, Before, Ended, RosterInv, Alive
<1>2. CASE Started
  BY <1>2 DEF Started, Types, TypeOK, PhaseInv, Before, Ended, RosterInv, Alive
<1>3. CASE SpawnWorker
  <2>0. threads \in Nat /\ settings["max_threads"] \in Nat /\ settings["max_threads"] <= Cores
    BY LifecycleAssumption, ThreadsField DEF Types, TypeOK
  <2>1. /\ main = "spawn" /\ main' = main /\ threads + 1 \in 1 .. Cores /\ threads' = threads + 1
        /\ worker' = [worker EXCEPT ![threads + 1] = "created"]
        /\ joined' = joined /\ listener' = listener
        /\ UNCHANGED <<shutdown, settings, pending, registered, serverRunning, loopRunning>>
    BY <1>3, <2>0, LifecycleAssumption DEF SpawnWorker
  <2>2. Types'
    BY <2>1, LifecycleAssumption DEF Types, TypeOK, WorkerStates
  <2>3. worker'[threads + 1] = "created" /\ \A i \in (1 .. Cores) \ {threads + 1} : worker'[i] = worker[i]
    BY <2>1 DEF Types, TypeOK
  <2>4. RosterInv'
    BY <2>1, <2>3, LifecycleAssumption DEF RosterInv, Alive, Types, TypeOK
  <2>5. loopRunning'
    BY <2>1 DEF PhaseInv
  <2>6. ListenInv'
    <3>1. threads + 1 \notin listener
      BY <2>1 DEF RosterInv, Types, TypeOK
    <3>. QED
      BY <2>1, <2>3, <3>1 DEF Types, TypeOK
  <2>. QED
    BY <2>1, <2>2, <2>4, <2>5, <2>6 DEF PhaseInv, Before, Ended, Types, TypeOK
<1>. QED
  BY <1>1, <1>2, <1>3

-----------------------------------------------------------------------------
(* StopLoop leaves the threads alone and goes where they are joined, or    *)
(* where there are none.                                                   *)
LEMMA StopStep ==
    ASSUME IInv, RegInv', CallStop \/ DestroyServer \/ DestroyLoop
    PROVE  IInv'
<1>. USE DEF IInv, ListenInv, NoTerminate, threadVars, dataVars, StopServer, StopLoop,
             TellWorkers, RosterInv, Alive
<1>1. CASE CallStop
  BY <1>1 DEF CallStop, Types, TypeOK, PhaseInv, Before, Ended
<1>2. CASE DestroyServer
  BY <1>2 DEF DestroyServer, Types, TypeOK, PhaseInv, Before, Ended
<1>3. CASE DestroyLoop
  <2>1. threads \in Nat /\ (threads > 0 => loopRunning)
    BY <1>3, LifecycleAssumption DEF DestroyLoop, Types, TypeOK, PhaseInv
  <2>2. PhaseInv'
    BY <1>3, <2>1 DEF DestroyLoop, Types, TypeOK, PhaseInv, Before, Ended
  <2>. QED
    BY <1>3, <2>2 DEF DestroyLoop, Types, TypeOK, Ended
<1>. QED
  BY <1>1, <1>2, <1>3

(* Only a thread that has returned is joined; once all are, none runs.     *)
LEMMA JoinStep ==
    ASSUME IInv, RegInv', Join \/ AllJoined
    PROVE  IInv'
<1>. USE DEF IInv, ListenInv, NoTerminate, flagVars, dataVars
<1>1. CASE Join
  <2>1. joined + 1 \in 1 .. Cores /\ ~Alive(joined + 1)
    BY <1>1, LifecycleAssumption DEF Join, Joinable, Alive, Types, TypeOK
  <2>. QED
    BY <1>1, <2>1, LifecycleAssumption DEF Join, Types, TypeOK, PhaseInv, Before, Ended, RosterInv, Alive
<1>2. CASE AllJoined
  <2>1. \A i \in 1 .. Cores : ~Alive(i)
    BY <1>2, LifecycleAssumption DEF AllJoined, RosterInv, Types, TypeOK
  <2>. QED
    BY <1>2, <2>1, LifecycleAssumption DEF AllJoined, Types, TypeOK, PhaseInv, Before, Ended, RosterInv, Alive
<1>. QED
  BY <1>1, <1>2

(* A worker's own steps: its state, and its listener with it.              *)
LEMMA WorkerStep ==
    ASSUME IInv, RegInv', NEW i \in 1 .. Cores, SetUp(i) \/ LeaveLoop(i)
    PROVE  IInv'
<1>. DEFINE Open == {"opened", "bound", "listening", "serving", "deaf"}
<1>1. \E from \in WorkerStates \ {"none", "returned"}, to \in WorkerStates \ {"none"} :
         /\ Advance(i, from, to)
         /\ listener' \in SUBSET (listener \cup {i})
         /\ i \in listener' => to \in Open
  <2>. USE DEF WorkerStates
  <2>1. CASE OpenSocket(i)
    BY <2>1 DEF OpenSocket
  <2>2. CASE Bind(i) \/ Listen(i) \/ EnterLoop(i) \/ EnterDeaf(i)
    BY <2>2 DEF Bind, Listen, EnterLoop, EnterDeaf
  <2>3. CASE SetupFails(i)
    BY <2>3 DEF SetupFails, ListenerClosed
  <2>4. CASE LeaveLoop(i)
    BY <2>4 DEF LeaveLoop
  <2>5. CASE SocketFails(i)
    BY <2>5 DEF SocketFails, Advance, IInv, ListenInv
  <2>. QED
    BY <2>1, <2>2, <2>3, <2>4, <2>5 DEF SetUp
<1>2. PICK from \in WorkerStates \ {"none", "returned"}, to \in WorkerStates \ {"none"} :
         /\ Advance(i, from, to)
         /\ listener' \in SUBSET (listener \cup {i})
         /\ i \in listener' => to \in Open
  BY <1>1
<1>3. /\ worker[i] = from /\ worker' = [worker EXCEPT ![i] = to]
      /\ UNCHANGED <<main, shutdown, settings, pending, registered, threads, joined>>
      /\ UNCHANGED <<serverRunning, loopRunning>>
  BY <1>2 DEF Advance, dataVars, flagVars
<1>4. worker'[i] = to /\ \A j \in (1 .. Cores) \ {i} : worker'[j] = worker[j]
  BY <1>3 DEF IInv, Types, TypeOK
<1>5. Types'
  BY <1>2, <1>3 DEF IInv, Types, TypeOK
<1>6. RosterInv'
  <2>1. Alive(i)
    BY <1>3 DEF Alive
  <2>2. joined < i /\ i <= threads
    BY <2>1 DEF IInv, RosterInv
  <2>3. threads \in Nat
    BY LifecycleAssumption DEF IInv, Types, TypeOK
  <2>. QED
    BY <1>3, <1>4, <2>2, <2>3 DEF IInv, RosterInv, Alive
<1>7. ListenInv'
  BY <1>2, <1>4 DEF IInv, ListenInv, Types, TypeOK
<1>8. PhaseInv' /\ NoTerminate'
  BY <1>3 DEF IInv, PhaseInv, NoTerminate
<1>. QED
  BY <1>5, <1>6, <1>7, <1>8 DEF IInv

(* The registrations are main's, and only register changes them.           *)
LEMMA RoutesStand ==
    ASSUME [Next]_vars, ~Register
    PROVE  UNCHANGED <<pending, registered>>
  BY DEF Next, Main, NoSettings, ReadSettings, RegisterTwice, ConstructServer, AssertFails,
         EnterStart, SpawnWorker, SpawnThrows, Started, Signal, Poll, CallStop, DestroyServer,
         DestroyLoop, Join, AllJoined, DestroyThreads, SetUp, OpenSocket, Bind, Listen, EnterLoop,
         EnterDeaf, SocketFails, SetupFails, LeaveLoop, Advance, vars, dataVars

(* The invariant is one.                                                   *)
LEMMA Invariance == Spec => []IInv
<1>1. IInv /\ [Next]_vars => IInv'
  <2>. SUFFICES ASSUME IInv, [Next]_vars PROVE IInv'
    OBVIOUS
  <2>1. RegInv'
    BY RegStep, RoutesStand DEF IInv
  <2>. QED
    BY <2>1, QuietStep, StartStep, StopStep, JoinStep, WorkerStep DEF Next, Main
<1>. QED
  BY InitInv, <1>1, PTL DEF Spec

-----------------------------------------------------------------------------
(* TypeOK: for any configuration there are never more threads than cores.  *)
THEOREM TypeCorrect == Spec => []TypeOK
<1>1. IInv => TypeOK
  BY DEF IInv, Types
<1>. QED
  BY <1>1, Invariance, PTL

(* RoutesBeforeWorkers: no worker runs while the registry may still        *)
(* change, and what any worker finds in it is what the services asked for: *)
(* its lack of a lock is safe with any number of workers and of routes.    *)
THEOREM FrozenRegistry == Spec => []RoutesBeforeWorkers
<1>1. IInv => RoutesBeforeWorkers
  <2>. SUFFICES ASSUME IInv, NEW i \in 1 .. Cores, Alive(i)
                PROVE  /\ pending = << >> /\ main # "register"
                       /\ \E routes \in Services : registered = {routes[k] : k \in DOMAIN routes}
    BY DEF RoutesBeforeWorkers
  <2>1. threads > 0
    BY LifecycleAssumption DEF IInv, RosterInv, Types, TypeOK
  <2>2. pending = << >> /\ main # "register"
    BY <2>1, LifecycleAssumption DEF IInv, PhaseInv, Before, Ended, Types, TypeOK
  <2>3. PICK routes \in Services : \E n \in 0 .. Len(routes) : Routed(routes, n)
    BY DEF IInv, RegInv
  <2>6. PICK n \in 0 .. Len(routes) : Routed(routes, n)
    BY <2>3
  <2>4. routes \in Seq(Routes) /\ Len(routes) \in Nat /\ DOMAIN routes = 1 .. Len(routes)
    BY LifecycleAssumption
  <2>5. n = Len(routes)
    <3>1. SubSeq(routes, n + 1, Len(routes)) = << >>
      BY <2>2, <2>6 DEF Routed
    <3>. DEFINE all == Len(routes)
    <3>2. n \in Nat /\ all \in Nat /\ n <= all
      BY <2>4, <2>6
    <3>3. n < all => Len(SubSeq(routes, n + 1, all)) = all - n
      <4>1. routes \in Seq(Routes)
        BY <2>4
      <4>2. \A lo \in Nat : lo + 1 \in Nat /\ all - (lo + 1) + 1 = all - lo
        BY <3>2
      <4>3. SUFFICES ASSUME n < all PROVE Len(SubSeq(routes, n + 1, all)) = all - n
        OBVIOUS
      <4>4. n + 1 \in 1 .. all + 1
        BY <3>2
      <4>5. Len(SubSeq(routes, n + 1, all)) = all - (n + 1) + 1
        <5>1. Len(SubSeq(routes, n + 1, all)) = IF n + 1 <= all THEN all - (n + 1) + 1 ELSE 0
          BY <3>2, <4>1, <4>4
        <5>. QED
          BY <3>2, <4>3, <5>1
      <4>. QED
        BY <3>2, <4>2, <4>5
    <3>4. Len(SubSeq(routes, n + 1, all)) = 0
      BY <3>1
    <3>. HIDE DEF all
    <3>5. n = all
      BY <3>2, <3>3, <3>4
    <3>. QED
      BY <3>5 DEF all
  <2>. QED
    BY <2>2, <2>4, <2>5, <2>6 DEF Routed
<1>. QED
  BY <1>1, Invariance, PTL

(* NoTerminate: whatever throws and whenever, threads are joined before    *)
(* their objects go.                                                       *)
THEOREM AllThreadsJoined == Spec => []NoTerminate
<1>1. IInv => NoTerminate
  BY DEF IInv
<1>. QED
  BY <1>1, Invariance, PTL

(* NoneOutlivesMain: static objects are destroyed when no worker is left.  *)
THEOREM WorkersGone == Spec => []NoneOutlivesMain
<1>1. IInv => NoneOutlivesMain
  <2>. SUFFICES ASSUME IInv, main \in Ended, NEW i \in 1 .. Cores, Alive(i)
                PROVE  FALSE
    BY DEF NoneOutlivesMain
  <2>1. threads = 0
    BY DEF IInv, PhaseInv
  <2>. QED
    BY <2>1, LifecycleAssumption DEF IInv, RosterInv, Types, TypeOK
<1>. QED
  BY <1>1, Invariance, PTL

(* ListenersClosed: every way out of a worker closes its listener.         *)
THEOREM NoListenerLeaks == Spec => []ListenersClosed
<1>1. IInv => ListenersClosed
  BY DEF IInv, ListenInv, ListenersClosed, Alive
<1>. QED
  BY <1>1, Invariance, PTL
=============================================================================
