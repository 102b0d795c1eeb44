--------------------------- MODULE ThreadsProofs ---------------------------
(***************************************************************************)
(* Theorems about Threads, for any number of main windows and lost         *)
(* connections.  The order in which InitApplication starts the threads and *)
(* creates what they use does no harm, because a thread is started by an   *)
(* event, and no event is handled before exec (NotBefore).  And            *)
(* StopThreadsBlocking asks every worker that runs to stop, because only   *)
(* registered threads are ever started, and it walks over all that are     *)
(* registered when the last event has been handled (Registered).           *)
(***************************************************************************)
EXTENDS Threads, SubsequenceProofs

NotBefore ==
    /\ backing \in [Worker -> {"off", "call", "sleep"}]
    /\ main.pc \in {"startThreads", "CreateClientEngine"} => \A t \in Worker : backing[t] = "off"
    /\ main.pc \notin {"startThreads", "CreateClientEngine"} => interfaces # "none"

LEMMA NotBeforeInit == Init => NotBefore
BY DEF Init, NotBefore

\* The main thread: startThread waits for exec, and exec for the interfaces.
LEMMA MainThreadKeeps ==
    ASSUME NotBefore, MainThreadStep \/ CreateMainWindow \/ Shutdown PROVE NotBefore'
<1>1. CASE startThreads
  BY <1>1 DEF startThreads, NotBefore
<1>2. CASE CreateInterfaces
  BY <1>2 DEF CreateInterfaces, NotBefore
<1>3. CASE startThread
  <2>1. main.pc = "exec" /\ UNCHANGED <<main, interfaces>>
    BY <1>3 DEF startThread
  <2>2. backing' \in [Worker -> {"off", "call", "sleep"}]
    BY <1>3 DEF startThread, NotBefore
  <2>3. QED
    BY <2>1, <2>2 DEF NotBefore
<1>4. CASE StopThread
  BY <1>4 DEF StopThread, NotBefore
<1>5. CASE ReleaseInterfaces
  BY <1>5 DEF ReleaseInterfaces, NotBefore
<1>6. CASE Exit
  BY <1>6 DEF Exit, NotBefore
<1>7. CASE CreateMainWindow
  BY <1>7 DEF CreateMainWindow, NotBefore
<1>8. CASE Shutdown
  BY <1>8 DEF Shutdown, NotBefore
<1>9. QED
  BY <1>1, <1>2, <1>3, <1>4, <1>5, <1>6, <1>7, <1>8 DEF MainThreadStep

\* A worker goes on only when it was started.
LEMMA WorkersKeep ==
    ASSUME NotBefore, CallbackThreadStep \/ \E t \in Worker : WorkerStep(t) PROVE NotBefore'
<1>1. PICK t \in Worker, to \in {"off", "call", "sleep"} :
        backing[t] # "off" /\ backing' = [backing EXCEPT ![t] = to] /\ UNCHANGED <<main, interfaces>>
  BY DEF CallbackThreadStep, WorkerStep, Calls, LoopTest, CallbackEmitted, NoConnection, Worker
<1>2. QED
  BY <1>1 DEF NotBefore

LEMMA NotBeforeNext == NotBefore /\ [Next]_vars => NotBefore'
<1> SUFFICES ASSUME NotBefore, [Next]_vars PROVE NotBefore'
  OBVIOUS
<1>1. CASE Connected \/ ConnectionLost
  BY <1>1 DEF Connected, ConnectionLost, NotBefore
<1>2. CASE UNCHANGED vars
  BY <1>2 DEF vars, NotBefore
<1>3. QED
  BY <1>1, <1>2, MainThreadKeeps, WorkersKeep DEF Next

\* No worker calls into steamclient before its interfaces exist
\* (Application::InitApplication).
THEOREM StartedThreadsFindInterfaces == Spec => []UsedOnceCreated
<1>1. NotBefore => UsedOnceCreated
  BY DEF NotBefore, UsedOnceCreated
<1>2. QED
  BY <1>1, NotBeforeInit, NotBeforeNext, PTL DEF Spec

-----------------------------------------------------------------------------
LEMMA TypeInit == Init => TypeOK
<1> SUFFICES ASSUME Init PROVE TypeOK
  OBVIOUS
<1>1. {"CallbackThread", "ComputerInUse"} \subseteq Worker
  BY DEF Worker
<1>2. <<"CallbackThread", "ComputerInUse">> \in Seq(Worker)
  BY <1>1
<1>3. QED
  BY <1>2, ThreadsAssumption DEF Init, TypeOK

LEMMA MainThreadTyped ==
    ASSUME TypeOK, MainThreadStep \/ CreateMainWindow \/ Shutdown PROVE TypeOK'
<1> USE ThreadsAssumption
<1>1. CASE startThreads
  BY <1>1 DEF startThreads, TypeOK
<1>2. CASE CreateInterfaces
  BY <1>2 DEF CreateInterfaces, TypeOK
<1>3. CASE startThread
  BY <1>3 DEF startThread, TypeOK
<1>4. CASE StopThread
  <2>1. main.toStop \in Seq(Worker) /\ Head(main.toStop) \in Worker /\ Tail(main.toStop) \in Seq(Worker)
    BY <1>4 DEF StopThread, TypeOK
  <2>2. threads' \in Seq(Worker)
    BY <1>4, WithoutIs DEF StopThread, TypeOK
  <2>3. QED
    BY <1>4, <2>1, <2>2 DEF StopThread, TypeOK
<1>5. CASE ReleaseInterfaces
  BY <1>5 DEF ReleaseInterfaces, TypeOK
<1>6. CASE Exit
  BY <1>6 DEF Exit, TypeOK
<1>7. CASE CreateMainWindow
  <2>1. "DownloadInfoPoller" \in Worker
    BY DEF Worker
  <2>2. threads' \in Seq(Worker) /\ posted' \in Seq(Worker)
    BY <1>7, <2>1 DEF CreateMainWindow, TypeOK
  <2>3. main.windows + 1 \in 0..MaxWindows
    BY <1>7 DEF CreateMainWindow, TypeOK
  <2>4. QED
    BY <1>7, <2>2, <2>3 DEF CreateMainWindow, TypeOK
<1>8. CASE Shutdown
  BY <1>8 DEF Shutdown, TypeOK
<1>9. QED
  BY <1>1, <1>2, <1>3, <1>4, <1>5, <1>6, <1>7, <1>8 DEF MainThreadStep

Callback == {"connected", "noConnection", "connectFailure"}
Link == [up : BOOLEAN, retrying : BOOLEAN, losses : 0..MaxLosses, callbacks : Seq(Callback)]

\* What happens to the connection and to its callbacks.
LEMMA LinkTyped ==
    ASSUME NEW l \in Link, NEW c \in Seq(Callback), NEW n \in 0..MaxLosses
    PROVE  /\ [l EXCEPT !.callbacks = c] \in Link
           /\ [l EXCEPT !.callbacks = c, !.retrying = TRUE] \in Link
           /\ [l EXCEPT !.up = TRUE, !.retrying = FALSE, !.callbacks = c] \in Link
           /\ [l EXCEPT !.up = FALSE, !.losses = n, !.callbacks = c] \in Link
<1>1. [l EXCEPT !.callbacks = c] \in Link
  BY DEF Link
<1>2. [l EXCEPT !.callbacks = c, !.retrying = TRUE] \in Link
  BY DEF Link
<1>3. [l EXCEPT !.up = TRUE, !.retrying = FALSE, !.callbacks = c] \in Link
  BY DEF Link
<1>4. [l EXCEPT !.up = FALSE, !.losses = n, !.callbacks = c] \in Link
  BY DEF Link
<1>5. QED
  BY <1>1, <1>2, <1>3, <1>4

LEMMA WorkersTyped ==
    ASSUME TypeOK, CallbackThreadStep \/ \E t \in Worker : WorkerStep(t) PROVE TypeOK'
<1>1. PICK t \in Worker, to \in {"off", "call", "sleep"} :
        backing' = [backing EXCEPT ![t] = to]
  BY DEF CallbackThreadStep, WorkerStep, Calls, LoopTest, CallbackEmitted, NoConnection, Worker
<1>2. backing' \in [Worker -> {"off", "call", "sleep"}]
  BY <1>1 DEF TypeOK
<1>3. UNCHANGED <<main, posted, threads, shouldStop, interfaces>>
  BY DEF CallbackThreadStep, WorkerStep, Calls, LoopTest, CallbackEmitted, NoConnection
<1>4. link' = link \/ CallbackEmitted \/ NoConnection
  BY DEF CallbackThreadStep, WorkerStep, Calls, LoopTest
<1>5. link \in Link /\ link.callbacks \in Seq(Callback) /\ link.losses \in 0..MaxLosses
  BY DEF TypeOK, Link, Callback
<1>6. link' \in Link
  <2>1. CASE link' = link
    BY <1>5, <2>1
  <2>2. CASE CallbackEmitted \/ NoConnection
    <3>1. Tail(link.callbacks) \in Seq(Callback)
      BY <1>5, <2>2 DEF CallbackEmitted, NoConnection
    <3>2. QED
      BY <1>5, <2>2, <3>1, LinkTyped DEF CallbackEmitted, NoConnection
  <2>3. QED
    BY <1>4, <2>1, <2>2
<1>7. QED
  BY <1>2, <1>3, <1>6 DEF TypeOK, Link, Callback

LEMMA SteamclientTyped ==
    ASSUME TypeOK, Connected \/ ConnectionLost PROVE TypeOK'
<1>1. link \in Link /\ link.callbacks \in Seq(Callback) /\ link.losses \in 0..MaxLosses
  BY DEF TypeOK, Link, Callback
<1>2. \A c \in Callback : Append(link.callbacks, c) \in Seq(Callback)
  BY <1>1
<1>3. {"connected", "noConnection", "connectFailure"} = Callback
  BY DEF Callback
<1>4. link' \in Link
  <2>1. CASE Connected
    BY <1>1, <1>2, <1>3, <2>1, LinkTyped DEF Connected
  <2>2. CASE ConnectionLost
    <3>1. link.losses + 1 \in 0..MaxLosses
      BY <2>2, ThreadsAssumption DEF ConnectionLost, TypeOK
    <3>2. PICK c \in Callback : link' = [link EXCEPT !.up = FALSE, !.losses = link.losses + 1,
                                                     !.callbacks = Append(link.callbacks, c)]
      BY <2>2 DEF ConnectionLost, Callback
    <3>3. QED
      BY <1>1, <1>2, <3>1, <3>2, LinkTyped
  <2>3. QED
    BY <2>1, <2>2
<1>5. QED
  BY <1>4 DEF Connected, ConnectionLost, TypeOK, Link, Callback

\* The types of the state (threadcontroller.h:15, thread.h:10).
THEOREM ThreadsTypes == Spec => []TypeOK
<1>1. TypeOK /\ [Next]_vars => TypeOK'
  <2> SUFFICES ASSUME TypeOK, [Next]_vars PROVE TypeOK'
    OBVIOUS
  <2>1. CASE UNCHANGED vars
    BY <2>1 DEF vars, TypeOK
  <2>2. QED
    BY <2>1, MainThreadTyped, WorkersTyped, SteamclientTyped DEF Next
<1>2. QED
  BY <1>1, TypeInit, PTL DEF Spec

-----------------------------------------------------------------------------
Running(t) == backing[t] # "off"

\* While events are handled, what runs or is about to be started is registered;
\* from then on, what runs has been asked to stop or is still in the walk.
Registered ==
    /\ main.pc \in {"startThreads", "CreateClientEngine", "exec"} =>
         \A t \in Worker : Running(t) \/ t \in ToSet(posted) => t \in ToSet(threads)
    /\ main.pc \notin {"startThreads", "CreateClientEngine", "exec"} =>
         \A t \in Worker : Running(t) => t \in shouldStop \cup ToSet(main.toStop)
    /\ main.pc \in {"exit", "gone"} => main.toStop = <<>>
    /\ interfaces = "released" => main.pc \in {"exit", "gone"}

LEMMA RegisteredInit == Init => Registered
BY DEF Init, Registered, ToSet, Running

LEMMA MainThreadKeepsRegistered ==
    ASSUME TypeOK, Registered, MainThreadStep \/ CreateMainWindow \/ Shutdown PROVE Registered'
<1> USE DEF Running
<1>1. CASE startThreads
  <2>1. ToSet(posted') = ToSet(posted) \cup ToSet(threads)
    <3>1. "CallbackThread" \in Worker
      BY DEF Worker
    <3>2. QED
      BY <1>1, <3>1, ToSetOfParts DEF startThreads, TypeOK
  <2>2. QED
    BY <1>1, <2>1 DEF startThreads, Registered, TypeOK
<1>2. CASE CreateInterfaces
  BY <1>2 DEF CreateInterfaces, Registered, TypeOK
<1>3. CASE startThread
  <2>1. ToSet(posted) = {Head(posted)} \cup ToSet(posted')
    <3>1. Head(posted) \in Worker
      BY <1>3 DEF startThread, TypeOK
    <3>2. QED
      BY <1>3, <3>1, ToSetOfParts DEF startThread, TypeOK
  <2>2. \A t \in Worker : backing'[t] # "off" => backing[t] # "off" \/ t = Head(posted)
    BY <1>3 DEF startThread, TypeOK
  <2>3. QED
    BY <1>3, <2>1, <2>2 DEF startThread, Registered
<1>4. CASE StopThread
  <2>1. ToSet(main.toStop) = {Head(main.toStop)} \cup ToSet(main'.toStop)
    <3>1. Head(main.toStop) \in Worker /\ main'.toStop = Tail(main.toStop)
      BY <1>4 DEF StopThread, TypeOK
    <3>2. QED
      BY <1>4, <3>1, ToSetOfParts DEF StopThread, TypeOK
  <2>2. main'.pc = "StopThread" /\ main.pc = "StopThread" /\ shouldStop' = shouldStop \cup {Head(main.toStop)}
        /\ UNCHANGED <<backing, interfaces>>
    BY <1>4 DEF StopThread, TypeOK
  <2>3. QED
    BY <2>1, <2>2 DEF Registered
<1>5. CASE ReleaseInterfaces
  <2>1. ToSet(main.toStop) = {}
    BY <1>5 DEF ReleaseInterfaces, ToSet
  <2>2. main'.pc = "exit" /\ main'.toStop = <<>> /\ main.pc = "StopThread" /\ UNCHANGED <<backing, shouldStop>>
    BY <1>5 DEF ReleaseInterfaces, TypeOK
  <2>3. QED
    BY <2>1, <2>2 DEF Registered
<1>6. CASE Exit
  <2>1. main'.pc = "gone" /\ main'.toStop = main.toStop /\ main.pc = "exit" /\ UNCHANGED interfaces
        /\ \A t \in Worker : backing'[t] = "off"
    BY <1>6 DEF Exit, TypeOK
  <2>2. QED
    BY <2>1 DEF Registered
<1>7. CASE CreateMainWindow
  <2>1. /\ ToSet(threads') = ToSet(threads) \cup {"DownloadInfoPoller"}
        /\ ToSet(posted') = ToSet(posted) \cup {"DownloadInfoPoller"}
    <3>1. "DownloadInfoPoller" \in Worker
      BY DEF Worker
    <3>2. QED
      BY <1>7, <3>1, ToSetOfParts DEF CreateMainWindow, TypeOK
  <2>2. main'.pc = "exec" /\ main'.toStop = main.toStop /\ main.pc = "exec" /\ UNCHANGED <<backing, interfaces>>
    BY <1>7 DEF CreateMainWindow, TypeOK
  <2>3. QED
    BY <2>1, <2>2 DEF Registered
<1>8. CASE Shutdown
  <2>1. main'.pc = "StopThread" /\ main'.toStop = threads /\ main.pc = "exec" /\ UNCHANGED <<backing, interfaces>>
    BY <1>8 DEF Shutdown, TypeOK
  <2>2. QED
    BY <2>1 DEF Registered
<1>9. QED
  BY <1>1, <1>2, <1>3, <1>4, <1>5, <1>6, <1>7, <1>8 DEF MainThreadStep

LEMMA WorkersKeepRegistered ==
    ASSUME TypeOK, Registered, CallbackThreadStep \/ \E t \in Worker : WorkerStep(t) PROVE Registered'
<1>1. PICK t \in Worker, to \in {"off", "call", "sleep"} :
        backing[t] # "off" /\ backing' = [backing EXCEPT ![t] = to]
  BY DEF CallbackThreadStep, WorkerStep, Calls, LoopTest, CallbackEmitted, NoConnection, Worker
<1>2. UNCHANGED <<main, posted, threads, shouldStop, interfaces>>
  BY DEF CallbackThreadStep, WorkerStep, Calls, LoopTest, CallbackEmitted, NoConnection
<1>3. \A u \in Worker : backing'[u] # "off" => backing[u] # "off"
  BY <1>1 DEF TypeOK
<1>4. QED
  BY <1>2, <1>3 DEF Registered, Running

\* When StopThreadsBlocking returns, every worker that runs has been asked to
\* stop, however many windows registered and started the poller again, and
\* whichever threads had returned on their own (threadcontroller.cpp:60).
THEOREM StopThreadsBlockingAsksAll == Spec => []EveryWorkerAsked
<1>1. TypeOK /\ Registered /\ [Next]_vars => Registered'
  <2> SUFFICES ASSUME TypeOK, Registered, [Next]_vars PROVE Registered'
    OBVIOUS
  <2>1. CASE Connected \/ ConnectionLost
    BY <2>1 DEF Connected, ConnectionLost, Registered, Running
  <2>2. CASE UNCHANGED vars
    BY <2>2 DEF vars, Registered, Running
  <2>3. QED
    BY <2>1, <2>2, MainThreadKeepsRegistered, WorkersKeepRegistered DEF Next
<1>2. Registered => EveryWorkerAsked
  BY DEF Registered, EveryWorkerAsked, Running, ToSet
<1>3. QED
  BY <1>1, <1>2, RegisteredInit, ThreadsTypes, PTL DEF Spec
=============================================================================
