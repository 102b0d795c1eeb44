------------------------------ MODULE Threads ------------------------------
(***************************************************************************)
(* The worker threads and who starts and stops them: ThreadController and  *)
(* Thread (threading/), the loops of CallbackThread, ComputerInUseThread   *)
(* and DownloadInfoThread, and the main thread from InitApplication to the *)
(* end of Shutdown (gui/application.cpp).                                  *)
(*                                                                         *)
(* The Thread objects belong to the main thread: their slots run there,    *)
(* queued in posted or called at once, and only run() is in the thread the *)
(* object stands for.  All workers use the interfaces of steamclient that  *)
(* the main thread creates and releases.                                   *)
(*                                                                         *)
(* As in Login, a definition whose comment begins with "Without" or        *)
(* "Wrong" is a variant of the next one with a plausible bug.              *)
(***************************************************************************)
EXTENDS Naturals, Sequences, SequencesExt, Subsequence

CONSTANTS MaxWindows,   \* bound: main windows created, one per logon
          MaxLosses     \* bound: times the connection to the servers is lost

ASSUME ThreadsAssumption == MaxWindows \in Nat /\ MaxLosses \in Nat

VARIABLES main,        \* the main thread: where it is, what is left to stop, windows so far
          posted,      \* threads whose startThread is queued for the main thread
          threads,     \* ThreadController::threads
          backing,     \* what the backing thread of each Thread is doing
          shouldStop,  \* the threads whose shouldStop is set
          interfaces,  \* the steamclient interfaces of Global_SteamClientMgr
          link         \* steamclient's connection, and the callbacks it has for us

vars == <<main, posted, threads, backing, shouldStop, interfaces, link>>

Worker == {"CallbackThread", "ComputerInUse", "DownloadInfoPoller"}

\* The ThreadController's constructor registers two of the three workers.
Init ==
    /\ main = [pc |-> "startThreads", toStop |-> <<>>, windows |-> 0]
    /\ posted = <<>>
    /\ threads = <<"CallbackThread", "ComputerInUse">>
    /\ backing = [t \in Worker |-> "off"]
    /\ shouldStop = {}
    /\ interfaces = "none"
    /\ link = [up |-> FALSE, retrying |-> FALSE, losses |-> 0, callbacks |-> <<>>]

-----------------------------------------------------------------------------
(* The main thread: startup *)

\* Wrong: the threads started on the spot.
startThreadsDirectly ==
    /\ main.pc = "startThreads"
    /\ main' = [main EXCEPT !.pc = "CreateClientEngine"]
    /\ backing' = [t \in Worker |-> IF t \in ToSet(threads) THEN "call" ELSE backing[t]]
    /\ UNCHANGED <<posted, threads, shouldStop, interfaces, link>>

\* InitApplication posts startThread to the registered threads before it has
\* created what they use; no event is handled before exec.
startThreads ==
    /\ main.pc = "startThreads"
    /\ main' = [main EXCEPT !.pc = "CreateClientEngine"]
    /\ posted' = posted \o threads
    /\ UNCHANGED <<threads, backing, shouldStop, interfaces, link>>

\* CreateClientEngine, InitHSteamPipeAndHSteamUser and CreateInterfaces.
CreateInterfaces ==
    /\ main.pc = "CreateClientEngine"
    /\ main' = [main EXCEPT !.pc = "exec"]
    /\ interfaces' = "created"
    /\ UNCHANGED <<posted, threads, backing, shouldStop, link>>

\* Thread::startThread.  QThread::start ignores a thread that is running.
startThread ==
    /\ main.pc = "exec"
    /\ posted # <<>>
    /\ posted' = Tail(posted)
    /\ backing' = [backing EXCEPT ![Head(posted)] = IF @ = "off" THEN "call" ELSE @]
    /\ UNCHANGED <<main, threads, shouldStop, interfaces, link>>

\* Without the call of initThread.
CreateMainWindowUnregistered ==
    /\ main.pc = "exec"
    /\ main.windows < MaxWindows
    /\ main' = [main EXCEPT !.windows = @ + 1]
    /\ posted' = Append(posted, "DownloadInfoPoller")
    /\ UNCHANGED <<threads, backing, shouldStop, interfaces, link>>

\* Every new MainWindow registers and starts the DownloadInfoThread, whether or
\* not an earlier one has.
CreateMainWindow ==
    /\ main.pc = "exec"
    /\ main.windows < MaxWindows
    /\ main' = [main EXCEPT !.windows = @ + 1]
    /\ threads' = Append(threads, "DownloadInfoPoller")
    /\ posted' = Append(posted, "DownloadInfoPoller")
    /\ UNCHANGED <<backing, shouldStop, interfaces, link>>

-----------------------------------------------------------------------------
(* The main thread: Application::Shutdown.  It never returns to the event *)
(* loop, so whatever is posted by then is lost.                           *)

\* StopThreadsBlocking walks over a copy of the list.
Shutdown ==
    /\ main.pc = "exec"
    /\ main' = [main EXCEPT !.pc = "StopThread", !.toStop = threads]
    /\ UNCHANGED <<posted, threads, backing, shouldStop, interfaces, link>>

\* Wrong: the thread removed on the signal finished of its QThread, which would
\* have to be handled by the main thread that is waiting for it.
StopThreadWhenFinished ==
    /\ main.pc = "StopThread"
    /\ main.toStop # <<>>
    /\ main' = [main EXCEPT !.toStop = Tail(@)]
    /\ shouldStop' = shouldStop \cup {Head(main.toStop)}
    /\ UNCHANGED <<posted, threads, backing, interfaces, link>>

\* ThreadController::StopThread calls Thread::stopThread, which sets shouldStop
\* and itself emits threadExited; on that signal the thread is removed from the
\* list, every time it is in it.
StopThread ==
    /\ main.pc = "StopThread"
    /\ main.toStop # <<>>
    /\ main' = [main EXCEPT !.toStop = Tail(@)]
    /\ shouldStop' = shouldStop \cup {Head(main.toStop)}
    /\ threads' = Without(threads, Head(main.toStop))
    /\ UNCHANGED <<posted, backing, interfaces, link>>

\* while (threads.size() > 0), then LogOff and SteamClientMgr::Shutdown.
ReleaseInterfaces ==
    /\ main.pc = "StopThread"
    /\ main.toStop = <<>>
    /\ threads = <<>>
    /\ main' = [main EXCEPT !.pc = "exit"]
    /\ interfaces' = "released"
    /\ UNCHANGED <<posted, threads, backing, shouldStop, link>>

\* Wrong: only what is still registered ends.
ExitRegistered ==
    /\ main.pc = "exit"
    /\ main' = [main EXCEPT !.pc = "gone"]
    /\ backing' = [t \in ToSet(threads) |-> "off"]
    /\ UNCHANGED <<posted, threads, shouldStop, interfaces, link>>

\* The process ends, and with it every thread.
Exit ==
    /\ main.pc = "exit"
    /\ main' = [main EXCEPT !.pc = "gone"]
    /\ backing' = [t \in Worker |-> "off"]
    /\ UNCHANGED <<posted, threads, shouldStop, interfaces, link>>

MainThreadStep ==
    \/ startThreads \/ CreateInterfaces \/ startThread
    \/ StopThread \/ ReleaseInterfaces \/ Exit

-----------------------------------------------------------------------------
(* The workers: do { a call into steamclient; sleep } while (!shouldStop) *)

Calls(t) ==
    /\ backing[t] = "call"
    /\ backing' = [backing EXCEPT ![t] = "sleep"]
    /\ UNCHANGED <<main, posted, threads, shouldStop, interfaces, link>>

LoopTest(t) ==
    /\ backing[t] = "sleep"
    /\ backing' = [backing EXCEPT ![t] = IF t \in shouldStop THEN "off" ELSE "call"]
    /\ UNCHANGED <<main, posted, threads, shouldStop, interfaces, link>>

\* The CallbackThread found a callback and emits the signal for it.
CallbackEmitted ==
    /\ backing["CallbackThread"] = "call"
    /\ link.callbacks # <<>>
    /\ Head(link.callbacks) # "noConnection"
    /\ link' = [link EXCEPT !.callbacks = Tail(@)]
    /\ backing' = [backing EXCEPT !["CallbackThread"] = "sleep"]
    /\ UNCHANGED <<main, posted, threads, shouldStop, interfaces>>

\* SteamServerConnectFailure_t with k_EResultNoConnection: the thread asks for
\* a reconnect and returns from ThreadMain.
NoConnection ==
    /\ backing["CallbackThread"] = "call"
    /\ link.callbacks # <<>>
    /\ Head(link.callbacks) = "noConnection"
    /\ link' = [link EXCEPT !.callbacks = Tail(@), !.retrying = TRUE]
    /\ backing' = [backing EXCEPT !["CallbackThread"] = "off"]
    /\ UNCHANGED <<main, posted, threads, shouldStop, interfaces>>

CallbackThreadStep ==
    \/ link.callbacks = <<>> /\ Calls("CallbackThread")
    \/ CallbackEmitted \/ NoConnection
    \/ LoopTest("CallbackThread")

WorkerStep(t) ==
    /\ t # "CallbackThread"
    /\ Calls(t) \/ LoopTest(t)

-----------------------------------------------------------------------------
(* steamclient *)

\* The connection is established, for the first time or after a reconnect.
Connected ==
    /\ interfaces = "created"
    /\ ~link.up
    /\ link.losses = 0 \/ link.retrying
    /\ link' = [link EXCEPT !.up = TRUE, !.retrying = FALSE,
                            !.callbacks = Append(@, "connected")]
    /\ UNCHANGED <<main, posted, threads, backing, shouldStop, interfaces>>

ConnectionLost ==
    /\ interfaces = "created"
    /\ link.up
    /\ link.losses < MaxLosses
    /\ \E failure \in {"noConnection", "connectFailure"} :
         link' = [link EXCEPT !.up = FALSE, !.losses = @ + 1,
                              !.callbacks = Append(@, failure)]
    /\ UNCHANGED <<main, posted, threads, backing, shouldStop, interfaces>>

-----------------------------------------------------------------------------
Next ==
    \/ MainThreadStep \/ CreateMainWindow \/ Shutdown
    \/ CallbackThreadStep
    \/ \E t \in Worker : WorkerStep(t)
    \/ Connected \/ ConnectionLost

\* The threads run, and a connection that is retried comes back.  Nobody has to
\* sign in or quit.
Fairness ==
    /\ WF_vars(MainThreadStep)
    /\ WF_vars(CallbackThreadStep)
    /\ \A t \in Worker : WF_vars(WorkerStep(t))
    /\ WF_vars(Connected)

Spec == Init /\ [][Next]_vars /\ Fairness

-----------------------------------------------------------------------------
TypeOK ==
    /\ main \in [pc : {"startThreads", "CreateClientEngine", "exec", "StopThread", "exit", "gone"},
                 toStop : Seq(Worker), windows : 0..MaxWindows]
    /\ posted \in Seq(Worker)
    /\ threads \in Seq(Worker)
    /\ backing \in [Worker -> {"off", "call", "sleep"}]
    /\ shouldStop \subseteq Worker
    /\ interfaces \in {"none", "created", "released"}
    /\ link \in [up : BOOLEAN, retrying : BOOLEAN, losses : 0..MaxLosses,
                 callbacks : Seq({"connected", "noConnection", "connectFailure"})]

\* No worker calls into steamclient before its interfaces exist, although
\* InitApplication starts the threads first (application.cpp:119-121).
UsedOnceCreated ==
    \A t \in Worker : backing[t] = "call" => interfaces # "none"

\* When StopThreadsBlocking returns, every worker that runs has been asked to
\* stop, those registered late, twice, or not running any more included.
EveryWorkerAsked ==
    interfaces = "released" => \A t \in Worker : backing[t] # "off" => t \in shouldStop

\* Shutdown ends: StopThreadsBlocking waits for no thread that is gone or that
\* needs the main thread.
ShutdownEnds == main.pc = "StopThread" ~> main.pc = "gone"

\* StopThreadsBlocking "blocks until the threads have stopped"
\* (threadcontroller.cpp:64).  The code does not keep this: the list is empty as
\* soon as every thread has been asked.
StoppedBeforeRelease ==
    interfaces = "released" => \A t \in Worker : backing[t] = "off"

\* A connection that is established again is reported: SteamServersConnected is
\* "called when the connection has been re-estabilished" (callbackthread.h:31).
\* The code does not keep this: after a lost connection nobody reads callbacks.
ReconnectIsReported ==
    link.callbacks # <<>> /\ main.pc = "exec" ~> link.callbacks = <<>> \/ main.pc # "exec"
=============================================================================
