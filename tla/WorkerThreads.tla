---------------------------- MODULE WorkerThreads ----------------------------
(***************************************************************************)
(* The worker processes of the Windows port: in each of them a main thread *)
(* that waits for the master's events, a worker thread that runs the event *)
(* loop and a cache manager thread, which share the flags ngx_quit,        *)
(* ngx_exiting and ngx_reopen without a lock.  The managers of all workers *)
(* compete for one named mutex, so that one of them manages the caches.    *)
(* (os/win32/ngx_process_cycle.c, ngx_worker_process_cycle and after.)     *)
(*                                                                         *)
(* Only what the flags guard is kept of the event loop: the number of      *)
(* connections with a request and of idle keepalive connections.           *)
(* The master opens the term event but never sets it, so ngx_terminate     *)
(* stays 0 in a worker and is left out, with the branches that need it.    *)
(***************************************************************************)
EXTENDS Integers, FiniteSets

CONSTANTS
    Workers,          \* worker processes
    NoWorker,         \* owner of a free or abandoned mutex
    ShutdownTimeout,  \* worker_shutdown_timeout is configured
    MaxConns,         \* bound: connections a worker accepts
    MaxReopens        \* bound: reopen requests sent to a worker

ASSUME WorkersAssumption == NoWorker \notin Workers
ASSUME TimeoutAssumption == ShutdownTimeout \in BOOLEAN
ASSUME BoundsAssumption == MaxConns \in Nat /\ MaxReopens \in Nat

VARIABLES
    life,         \* the process runs, has exited or was killed
    quitEvent,    \* workers whose quit event is set
    reopenEvent,  \* workers whose reopen event is set
    cmEvent,      \* ngx_cache_manager_event (one in each process) is set
    mutexOwner,   \* the process whose manager thread owns the mutex
    quit,         \* ngx_quit
    isExiting,    \* ngx_exiting
    reopen,       \* ngx_reopen
    mpc,          \* the main thread
    wpc,          \* the worker thread
    cpc,          \* the cache manager thread
    active,       \* connections with a request, and the timers they hold
    idle,         \* idle keepalive connections
    fired,        \* the shutdown timer has fired
    accepted,     \* counter: connections accepted
    requested,    \* counter: reopen requests sent to the worker
    unserved,     \* history: a reopen request, no ngx_reopen_files since
    unseen        \* history: ngx_reopen set, no ngx_reopen_files since

events == <<quitEvent, reopenEvent, cmEvent>>
shared == <<quit, isExiting, reopen>>
conns == <<active, idle, fired, accepted>>
history == <<requested, unserved, unseen>>
vars == <<life, events, mutexOwner, shared, mpc, wpc, cpc, conns, history>>

MainStates == {"wait", "resetreopen", "signal", "join"}
WorkerStates == {"test", "events", "check", "setexiting", "reopen", "reopenfiles",
                 "done"}
ManagerStates == {"wait", "check", "check2", "top", "top2", "manage", "release",
                  "done"}

TypeOK ==
    /\ life \in [Workers -> {"runs", "exited", "killed"}]
    /\ quitEvent \subseteq Workers /\ reopenEvent \subseteq Workers
    /\ cmEvent \subseteq Workers
    /\ mutexOwner \in Workers \cup {NoWorker}
    /\ quit \subseteq Workers /\ isExiting \subseteq Workers
    /\ reopen \subseteq Workers
    /\ mpc \in [Workers -> MainStates]
    /\ wpc \in [Workers -> WorkerStates]
    /\ cpc \in [Workers -> ManagerStates]
    /\ active \in [Workers -> Nat] /\ idle \in [Workers -> Nat]
    /\ fired \subseteq Workers
    /\ accepted \in [Workers -> Nat] /\ requested \in [Workers -> Nat]
    /\ unserved \subseteq Workers /\ unseen \subseteq Workers

Init ==
    /\ life = [w \in Workers |-> "runs"]
    /\ quitEvent = {} /\ reopenEvent = {} /\ cmEvent = {}
    /\ mutexOwner = NoWorker
    /\ quit = {} /\ isExiting = {} /\ reopen = {}
    /\ mpc = [w \in Workers |-> "wait"]
    /\ wpc = [w \in Workers |-> "test"]
    /\ cpc = [w \in Workers |-> "wait"]
    /\ active = [w \in Workers |-> 0] /\ idle = [w \in Workers |-> 0]
    /\ fired = {}
    /\ accepted = [w \in Workers |-> 0]
    /\ requested = [w \in Workers |-> 0]
    /\ unserved = {} /\ unseen = {}

-----------------------------------------------------------------------------
(***************************************************************************)
(* The main thread: ngx_worker_process_cycle.                              *)
(***************************************************************************)
Main(w, from, to) ==
    /\ life[w] = "runs" /\ mpc[w] = from
    /\ mpc' = [mpc EXCEPT ![w] = to]

\* WAIT_OBJECT_0 + 1, which comes before the reopen event.
MainQuit(w) ==
    /\ Main(w, "wait", "signal")
    /\ w \in quitEvent
    /\ quit' = quit \cup {w}
    /\ UNCHANGED <<life, events, mutexOwner, isExiting, reopen, wpc, cpc, conns,
                   history>>

\* WAIT_OBJECT_0 + 2: ngx_reopen = 1 ...
MainReopen(w) ==
    /\ Main(w, "wait", "resetreopen")
    /\ w \in reopenEvent \ quitEvent
    /\ reopen' = reopen \cup {w}
    /\ unseen' = unseen \cup {w}
    /\ UNCHANGED <<life, events, mutexOwner, quit, isExiting, wpc, cpc, conns,
                   requested, unserved>>

\* ... and only then ResetEvent.
MainResetReopen(w) ==
    /\ Main(w, "resetreopen", "wait")
    /\ reopenEvent' = reopenEvent \ {w}
    /\ UNCHANGED <<life, quitEvent, cmEvent, mutexOwner, shared, wpc, cpc, conns,
                   history>>

\* SetEvent(ngx_cache_manager_event).
MainSignalManager(w) ==
    /\ Main(w, "signal", "join")
    /\ cmEvent' = cmEvent \cup {w}
    /\ UNCHANGED <<life, quitEvent, reopenEvent, mutexOwner, shared, wpc, cpc,
                   conns, history>>

\* Both threads have ended, in any order: ngx_worker_process_exit.
MainExit(w) ==
    /\ Main(w, "join", "join")
    /\ wpc[w] = "done" /\ cpc[w] = "done"
    /\ life' = [life EXCEPT ![w] = "exited"]
    /\ UNCHANGED <<events, mutexOwner, shared, wpc, cpc, conns, history>>

MainStep(w) == \/ MainQuit(w) \/ MainReopen(w) \/ MainResetReopen(w)
               \/ MainSignalManager(w) \/ MainExit(w)

-----------------------------------------------------------------------------
(***************************************************************************)
(* The worker thread: ngx_worker_thread.                                   *)
(***************************************************************************)
Thread(w, from, to) ==
    /\ life[w] = "runs" /\ wpc[w] = from
    /\ wpc' = [wpc EXCEPT ![w] = to]

\* ngx_event_no_timers_left: every open connection holds a timer.
NoTimersLeft(w) == active[w] = 0 /\ idle[w] = 0

\* Mutant: ngx_reopen is cleared at the top of the loop.
MutTestClearsReopen(w) ==
    /\ Thread(w, "test",
              IF w \in quit \/ (w \in isExiting /\ NoTimersLeft(w))
              THEN "done" ELSE "events")
    /\ reopen' = reopen \ {w}
    /\ UNCHANGED <<life, events, mutexOwner, quit, isExiting, mpc, cpc, conns, history>>

\* while (!ngx_quit), and the test of an exiting worker.
WorkerTest(w) ==
    /\ Thread(w, "test",
              IF w \in quit \/ (w \in isExiting /\ NoTimersLeft(w))
              THEN "done" ELSE "events")
    /\ UNCHANGED <<life, events, mutexOwner, shared, mpc, cpc, conns, history>>

\* ngx_process_events_and_timers returns at least every 500 ms ...
NoEvents(w) ==
    /\ Thread(w, "events", "check")
    /\ UNCHANGED <<life, events, mutexOwner, shared, mpc, cpc, conns, history>>

\* ... having accepted a connection, if the listening sockets are open,
Accept(w) ==
    /\ Thread(w, "events", "check")
    /\ w \notin isExiting /\ accepted[w] < MaxConns
    /\ active' = [active EXCEPT ![w] = @ + 1]
    /\ accepted' = [accepted EXCEPT ![w] = @ + 1]
    /\ UNCHANGED <<life, events, mutexOwner, shared, mpc, cpc, idle, fired, history>>

\* finished a request (ngx_http_finalize_connection keeps the connection
\* only in a worker that is not exiting),
FinishRequest(w) ==
    /\ Thread(w, "events", "check")
    /\ active[w] > 0
    /\ active' = [active EXCEPT ![w] = @ - 1]
    /\ \/ UNCHANGED idle
       \/ w \notin isExiting /\ idle' = [idle EXCEPT ![w] = @ + 1]
    /\ UNCHANGED <<life, events, mutexOwner, shared, mpc, cpc, fired, accepted,
                   history>>

\* Mutant: an idle connection is closed twice.
MutIdleEndsTwice(w) ==
    /\ Thread(w, "events", "check")
    /\ idle[w] > 0
    /\ idle' = [idle EXCEPT ![w] = @ - 2]
    /\ UNCHANGED <<life, events, mutexOwner, shared, mpc, cpc, active, fired,
                   accepted, history>>

\* got a new request on an idle connection, or closed it,
IdleEnds(w) ==
    /\ Thread(w, "events", "check")
    /\ idle[w] > 0
    /\ idle' = [idle EXCEPT ![w] = @ - 1]
    /\ \/ UNCHANGED active
       \/ active' = [active EXCEPT ![w] = @ + 1]
    /\ UNCHANGED <<life, events, mutexOwner, shared, mpc, cpc, fired, accepted,
                   history>>

\* or run ngx_shutdown_timer_handler, which closes every connection.
ShutdownTimer(w) ==
    /\ Thread(w, "events", "check")
    /\ ShutdownTimeout /\ w \in isExiting \ fired
    /\ fired' = fired \cup {w}
    /\ active' = [active EXCEPT ![w] = 0]
    /\ idle' = [idle EXCEPT ![w] = 0]
    /\ UNCHANGED <<life, events, mutexOwner, shared, mpc, cpc, accepted, history>>

\* Mutant: ngx_quit is not reset.
MutQuitStays(w) ==
    /\ Thread(w, "check", IF w \in quit \ isExiting THEN "setexiting" ELSE "reopen")
    /\ UNCHANGED <<life, events, mutexOwner, shared, mpc, cpc, conns, history>>

\* if (ngx_quit) { ngx_quit = 0; ... }
WorkerCheckQuit(w) ==
    /\ Thread(w, "check", IF w \in quit \ isExiting THEN "setexiting" ELSE "reopen")
    /\ quit' = quit \ {w}
    /\ UNCHANGED <<life, events, mutexOwner, isExiting, reopen, mpc, cpc, conns,
                   history>>

\* ngx_exiting = 1; the shutdown timer is set, the listening sockets and the
\* idle connections are closed.
WorkerSetExiting(w) ==
    /\ Thread(w, "setexiting", "reopen")
    /\ isExiting' = isExiting \cup {w}
    /\ idle' = [idle EXCEPT ![w] = 0]
    /\ UNCHANGED <<life, events, mutexOwner, quit, reopen, mpc, cpc, active, fired,
                   accepted, history>>

\* if (ngx_reopen) { ngx_reopen = 0; ... }
WorkerCheckReopen(w) ==
    /\ Thread(w, "reopen", IF w \in reopen THEN "reopenfiles" ELSE "test")
    /\ reopen' = reopen \ {w}
    /\ UNCHANGED <<life, events, mutexOwner, quit, isExiting, mpc, cpc, conns,
                   history>>

\* ngx_reopen_files.
WorkerReopenFiles(w) ==
    /\ Thread(w, "reopenfiles", "test")
    /\ unserved' = unserved \ {w}
    /\ unseen' = unseen \ {w}
    /\ UNCHANGED <<life, events, mutexOwner, shared, mpc, cpc, conns, requested>>

LoopEvents(w) == \/ NoEvents(w) \/ Accept(w) \/ FinishRequest(w) \/ IdleEnds(w)
                 \/ ShutdownTimer(w)

WorkerStep(w) == \/ WorkerTest(w) \/ LoopEvents(w) \/ WorkerCheckQuit(w)
                 \/ WorkerSetExiting(w) \/ WorkerCheckReopen(w)
                 \/ WorkerReopenFiles(w)

-----------------------------------------------------------------------------
(***************************************************************************)
(* The cache manager thread: ngx_cache_manager_thread.                     *)
(***************************************************************************)
Manager(w, from, to) ==
    /\ life[w] = "runs" /\ cpc[w] = from
    /\ cpc' = [cpc EXCEPT ![w] = to]

\* The event has the lower index: when it is set the mutex is not taken.
ManagerWokenByEvent(w) ==
    /\ Manager(w, "wait", "check")
    /\ w \in cmEvent
    /\ UNCHANGED <<life, events, mutexOwner, shared, mpc, wpc, conns, history>>

\* WAIT_OBJECT_0 + 1 or WAIT_ABANDONED_0 + 1.
ManagerTakesMutex(w) ==
    /\ Manager(w, "wait", "check")
    /\ w \notin cmEvent /\ mutexOwner = NoWorker
    /\ mutexOwner' = w
    /\ UNCHANGED <<life, events, shared, mpc, wpc, conns, history>>

\* A mutex is abandoned, that is free, when the thread that owns it ends.
Abandon(w) == IF mutexOwner = w THEN NoWorker ELSE mutexOwner

\* if (ngx_quit || ngx_exiting) return, without ReleaseMutex.
ManagerReadsQuit(w) ==
    /\ Manager(w, "check", IF w \in quit THEN "done" ELSE "check2")
    /\ mutexOwner' = IF w \in quit THEN Abandon(w) ELSE mutexOwner
    /\ UNCHANGED <<life, events, shared, mpc, wpc, conns, history>>

\* Mutant: the first loop goes round again instead of being left.
MutWaitsAgain(w) ==
    /\ Manager(w, "check2", IF w \in isExiting THEN "done" ELSE "wait")
    /\ mutexOwner' = IF w \in isExiting THEN Abandon(w) ELSE mutexOwner
    /\ UNCHANGED <<life, events, shared, mpc, wpc, conns, history>>

ManagerReadsExiting(w) ==
    /\ Manager(w, "check2", IF w \in isExiting THEN "done" ELSE "top")
    /\ mutexOwner' = IF w \in isExiting THEN Abandon(w) ELSE mutexOwner
    /\ UNCHANGED <<life, events, shared, mpc, wpc, conns, history>>

\* The same test at the top of the second loop.
ManagerTop(w) ==
    /\ Manager(w, "top", IF w \in quit THEN "release" ELSE "top2")
    /\ UNCHANGED <<life, events, mutexOwner, shared, mpc, wpc, conns, history>>

\* Mutant: the second loop does not test ngx_exiting.
MutTop2Blind(w) ==
    /\ Manager(w, "top2", "manage")
    /\ UNCHANGED <<life, events, mutexOwner, shared, mpc, wpc, conns, history>>

ManagerTop2(w) ==
    /\ Manager(w, "top2", IF w \in isExiting THEN "release" ELSE "manage")
    /\ UNCHANGED <<life, events, mutexOwner, shared, mpc, wpc, conns, history>>

\* Mutant: the mutex is released after each pass of the second loop.
MutReleaseEachPass(w) ==
    /\ Manager(w, "manage", "top")
    /\ mutexOwner' = Abandon(w)
    /\ UNCHANGED <<life, events, shared, mpc, wpc, conns, history>>

\* ngx_cache_manager_process_handler runs the managers of all caches and
\* waits for the event or for the time they asked for.
ManagerRuns(w) ==
    /\ Manager(w, "manage", "top")
    /\ UNCHANGED <<life, events, mutexOwner, shared, mpc, wpc, conns, history>>

\* ReleaseMutex fails, without effect, in a thread that does not own it.
ManagerReleases(w) ==
    /\ Manager(w, "release", "done")
    /\ mutexOwner' = Abandon(w)
    /\ UNCHANGED <<life, events, shared, mpc, wpc, conns, history>>

ManagerStep(w) == \/ ManagerWokenByEvent(w) \/ ManagerTakesMutex(w)
                  \/ ManagerReadsQuit(w) \/ ManagerReadsExiting(w)
                  \/ ManagerTop(w) \/ ManagerTop2(w) \/ ManagerRuns(w)
                  \/ ManagerReleases(w)

-----------------------------------------------------------------------------
(***************************************************************************)
(* The master: it sets the events, and terminates workers that are slow.   *)
(***************************************************************************)
AskQuit(w) ==
    /\ life[w] = "runs" /\ w \notin quitEvent
    /\ quitEvent' = quitEvent \cup {w}
    /\ UNCHANGED <<life, reopenEvent, cmEvent, mutexOwner, shared, mpc, wpc, cpc,
                   conns, history>>

AskReopen(w) ==
    /\ life[w] = "runs" /\ requested[w] < MaxReopens
    /\ reopenEvent' = reopenEvent \cup {w}
    /\ requested' = [requested EXCEPT ![w] = @ + 1]
    /\ unserved' = unserved \cup {w}
    /\ UNCHANGED <<life, quitEvent, cmEvent, mutexOwner, shared, mpc, wpc, cpc,
                   conns, unseen>>

\* TerminateProcess by the master, or a crash.
Kill(w) ==
    /\ life[w] = "runs"
    /\ life' = [life EXCEPT ![w] = "killed"]
    /\ mutexOwner' = Abandon(w)
    /\ UNCHANGED <<events, shared, mpc, wpc, cpc, conns, history>>

Next == \E w \in Workers :
    \/ MainStep(w) \/ WorkerStep(w) \/ ManagerStep(w)
    \/ AskQuit(w) \/ AskReopen(w) \/ Kill(w)

\* The system schedules every thread, and none of their waits in a worker
\* that was told to quit is without a timeout: select waits at most 500 ms,
\* and the shutdown timer, once set, expires.
Fairness == \A w \in Workers :
    /\ WF_vars(MainStep(w))
    /\ WF_vars(WorkerStep(w))
    /\ WF_vars(ManagerStep(w))
    /\ SF_vars(ShutdownTimer(w))

Spec == Init /\ [][Next]_vars /\ Fairness

-----------------------------------------------------------------------------
(***************************************************************************)
(* Properties.                                                             *)
(***************************************************************************)
Managing(w) == life[w] = "runs" /\ cpc[w] \in {"top", "top2", "manage", "release"}
ToldToQuit(w) == mpc[w] \in {"signal", "join"}

\* Two cache managers run at once only if one of them is in a worker that is
\* quitting: its manager may slip through the moment between "ngx_quit = 0"
\* and "ngx_exiting = 1" of the worker thread and start without the mutex.
OneManager ==
    \A v, w \in Workers :
        Managing(v) /\ Managing(w) /\ v # w => ToldToQuit(v) \/ ToldToQuit(w)

\* The mutex is never stuck: its owner is a thread that still runs, past its
\* wait, and will end its managing or its process.
OwnerRuns ==
    mutexOwner # NoWorker =>
        life[mutexOwner] = "runs" /\ cpc[mutexOwner] \notin {"wait", "done"}

\* A worker that has once set ngx_exiting exits only when no connection is
\* left, or after worker_shutdown_timeout.
DrainsOnceExiting ==
    \A w \in isExiting :
        life[w] = "exited" => NoTimersLeft(w)

\* No idle connection outlives or is created after ngx_close_idle_connections,
\* so none can hold up the exit until its keepalive timeout.
NoIdleWhenExiting == \A w \in isExiting : idle[w] = 0

\* A worker that is told to quit ends.
QuitEnds == \A w \in Workers : w \in quitEvent ~> life[w] # "runs"

\* While a worker lives that is not told to quit, some manager comes to run:
\* the mutex passes on when its owner exits, returns early or is killed.
ManagerTakesOver ==
    \A w \in Workers :
        (life[w] = "runs" /\ w \notin quitEvent)
            ~> (w \in quitEvent \/ life[w] # "runs" \/ \E v \in Workers : Managing(v))

\* Each time the main thread sets ngx_reopen the worker thread, if the worker
\* is not told to quit, reopens the files once more: no wakeup of the flag is
\* lost between its test and its reset.
FlagServed ==
    \A w \in Workers :
        w \in unseen ~> (w \notin unseen \/ w \in quitEvent \/ life[w] # "runs")

\* man/nginx.8: workers support SIGQUIT, "Shut down gracefully."  A worker
\* that exits by itself has finished its connections, or has run into
\* worker_shutdown_timeout.
GracefulExit == \A w \in Workers : life[w] = "exited" => active[w] = 0 \/ w \in fired

\* man/nginx.8: SIGUSR1, "Reopen log files."  Each request to reopen is
\* followed by ngx_reopen_files in a worker that is not told to quit.
ReopenServed ==
    \A w \in Workers :
        w \in unserved ~> (w \notin unserved \/ w \in quitEvent \/ life[w] # "runs")
=============================================================================
