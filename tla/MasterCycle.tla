----------------------------- MODULE MasterCycle -----------------------------
(***************************************************************************)
(* The master process of the Windows port: ngx_master_process_cycle, the   *)
(* process table ngx_processes[] and the start-up handshake of             *)
(* ngx_spawn_process (os/win32/ngx_process_cycle.c, os/win32/ngx_process.c)*)
(* together with what a worker process does that the master can observe.   *)
(*                                                                         *)
(* The master waits on four named events (stop, quit, reopen, reload) and  *)
(* on the handles of its workers.  A worker says that it is up by setting  *)
(* ngx_master_process_event, one manual-reset event shared by all workers. *)
(* Win32 calls on valid handles succeed; CreateProcess may fail, and each  *)
(* process instance of Procs is created at most once (a pid is not reused).*)
(***************************************************************************)
EXTENDS Integers, FiniteSets

CONSTANTS
    Procs,        \* process instances that CreateProcess may return
    NoProc,       \* the NULL handle
    MaxSlots,     \* NGX_MAX_PROCESSES
    MaxWorkers,   \* the largest worker_processes of a configuration
    MaxSignals,   \* bound: signals sent to the master
    MaxCrashes    \* bound: worker crashes

ASSUME ProcsAssumption == IsFiniteSet(Procs) /\ NoProc \notin Procs
ASSUME SlotsAssumption == MaxSlots \in Nat \ {0}
ASSUME WorkersAssumption == MaxWorkers \in Nat
ASSUME BoundsAssumption == MaxSignals \in Nat /\ MaxCrashes \in Nat

Slots == 0 .. MaxSlots - 1
Signals == {"stop", "quit", "reopen", "reload"}

VARIABLES
    signalled,    \* which of the four named events are set
    mevent,       \* ngx_master_process_event is set
    pstate,       \* what each worker process has reached
    worker,       \* ngx_worker: the id a worker read from its environment
    inherited,    \* the listening sockets a worker inherited
    quitEvent,    \* workers whose quit event is set
    reopenEvent,  \* workers whose reopen event is set
    handle,       \* ngx_processes[s].handle
    opened,       \* ngx_processes[s].term, quit and reopen are open handles
    exiting,      \* ngx_processes[s].exiting
    last,         \* ngx_last_process
    terminate,    \* ngx_terminate
    quit,         \* ngx_quit
    timer,        \* the local timer of the loop is set
    mpc,          \* where the master is
    slot,         \* s of ngx_spawn_process
    respawn,      \* ngx_spawn_process was called by ngx_reap_worker
    started,      \* n of ngx_start_worker_processes
    want,         \* ccf->worker_processes of the current cycle
    sockets,      \* the master's listening sockets: 0 closed, else a generation
    env,          \* the generation named by the NGINX environment variable
    sent,         \* counter: signals sent
    crashes,      \* counter: worker crashes
    timeouts      \* counter: handshakes that waited 60 seconds in vain

named == <<signalled, mevent>>
procs == <<pstate, worker, inherited, quitEvent, reopenEvent>>
table == <<handle, opened, exiting, last>>
flags == <<terminate, quit, timer>>
spawning == <<slot, respawn, started, want>>
listening == <<sockets, env>>
counters == <<sent, crashes, timeouts>>
vars == <<named, procs, table, flags, mpc, spawning, listening, counters>>

MasterStates == {"spawn", "handshake", "spawnfail", "loop", "quitwait",
                 "reloadwait", "reload", "exited"}
ProcStates == {"none", "created", "events", "running", "dead"}

TypeOK ==
    /\ signalled \subseteq Signals
    /\ mevent \in BOOLEAN
    /\ pstate \in [Procs -> ProcStates]
    /\ worker \in [Procs -> Slots]
    /\ inherited \in [Procs -> Nat]
    /\ quitEvent \subseteq Procs
    /\ reopenEvent \subseteq Procs
    /\ handle \in [Slots -> Procs \cup {NoProc}]
    /\ opened \in [Slots -> BOOLEAN]
    /\ exiting \in [Slots -> BOOLEAN]
    /\ last \in 0 .. MaxSlots
    /\ terminate \in BOOLEAN /\ quit \in BOOLEAN /\ timer \in BOOLEAN
    /\ mpc \in MasterStates
    /\ slot \in Slots
    /\ respawn \in BOOLEAN
    /\ started \in Nat /\ want \in Nat
    /\ sockets \in Nat /\ env \in Nat
    /\ sent \in Nat /\ crashes \in Nat /\ timeouts \in Nat

(***************************************************************************)
(* A process is alive from CreateProcess until it exits or is terminated.  *)
(***************************************************************************)
IsAlive(p) == pstate[p] \in {"created", "events", "running"}
Alive == {p \in Procs : IsAlive(p)}

\* The slots the loops of the master look at.
Used == {s \in Slots : s < last /\ handle[s] # NoProc}

Init ==
    /\ signalled = {} /\ mevent = FALSE
    /\ pstate = [p \in Procs |-> "none"]
    /\ worker = [p \in Procs |-> 0]
    /\ inherited = [p \in Procs |-> 0]
    /\ quitEvent = {} /\ reopenEvent = {}
    /\ handle = [s \in Slots |-> NoProc]
    /\ opened = [s \in Slots |-> FALSE]
    /\ exiting = [s \in Slots |-> FALSE]
    /\ last = 0
    /\ terminate = FALSE /\ quit = FALSE /\ timer = FALSE
    /\ mpc = "spawn" /\ slot = 0 /\ respawn = FALSE /\ started = 0
    /\ want \in 0 .. MaxWorkers
    /\ sockets = 1 /\ env = 1
    /\ sent = 0 /\ crashes = 0 /\ timeouts = 0

-----------------------------------------------------------------------------
(***************************************************************************)
(* ngx_spawn_process: create the process, then wait for its sign of life.  *)
(***************************************************************************)

\* Mutant: ngx_reap_worker lowers ngx_last_process whatever the slot.
MutDropsLast ==
    /\ mpc' = IF respawn \/ started > 0 THEN "loop" ELSE "exited"
    /\ last' = IF respawn THEN last - 1 ELSE last

\* What the caller does with NGX_INVALID_PID: ngx_reap_worker drops the slot
\* from the end of the table, ngx_start_worker_processes stops, and starting
\* no worker at all makes the master exit(2).
SpawnReturnsInvalid ==
    IF respawn
    THEN /\ mpc' = "loop"
         /\ last' = IF slot = last - 1 THEN last - 1 ELSE last
    ELSE /\ mpc' = IF started = 0 THEN "exited" ELSE "loop"
         /\ UNCHANGED last

WantsSpawn == mpc = "spawn" /\ (respawn \/ started < want)

\* The search: the first slot below ngx_last_process without a process, else
\* the slot at ngx_last_process, if the table has one.
FirstFree(s) ==
    /\ s <= last
    /\ s < last => handle[s] = NoProc
    /\ \A t \in Slots : t < s => handle[t] # NoProc

\* The slot ngx_spawn_process takes: given by ngx_reap_worker, else searched.
TakesSlot(s) == IF respawn THEN s = slot ELSE FirstFree(s)

\* Mutant: ngx_set_worker_id runs before the slot is searched.
MutIdBeforeSearch(p, s) ==
    /\ WantsSpawn /\ TakesSlot(s) /\ pstate[p] = "none"
    /\ pstate' = [pstate EXCEPT ![p] = "created"]
    /\ worker' = [worker EXCEPT ![p] = slot]
    /\ inherited' = [inherited EXCEPT ![p] = env]
    /\ slot' = s
    /\ handle' = [handle EXCEPT ![s] = p]
    /\ opened' = [opened EXCEPT ![s] = FALSE]
    /\ exiting' = [exiting EXCEPT ![s] = FALSE]
    /\ mpc' = "handshake"
    /\ UNCHANGED <<named, quitEvent, reopenEvent, last, flags, respawn, started,
                   want, listening, counters>>

\* Mutant: the slot is not cleared by ngx_memzero.
MutNoMemzero(p, s) ==
    /\ WantsSpawn /\ TakesSlot(s) /\ pstate[p] = "none"
    /\ pstate' = [pstate EXCEPT ![p] = "created"]
    /\ worker' = [worker EXCEPT ![p] = s]
    /\ inherited' = [inherited EXCEPT ![p] = env]
    /\ slot' = s
    /\ handle' = [handle EXCEPT ![s] = p]
    /\ mpc' = "handshake"
    /\ UNCHANGED <<named, quitEvent, reopenEvent, opened, exiting, last, flags,
                   respawn, started, want, listening, counters>>

CreateProcess(p, s) ==
    /\ WantsSpawn /\ TakesSlot(s)
    /\ pstate[p] = "none"
    /\ pstate' = [pstate EXCEPT ![p] = "created"]
    /\ worker' = [worker EXCEPT ![p] = s]
    /\ inherited' = [inherited EXCEPT ![p] = env]
    /\ slot' = s
    /\ handle' = [handle EXCEPT ![s] = p]
    /\ opened' = [opened EXCEPT ![s] = FALSE]
    /\ exiting' = [exiting EXCEPT ![s] = FALSE]
    /\ mpc' = "handshake"
    /\ UNCHANGED <<named, quitEvent, reopenEvent, last, flags, respawn, started,
                   want, listening, counters>>

\* No free slot, or CreateProcess fails.
CreateFails ==
    /\ WantsSpawn
    /\ SpawnReturnsInvalid
    /\ UNCHANGED <<named, procs, handle, opened, exiting, flags, spawning,
                   listening, counters>>

\* ngx_start_worker_processes has started all workers of the configuration.
StartDone ==
    /\ mpc = "spawn" /\ ~respawn /\ started = want
    /\ mpc' = IF started = 0 THEN "exited" ELSE "loop"
    /\ UNCHANGED <<named, procs, table, flags, spawning, listening, counters>>

\* Mutant: a respawned process does not get its event handles.
MutRespawnNotOpened ==
    /\ mpc = "handshake" /\ mevent
    /\ pstate[handle[slot]] \in {"events", "running"}
    /\ opened' = [opened EXCEPT ![slot] = ~respawn]
    /\ mevent' = FALSE
    /\ last' = IF ~respawn /\ slot = last THEN last + 1 ELSE last
    /\ mpc' = IF respawn THEN "loop" ELSE "spawn"
    /\ started' = IF respawn THEN started ELSE started + 1
    /\ UNCHANGED <<signalled, procs, handle, exiting, flags, slot, respawn, want,
                   listening, counters>>

\* Mutant: ResetEvent(ngx_master_process_event) is missing.
MutNoReset ==
    /\ mpc = "handshake" /\ mevent
    /\ pstate[handle[slot]] \in {"events", "running"}
    /\ opened' = [opened EXCEPT ![slot] = TRUE]
    /\ last' = IF ~respawn /\ slot = last THEN last + 1 ELSE last
    /\ mpc' = IF respawn THEN "loop" ELSE "spawn"
    /\ started' = IF respawn THEN started ELSE started + 1
    /\ UNCHANGED <<named, procs, handle, exiting, flags, slot, respawn, want,
                   listening, counters>>

\* Mutant: ngx_last_process grows also when a hole of the table is filled.
MutLastAlwaysGrows ==
    /\ mpc = "handshake" /\ mevent
    /\ pstate[handle[slot]] \in {"events", "running"}
    /\ opened' = [opened EXCEPT ![slot] = TRUE]
    /\ mevent' = FALSE
    /\ last' = IF respawn THEN last ELSE last + 1
    /\ mpc' = IF respawn THEN "loop" ELSE "spawn"
    /\ started' = IF respawn THEN started ELSE started + 1
    /\ UNCHANGED <<signalled, procs, handle, exiting, flags, slot, respawn, want,
                   listening, counters>>

\* The event is set and the three events of the new process can be opened.
HandshakeOk ==
    /\ mpc = "handshake" /\ mevent
    /\ pstate[handle[slot]] \in {"events", "running"}
    /\ opened' = [opened EXCEPT ![slot] = TRUE]
    /\ mevent' = FALSE
    /\ last' = IF ~respawn /\ slot = last THEN last + 1 ELSE last
    /\ mpc' = IF respawn THEN "loop" ELSE "spawn"
    /\ started' = IF respawn THEN started ELSE started + 1
    /\ UNCHANGED <<signalled, procs, handle, exiting, flags, slot, respawn, want,
                   listening, counters>>

\* The event is set, by this or by an earlier process, but OpenEvent fails:
\* the new process has not created its events yet, or is already gone.
\* "goto failed" leaves the event set.
HandshakeNoEvents ==
    /\ mpc = "handshake" /\ mevent
    /\ pstate[handle[slot]] \in {"created", "dead"}
    /\ mpc' = "spawnfail"
    /\ UNCHANGED <<named, procs, table, flags, spawning, listening, counters>>

\* The process exited before it set the event.
HandshakeExited ==
    /\ mpc = "handshake" /\ ~mevent
    /\ pstate[handle[slot]] = "dead"
    /\ mpc' = "spawnfail"
    /\ UNCHANGED <<named, procs, table, flags, spawning, listening, counters>>

\* WAIT_TIMEOUT after 60 seconds.
HandshakeTimeout ==
    /\ mpc = "handshake" /\ ~mevent
    /\ IsAlive(handle[slot])
    /\ mpc' = "spawnfail"
    /\ timeouts' = timeouts + 1
    /\ UNCHANGED <<named, procs, table, flags, spawning, listening, sent, crashes>>

\* The failed: label; the process may have gone on running up to here.
KillSpawned ==
    /\ mpc = "spawnfail"
    /\ pstate' = [pstate EXCEPT ![handle[slot]] = "dead"]
    /\ handle' = [handle EXCEPT ![slot] = NoProc]
    /\ opened' = [opened EXCEPT ![slot] = FALSE]
    /\ SpawnReturnsInvalid
    /\ UNCHANGED <<named, worker, inherited, quitEvent, reopenEvent, exiting,
                   flags, spawning, listening, counters>>

-----------------------------------------------------------------------------
(***************************************************************************)
(* The loop.  WaitForMultipleObjects returns the lowest signalled index:   *)
(* stop, quit, reopen, reload, then the workers in the order of the table. *)
(***************************************************************************)
Highest(sig) ==
    /\ sig \in signalled
    /\ sig = "quit" => "stop" \notin signalled
    /\ sig = "reopen" => signalled \cap {"stop", "quit"} = {}
    /\ sig = "reload" => signalled = {"reload"}

\* Mutant: the master does not wait on the last slot.
MutDeadSlots == {s \in Used : s < last - 1 /\ pstate[handle[s]] = "dead"}

\* The workers whose handles are signalled.
DeadSlots == {s \in Used : pstate[handle[s]] = "dead"}

\* First half of ngx_quit_worker_processes: set the quit event of every
\* worker; the wait of up to two seconds is the state passed as next.
AskToQuit(next) ==
    /\ quitEvent' = quitEvent \cup {handle[s] : s \in Used}
    /\ exiting' = [s \in Slots |-> s \in Used \/ exiting[s]]
    /\ mpc' = next
    /\ UNCHANGED <<pstate, worker, inherited, reopenEvent, handle, opened, last>>

\* ngx_terminate_worker_processes: close every handle, kill who still runs.
TerminateWorkers ==
    /\ pstate' = [p \in Procs |->
                    IF IsAlive(p) /\ \E s \in Used : handle[s] = p
                    THEN "dead" ELSE pstate[p]]
    /\ handle' = [s \in Slots |-> IF s \in Used THEN NoProc ELSE handle[s]]
    /\ opened' = [s \in Slots |-> s \notin Used /\ opened[s]]
    /\ exiting' = [s \in Slots |-> s \in Used \/ exiting[s]]
    /\ UNCHANGED <<worker, inherited, quitEvent, reopenEvent, last>>

\* Mutant: stop does not arm the timer.
MutStopNoTimer ==
    /\ mpc = "loop" /\ Highest("stop")
    /\ signalled' = signalled \ {"stop"}
    /\ terminate' = TRUE
    /\ AskToQuit("quitwait")
    /\ UNCHANGED <<mevent, quit, timer, spawning, listening, counters>>

Stop ==
    /\ mpc = "loop" /\ Highest("stop")
    /\ signalled' = signalled \ {"stop"}
    /\ timer' = TRUE
    /\ terminate' = TRUE
    /\ AskToQuit("quitwait")
    /\ UNCHANGED <<mevent, quit, spawning, listening, counters>>

Quit ==
    /\ mpc = "loop" /\ Highest("quit")
    /\ signalled' = signalled \ {"quit"}
    /\ quit' = TRUE
    /\ AskToQuit("quitwait")
    /\ UNCHANGED <<mevent, terminate, timer, spawning, listening, counters>>

Reopen ==
    /\ mpc = "loop" /\ Highest("reopen")
    /\ signalled' = signalled \ {"reopen"}
    /\ reopenEvent' = reopenEvent \cup {handle[s] : s \in Used}
    /\ UNCHANGED <<mevent, pstate, worker, inherited, quitEvent, table, flags,
                   mpc, spawning, listening, counters>>

Reload ==
    /\ mpc = "loop" /\ Highest("reload")
    /\ signalled' = signalled \ {"reload"}
    /\ AskToQuit("reloadwait")
    /\ UNCHANGED <<mevent, flags, spawning, listening, counters>>

\* Mutant: the reload leaves the old workers to themselves, as upstream does.
MutQuitNoTerminate ==
    /\ mpc \in {"quitwait", "reloadwait"}
    /\ mpc' = IF mpc = "quitwait" THEN "loop" ELSE "reload"
    /\ UNCHANGED <<named, procs, table, flags, spawning, listening, counters>>

\* Second half of ngx_quit_worker_processes, once all workers are dead or two
\* seconds are over.
QuitWaitOver ==
    /\ mpc \in {"quitwait", "reloadwait"}
    /\ TerminateWorkers
    /\ mpc' = IF mpc = "quitwait" THEN "loop" ELSE "reload"
    /\ UNCHANGED <<named, flags, spawning, listening, counters>>

\* Mutant: ngx_set_inherited_listen_sockets is not called.
MutReloadOldEnv ==
    /\ mpc = "reload"
    /\ sockets' = env + 1
    /\ want' \in 0 .. MaxWorkers
    /\ started' = 0 /\ respawn' = FALSE
    /\ mpc' = "spawn"
    /\ UNCHANGED <<named, procs, table, flags, slot, env, counters>>

\* ngx_close_listening_sockets, then ngx_init_cycle opens those of the new
\* configuration and the workers are started.  The second call of
\* ngx_open_listening_sockets finds every socket open and cannot fail.
ReloadOk ==
    /\ mpc = "reload"
    /\ sockets' = env + 1
    /\ env' = env + 1
    /\ want' \in 0 .. MaxWorkers
    /\ started' = 0 /\ respawn' = FALSE
    /\ mpc' = "spawn"
    /\ UNCHANGED <<named, procs, table, flags, slot, counters>>

\* ngx_init_cycle returned NULL: the sockets stay closed, nobody is started.
ReloadFails ==
    /\ mpc = "reload"
    /\ sockets' = 0
    /\ mpc' = "loop"
    /\ UNCHANGED <<named, procs, table, flags, spawning, env, counters>>

\* ngx_init_modules failed inside ngx_init_cycle: exit(1).
ReloadExits ==
    /\ mpc = "reload"
    /\ mpc' = "exited"
    /\ UNCHANGED <<named, procs, table, flags, spawning, listening, counters>>

\* ngx_reap_worker for the first dead worker of the table.
ReapWorker ==
    /\ mpc = "loop" /\ signalled = {}
    /\ \E s \in DeadSlots :
         /\ \A t \in DeadSlots : s <= t
         /\ handle' = [handle EXCEPT ![s] = NoProc]
         /\ opened' = [opened EXCEPT ![s] = FALSE]
         /\ slot' = s
         /\ IF ~exiting[s] /\ ~terminate /\ ~quit
            THEN /\ respawn' = TRUE
                 /\ mpc' = "spawn"
            ELSE /\ UNCHANGED respawn
                 /\ mpc' = IF Used = {s} /\ (terminate \/ quit)
                           THEN "exited" ELSE "loop"
    /\ UNCHANGED <<named, procs, exiting, last, flags, started, want, listening,
                   counters>>

\* Mutant: the timeout exits without ngx_terminate_worker_processes.
MutTimeoutNoTerminate ==
    /\ mpc = "loop" /\ timer /\ signalled = {} /\ DeadSlots = {}
    /\ mpc' = "exited"
    /\ UNCHANGED <<named, procs, table, flags, spawning, listening, counters>>

\* WAIT_TIMEOUT of the loop: the five seconds after a stop are over.
StopTimeout ==
    /\ mpc = "loop" /\ timer /\ signalled = {} /\ DeadSlots = {}
    /\ TerminateWorkers
    /\ mpc' = "exited"
    /\ UNCHANGED <<named, flags, spawning, listening, counters>>

MasterStep ==
    \/ \E p \in Procs, s \in Slots : CreateProcess(p, s)
    \/ CreateFails \/ StartDone
    \/ HandshakeOk \/ HandshakeNoEvents \/ HandshakeExited \/ HandshakeTimeout
    \/ KillSpawned
    \/ Stop \/ Quit \/ Reopen \/ Reload \/ QuitWaitOver
    \/ ReloadOk \/ ReloadFails \/ ReloadExits
    \/ ReapWorker \/ StopTimeout

-----------------------------------------------------------------------------
(***************************************************************************)
(* The worker processes and who signals the master.                        *)
(***************************************************************************)

\* A worker creates its term, quit and reopen events.
CreateEvents(p) ==
    /\ pstate[p] = "created"
    /\ pstate' = [pstate EXCEPT ![p] = "events"]
    /\ UNCHANGED <<named, worker, inherited, quitEvent, reopenEvent, table, flags,
                   mpc, spawning, listening, counters>>

\* SetEvent(mev).
SetMasterEvent(p) ==
    /\ pstate[p] = "events"
    /\ pstate' = [pstate EXCEPT ![p] = "running"]
    /\ mevent' = TRUE
    /\ UNCHANGED <<signalled, worker, inherited, quitEvent, reopenEvent, table,
                   flags, mpc, spawning, listening, counters>>

\* The main thread of the worker sees its reopen event.
WorkerReopens(p) ==
    /\ pstate[p] = "running" /\ p \in reopenEvent
    /\ reopenEvent' = reopenEvent \ {p}
    /\ UNCHANGED <<named, pstate, worker, inherited, quitEvent, table, flags, mpc,
                   spawning, listening, counters>>

\* The worker saw its quit event, its threads are done, it exits.
WorkerExits(p) ==
    /\ pstate[p] = "running" /\ p \in quitEvent
    /\ pstate' = [pstate EXCEPT ![p] = "dead"]
    /\ UNCHANGED <<named, worker, inherited, quitEvent, reopenEvent, table, flags,
                   mpc, spawning, listening, counters>>

\* A worker crashes, or exits with an error, at any time of its life.
Crash(p) ==
    /\ IsAlive(p) /\ crashes < MaxCrashes
    /\ pstate' = [pstate EXCEPT ![p] = "dead"]
    /\ crashes' = crashes + 1
    /\ UNCHANGED <<named, worker, inherited, quitEvent, reopenEvent, table, flags,
                   mpc, spawning, listening, sent, timeouts>>

\* ngx_os_signal_process ("nginx -s ...") or the console handler.
Signal(sig) ==
    /\ mpc # "exited" /\ sent < MaxSignals
    /\ signalled' = signalled \cup {sig}
    /\ sent' = sent + 1
    /\ UNCHANGED <<mevent, procs, table, flags, mpc, spawning, listening, crashes,
                   timeouts>>

WorkerStep(p) ==
    \/ CreateEvents(p) \/ SetMasterEvent(p)
    \/ WorkerReopens(p) \/ WorkerExits(p)

Next ==
    \/ MasterStep
    \/ \E p \in Procs : WorkerStep(p) \/ Crash(p)
    \/ \E sig \in Signals : Signal(sig)

\* The master is one thread that the system schedules, and each of its waits
\* but the one of an idle loop has a timeout.
Spec == Init /\ [][Next]_vars /\ WF_vars(MasterStep)

-----------------------------------------------------------------------------
(***************************************************************************)
(* The master seen as a supervisor.                                        *)
(***************************************************************************)
Life(p) == CASE pstate[p] = "none" -> "fresh"
             [] pstate[p] = "dead" -> "gone"
             [] OTHER -> "live"

Sup == INSTANCE Supervisor WITH
    Ids <- Slots,
    life <- [p \in Procs |-> Life(p)],
    id <- worker,
    serves <- inherited,
    bound <- sockets,
    up <- mpc # "exited"

-----------------------------------------------------------------------------
(***************************************************************************)
(* Properties.                                                             *)
(***************************************************************************)

\* The slot ngx_spawn_process is working on.
SpawningSlot(s) == mpc \in {"handshake", "spawnfail"} /\ s = slot

\* Every live worker is the process of a slot that the master's loops reach
\* (ngx_last_process is never lowered past it), so it can be asked to quit,
\* terminated and reaped.  Bites at ngx_reap_worker's ngx_last_process--.
Tracked ==
    \A p \in Alive : \E s \in Slots :
        handle[s] = p /\ (s < last \/ SpawningSlot(s))

\* exit(1), exit(2), the exit of ngx_reap_worker's caller and the exit on timeout all
\* leave no worker process behind.
NoOrphans == mpc = "exited" => Alive = {}

\* Two live workers never have the same ngx_worker (the slot a worker reads
\* from its environment is not reused while its process lives).
DistinctIds == \A p, q \in Alive : worker[p] = worker[q] => p = q

\* All live workers serve the listening sockets the master has now: a reload
\* never closes or reopens the ports under a worker of the old configuration.
OneGeneration == \A p \in Alive : sockets > 0 /\ inherited[p] = sockets

\* Outside the handshake every process of the table has its three event
\* handles open: SetEvent in ngx_quit_worker_processes and in
\* ngx_reopen_worker_processes, and CloseHandle, never get a NULL handle.
EventsOpen ==
    \A s \in Slots : handle[s] # NoProc /\ ~SpawningSlot(s) => opened[s]

\* When the master waits in its loop no process of the table is marked as
\* exiting, so a worker that dies is respawned unless the master itself is
\* shutting down.
DeadWillBeRespawned ==
    mpc = "loop" => \A s \in Used : ~exiting[s]

\* A process that starts normally is killed by ngx_spawn_process only after
\* a worker crashed or a handshake timed out.
HealthyNotKilled ==
    [][KillSpawned /\ IsAlive(handle[slot]) => crashes + timeouts > 0]_vars

\* A stop request ends the master process, whatever it is doing, however the
\* workers behave and whichever signals come in between.
StopExits == "stop" \in signalled ~> mpc = "exited"

\* A dead worker is taken off the table: its slot is respawned or freed.
DeadReaped ==
    \A p \in Procs :
        (pstate[p] = "dead" /\ \E s \in Slots : handle[s] = p)
          ~> (\A s \in Slots : handle[s] # p)

\* The master is a supervisor: worker processes live once, ids and socket
\* generations are exclusive, nobody outlives the master, whatever the
\* handshake, the reaping, the reload and the shutdown do in between.
ImplementsSupervisor == Sup!Spec

\* man/nginx.8: "SIGQUIT  Shut down gracefully."  A quit request ends the
\* master process.
QuitExits == "quit" \in signalled ~> mpc = "exited"

-----------------------------------------------------------------------------
(***************************************************************************)
(* The inductive invariant behind the safety properties.                   *)
(***************************************************************************)
Occupied(s) == handle[s] # NoProc

\* The process table: no process has two slots, what is beyond last is free
\* but for the slot being filled, and a slot about to be filled is empty.
TableInv ==
    /\ \A s, t \in Slots : Occupied(s) /\ handle[s] = handle[t] => s = t
    /\ \A s \in Slots : Occupied(s) => s < last \/ SpawningSlot(s)
    /\ \A s \in Slots : Occupied(s) => pstate[handle[s]] # "none"
    /\ mpc = "spawn" /\ respawn => handle[slot] = NoProc
    /\ mpc \in {"spawn", "handshake", "spawnfail"} /\ respawn => slot < last
    /\ mpc \in {"handshake", "spawnfail"} => Occupied(slot) /\ slot <= last

\* A live worker sits in the slot whose number it carries.
WorkerInv == \A p \in Procs : IsAlive(p) => handle[worker[p]] = p

\* The table is empty when the master exits, and when it may have to.
EmptyInv ==
    /\ mpc \in {"reload", "exited"} => \A s \in Slots : ~Occupied(s)
    /\ mpc \in {"spawn", "handshake", "spawnfail"} /\ ~respawn /\ started = 0
         => \A s \in Slots : Occupied(s) => SpawningSlot(s)

\* Whoever may start or hold a worker has the sockets of the environment.
SocketInv ==
    /\ env > 0
    /\ \A p \in Procs : inherited[p] <= env
    /\ mpc \in {"spawn", "handshake", "spawnfail"} \/ (\E s \in Slots : Occupied(s))
         => sockets = env
    /\ \A p \in Procs : IsAlive(p) => inherited[p] = env

\* A slot is marked as exiting only while its process is being waited for.
ExitingInv ==
    \A s \in Slots :
        Occupied(s) /\ exiting[s] => mpc \in {"quitwait", "reloadwait"}

\* As long as no worker has crashed and no handshake has timed out, the event
\* is set only by the process the master waits for, and that one still runs.
EventInv ==
    /\ \A p \in quitEvent : pstate[p] # "none"
    /\ mpc \in {"handshake", "spawnfail"} => handle[slot] \notin quitEvent
    /\ crashes + timeouts = 0 =>
         /\ mpc # "spawnfail"
         /\ mevent => mpc = "handshake" /\ pstate[handle[slot]] = "running"
         /\ mpc = "handshake" => pstate[handle[slot]] # "dead"
         /\ \A s \in Slots : Occupied(s) /\ ~SpawningSlot(s)
              => pstate[handle[s]] \in {"running", "dead"}

IInv == /\ TypeOK /\ TableInv /\ WorkerInv /\ EmptyInv /\ SocketInv
        /\ ExitingInv /\ EventInv /\ EventsOpen
=============================================================================
