# Verification of the core of nginx for Windows

This directory holds TLA+ models of the parts of this nginx/OpenResty build
(nginx 1.13.5, patched for Windows with several workers) that decide whether
the server as a whole keeps running: the master process with its table of
workers, the threads inside a worker, the worker's event loop with its client
connections, and what the workers share: the mutex of a shared memory zone, the
slab allocator in it, and the index of the file cache. Each model is checked
with TLC on small instances, and safety properties are proved with TLAPS for
every value of the constants.

Paths below are relative to `src/nginx/src/` of the repository.

## 1. The system and its parts

| Component | State it keeps | Operations | What is hard |
|---|---|---|---|
| Master (`os/win32/ngx_process_cycle.c`, `os/win32/ngx_process.c`) | `ngx_processes[]`, `ngx_last_process`, `ngx_terminate`, `ngx_quit`, the stop timer, named events, listening sockets | the wait loop, spawn with its handshake, reap, quit, terminate, reopen, reload | one event shared by all starting workers; workers die at any time; signals in any order; a table with holes |
| Worker process (`os/win32/ngx_process_cycle.c`) | `ngx_quit`, `ngx_exiting`, `ngx_reopen`, events, the manager mutex | main thread, event loop thread, cache manager thread, cache loader thread | flags shared by threads without a lock; a mutex abandoned on early return or kill |
| Shared memory mutex (`core/ngx_shmtx.c`) | lock word, count of waiters, semaphore | trylock, lock, unlock, force_unlock, wakeup | lost wakeups, a holder that dies, forced unlock racing the others |
| Slab allocator (`core/ngx_slab.c`) | pages, bitmaps, slot and free lists | alloc, free, page merge | structure invariants over long histories |
| Cycle and zones (`core/ngx_cycle.c`, `os/win32/ngx_shmem.c`) | cycle, zones, open files | init with rollback, reuse and release of zones | partial failure: a zone released before the new cycle is committed |
| Event loop, timers, posted events (`event/`) | timer tree, posted queues | process events, expire timers | stale events, order of timers and events |
| Connections (`core/ngx_connection.c`) | free list, reusable queue, instance bit | get, free, drain, close idle | reuse under pressure, events for closed connections |
| Upstream (`http/ngx_http_upstream_round_robin.c`, `http/modules/ngx_http_upstream_keepalive_module.c`) | weights, fail counts, cache queues | get, free, keep, evict | shared counters, expiry of failure state |
| limit_conn, limit_req (`http/modules/`) | tree and queue in a zone | account, expire, release | several limits of which one rejects |
| File cache (`http/ngx_http_file_cache.c`) | tree, inactive queue, node counters | open, update, expire, load, manage | counters and the updating flag across workers and threads |
| ngx_lua (`src/ngx_lua/src/`) | shared dictionaries, semaphores, socket pools, timers | get/set/incr/expire, post/wait, connect/setkeepalive | resuming coroutines, expiry, pools at their limit |
| lua-resty-lock, lua-resty-limit-traffic | entries of a shared dictionary | lock, unlock, incoming, leaving | a lock that expires while held |
| HTTP/stream/mail protocol code, vendored libraries, small modules | per request | parsers, filters, phases | not this project's subject |

How they interact. `nginx -s SIGNAL` sets one of four named events; the master
waits for these and for its workers' process handles. To start a worker it puts
the worker id and its socket handles into the environment, calls CreateProcess
and waits for `ngx_master_process_event`, which the worker sets when its own
three events exist. The master asks by setting a worker's quit or reopen event,
and forces by TerminateProcess. In a worker the main thread turns the events
into flags, the worker thread and the manager thread poll them. The managers of
all workers compete for one named mutex. Zones in shared memory are guarded by
`ngx_shmtx`, and a worker can be terminated while it holds one.

The Windows port differs from upstream in ways that matter here:
`ngx_quit_worker_processes` waits two seconds and then terminates whoever is
left; a reload ends all old workers, closes and reopens the sockets and starts
new workers, and the worker ids of the table's slots are passed on.

What makes each part correct: the master never loses a worker from its table,
never leaves one behind, never lets one serve sockets that are closed, respawns
the dead, ends when told to; a worker drains before it exits, keeps no idle
connection while exiting, serves each reopen, and exactly one manager runs; the
mutex excludes, wakes who waits and survives who dies. `PROJECT.json` lists the
places where each of these could go wrong under `hazards`.

## 2. Modules

| Module | Content |
|---|---|
| `Supervisor.tla` | What a master promises: processes live once, live workers have distinct ids and the current generation of sockets, sockets are rebound only when nobody lives, nobody outlives the master |
| `MasterCycle.tla` | The master, its table and handshake, and the workers as it sees them; `Sup` maps it to `Supervisor` |
| `MCMasterCycle.tla` | Instance for TLC with the symmetry of process instances |
| `MasterCycleProofs.tla` | Inductive invariant, seven invariants and one action property, refinement |
| `WorkerThreads.tla` | Several workers with three threads each, the shared flags, the manager mutex, and the master's requests and kills |
| `MCWorkerThreads.tla` | Instance for TLC |
| `WorkerThreadsProofs.tla` | Inductive invariant and the safety properties |
| `Mutex.tla` | An abstract mutex whose holder may die |
| `ShmMutex.tla` | `ngx_shmtx` instruction by instruction; `Abstract` maps it to `Mutex` |
| `MCShmMutex.tla` | Instance for TLC |
| `ShmMutexProofs.tla` | Mutual exclusion, waiters and wakeups, refinement |
| `Allocator.tla` | What an allocator promises its callers |
| `Slab.tla` | `ngx_slab_alloc_locked` and `ngx_slab_free_locked`: page runs, bitmaps, lists; `Promised` maps it to `Allocator` |
| `MCSlab.tla` | Instance for TLC: two chunk sizes |
| `CommonLemmas.tla` | Lemmas about naturals (the least element, induction) and about sequences used as queues, shared by the proofs of `Slab` and `HttpConnections` |
| `SlabLists.tla` | Lemmas about the doubly linked lists, for any links: what unlinking, pushing, detaching and replacing do to all lists |
| `SlabProofs.tla` | Inductive invariant of words, links, bitmaps and counters, and type correctness and the four invariants of `Slab`, refinement |
| `EventLoop.tla` | The functions handlers are made of: the select module, posted events, timers, connections |
| `HttpConnections.tla` | The handlers of a client connection and the loop that runs them |
| `MCHttpConnections.tla` | Instance for TLC |
| `HttpConnectionsProofs.tla` | Inductive invariant of queues, flags, index and timers, and all six invariants of `HttpConnections` |
| `FileCache.tla` | The index of a file cache, its requests in all workers, manager and loader |
| `MCFileCache.tla` | Instance for TLC: two kinds of location |
| `FileCacheProofs.tla` | Inductive invariant; nodes are held while used, the updating mark has an owner |

### MasterCycle

`mpc` says where the one thread of the master is. `spawn` is the head of
`ngx_spawn_process` (called by `ngx_start_worker_processes`, or by
`ngx_reap_worker` when `respawn` holds), `handshake` its wait for the event,
`spawnfail` the label `failed:`, `loop` the wait of the main loop, `quitwait`
and `reloadwait` the two second wait in `ngx_quit_worker_processes`, `reload`
the 500 ms sleep and `ngx_init_cycle`. Between two waits the master's code runs
as one action, because only the waits let it see others; where other processes
can act in a way that matters (between the failure of a handshake and
TerminateProcess) there are two. `pstate` is the life of a process instance:
created, its events exist, it has set the master's event, dead.
`sockets` and `env` count generations of the listening sockets and of the
environment variable that hands them to workers; `inherited` is what a worker
got. `opened` stands for the three event handles of a slot.

Abstractions. CreateProcess, OpenEvent and `ngx_init_cycle` may fail; other
Win32 calls on valid handles succeed. TerminateProcess takes effect at once.
A pid is not reused while the master runs. Time is left out: the 60 s, 2 s and
5 s waits may end at any moment, the last one only when no event and no dead
worker is pending, as WaitForMultipleObjects does. The single process mode, the
console handler (which sets the stop event like `Signal`) and the service stub
`ngx_service.c` (not built) are left out.

### WorkerThreads

`mpc`, `wpc` and `cpc` are the program counters of main, worker and manager
thread. Each read or write of a shared flag is one step. Connections are
counted: `active` with a request, `idle` in keepalive. `MainExit` comes when the
other two threads have ended, `ngx_worker_process_exit`. The mutex is owned by a
process (one thread of it takes it) and abandoned when the thread ends.
`unserved` and `unseen` are history variables that only the properties read.

Left out: the term event, which this master opens but never sets, and with it
`ngx_terminate` in workers; the cache loader thread; what the managers do to the
caches; the error exits of the start-up (a worker that exits by an error is
`Kill`).

### ShmMutex

One action per atomic instruction of `ngx_shmtx_lock`, `ngx_shmtx_unlock`,
`ngx_shmtx_force_unlock` and `ngx_shmtx_wakeup`. The constant `HasSem` chooses
the build: with it the Unix build, where a waiter sleeps on a semaphore, without
it the Windows build, which yields and tries on. `Forces` says whether the
master calls `ngx_shmtx_force_unlock` for dead children, as
`os/unix/ngx_process.c` does and `os/win32` does not. The attempts of the
spinning loop are one attempt that may be repeated. The file lock variant is not
built where atomics exist.

### Slab

A call runs under the pool's mutex, so `AllocRun`, `AllocListed`,
`AllocNewPage`, `FreeRun` and `FreeChunk` are whole calls, made of the helpers
the code has: `ngx_slab_alloc_pages` (first fit, split), `ngx_slab_free_pages`
(joining both neighbours), and the bitmap search and page list of each size
class. A size is what the code makes of it first: a number of pages, or a slot.
`type` is the low bits of a descriptor's `prev`, `map` the bitmap wherever the
size class keeps it. `runs` and `chunks` are what the callers hold.

`Allocator` knows only these two and the count `used`: a block is handed out
from memory nobody holds, a page has chunks of one size, and it is divided only
when all others of that size are full. Without the count a chunk handed out
twice would look like no step at all.

### EventLoop and HttpConnections

A worker's main thread is one thread: a handler runs to its end before the next
event. So the functions of `EventLoop` (`AddEvent`, `DelEvent`, `Rearm`, `Post`,
`Close`, `Drain`, `ProcessEvents`, ...) map a record of the worker's state to the next one, and a
handler of `HttpConnections` is the set of the states in which it may return.
`pc` is the place in `ngx_process_events_and_timers`: select, accept events,
timers, posted events. `Select` chooses any set of watched descriptors, so a
client may do anything at any time. The order of timers is not kept, any may be
the next to expire. `ready`, `active`, `index`, the queues and `timer` are the
flags of the code's events and change where the code changes them. The code's
loops (over the events found ready, the connections to drain, the idle ones) are
recursive functions, so that they can be proved about.

### FileCache

A section under the mutex of the zone is one step; the places where the code
gives the mutex up (the deletion of a file, the forced expiration before a node
is allocated again, the update from the server, the wait for the cache lock) are
values of `pc`. `fcn[n]` has the fields of a node the properties tell apart,
`c[r]` the context of a request; a request of a worker that has died keeps its
reference for ever (`pc[r] = "dead"`). Sizes, ages and the contents of the
directory are choices. Which response is stored is left out.

## 3. Runs

| Run | Instance | Shows |
|---|---|---|
| `master` | 4 process instances, 3 slots, up to 4 workers asked for, 2 signals, 2 crashes | the table, orphans, ids, generations, event handles, respawning, the handshake, refinement of `Supervisor`; about 350 000 states |
| `master_live` | 3 instances, 2 slots, 2 signals, 1 crash | a stop ends the master, the dead are reaped |
| `cache_managers` | 2 workers, no connections | one manager, the mutex is never stuck, takeover; about 150 000 states |
| `worker` | 1 worker, 2 connections, 2 reopen requests, with a shutdown timeout | draining, the end after a quit, the reopen flag; about 58 000 states |
| `shmtx` | 3 processes, semaphore, forced unlocks, 2 deaths | exclusion, wakeups, the count of waiters, refinement, progress; about 73 000 states |
| `slab` | 5 pages, two chunk sizes, one of them with its bitmap in the page | no overlap, no leak, joined runs, allocation finds what is free, refinement of `Allocator`; about 312 000 states |
| `http_connections` | 3 connections with the listening one, 2 descriptors in a set | nothing stale, the index, the reusable queue, input is awaited, the graceful exit; about 134 000 states |
| `file_cache` | 3 keys, 1 file, 2 requests, 2 nodes, 1 death, two kinds of location | nodes are held while used, the updating mark has an owner; about 2 490 000 states |
| `master_quit`, `worker_graceful`, `worker_reopen`, `shmtx_win32` | minimal instances | the four disagreements of section 6 |

Why the bounds are enough for the interesting cases. Four instances and three
slots let a worker be respawned while others live, make a hole in the middle of
the table and shrink its end, and ask for more workers than slots; two signals
give every ordered pair of requests; two crashes let a worker die during the
handshake of another. Two workers are the least for a race for the manager
mutex, two reopen requests for a lost one. With three processes one can hold the
mutex, one sleep and one be between its announcement and its sleep; two deaths
kill the holder and a waiter. Five pages let a run be freed between two free
neighbours and a page of chunks stand between runs; the chunk sizes have few
enough chunks for a page to fill and to empty. Two client connections let one
wait while the other is drained, and let a descriptor set be full while a
connection is free, which is where `AddFails` bites. Two nodes for three keys
and two requests let a request take the node another deletes, overtake its lock,
find no room, and insert a second node of a key after a forced expiration; one
death leaves a node held in every place. The bounds `MaxSignals`, `MaxCrashes`, `MaxDead`,
`MaxConns` and `MaxReopens` are guards of the actions of the environment. The
proofs need none of them.

`CHECK_DEADLOCK FALSE` stands in every configuration: a master that has exited
or waits for a signal, workers that have all exited, or processes that have died
are proper ends.

### Fairness

`MasterCycle`: weak fairness of the master's steps together. The master is one
thread, Windows schedules it, and each wait but that of an idle loop has a
timeout. No fairness is assumed of workers: they may hang.
`WorkerThreads`: weak fairness for each thread of a running worker (the manager
thread may stay behind the mutex for ever, which its guard allows), and strong fairness of
the shutdown timer, which, once armed, expires: the event loop returns at least
every 500 ms (`event/ngx_event.c:207-213`) and runs expired timers. None of the
master's requests or of the clients' actions is fair.
`ShmMutex`: weak fairness for each live process once it has called
`ngx_shmtx_lock` (critical sections are finite, processes are scheduled) and for
the master, which reaps each dead child. Nothing forces a process to ask.
`HttpConnections`: weak fairness of a turn of the loop while it has not exited
(one thread, each wait has a timeout or a client, each handler returns), and
strong fairness of an expiring timer: a timer may be armed anew, but the code
bounds each kind: the header's timer is armed once, lingering has
`lingering_time`, a response ends. Nothing is assumed of clients. Both are
written out in `Fairness` with what enables the action. `Slab` and `FileCache`
have safety properties only: a caller may keep what it has allocated, and a
request may wait for its server for ever.

### Every property has a mutant

Operators named `Mut...` stand before the definition they vary and change it the
way a plausible slip in the code would. With the mutated definition the run
finds its property violated; `PROJECT.json` pairs them.

## 4. Proofs

All theorems hold for any set of processes or workers, any table size, any
number of signals, crashes and deaths, pools of any number of pages and chunks,
and any number of connections and descriptors; they rest on the named
assumptions of each module (`NoProc` is not a process, sizes are naturals) and
on no others.

`MasterCycleProofs`. `TypeOK` is inductive by itself. The named properties are
not: that no worker is orphaned needs to know that `ngx_last_process` covers
every used slot, which needs to know where the slot being filled is, and so on.
`IInv` joins
`TableInv` (a process has one slot, used slots lie below `ngx_last_process` but
for the one being filled), `WorkerInv` (a live process sits in the slot it
carries as its id), `EmptyInv` (the table is empty on exit, before a reload
opens sockets, and before the first spawn), `SocketInv` (whoever may start or
hold workers has the sockets named in the environment), `ExitingInv` (a slot is
marked only during the two second waits), `EventInv` (before the first crash or
timeout the shared event belongs to the handshake in progress) and `EventsOpen`.
Each conjunct has its lemma with one step per action. `Tracked`, `NoOrphans`,
`DistinctIds`, `OneGeneration`, `EventsOpen`, `DeadWillBeRespawned` and the
action property `HealthyNotKilled` follow; `Refinement` shows
`Spec => ImplementsSupervisor` step by step, with one lemma for each kind of
step of the supervisor.

`WorkerThreadsProofs`. `FlagInv` says that whoever sees a flag set, or is
between `ngx_quit = 0` and `ngx_exiting = 1`, is in a worker whose main thread
waits no more, so `ngx_quit` is not set again; `ManagerInv` that outside such
workers a manager past its wait owns the mutex; `DrainInv` that an exiting
thread past its loop left no connection. From them: `OneManager`, `OwnerRuns`,
`DrainsOnceExiting`, `NoIdleWhenExiting`.

`ShmMutexProofs`. The lock word names exactly the process that holds the mutex
or died holding it; exclusion and the refinement of `Mutex` follow, for both
builds. `WaitInv` adds that only a build with semaphores lets anybody sleep, and
that `wait + sem` and the posts on their way are the announced waiters while
nobody has died; `WaitCount` is that, and `NoLostWakeup` follows where it is
hardest: a thread that reads a count of zero or less and goes away leaves a post
in the semaphore or on its way. The set of processes has to be finite for this.

`FileCacheProofs`. `NodesHeld` is not inductive: that a request may let go of the
node it has needs to know that it has one where the code takes it for granted.
`IInv` joins `TypeOK`, `PcInv` (a request in a place of `Holding` has a node, one
that seeks room has a context without a node, an actor has a victim exactly while
its file is deleted), `UsersInv` (a node's count is the number of requests that
hold it and of actors that delete it), `Once` (the queue has each node once) and
`UpdateOwned`. What a step does to counts and queue is one of seven things
(`Quiet`, `Takes`, `LetsGo`, `Marks`, `Unmarks`, `Drops`, `Adds`), each with a lemma
that counts; `RefsNext` says which action does which. The first section proves
what removing, pushing and rotating do to a sequence without repetition. The
proof needs finitely many requests (they are counted), a largest `min_uses`, and
`NULL` to be nothing else.

`SlabProofs`. None of the invariants is inductive: that a released run is joined
needs the links the neighbours are found by, that the links are right needs to
know which page is where, and both need the words. `IInv` joins `RunsMarked` and
`FreeMarked` (the words of held and of free runs over their whole length, free
runs not touching), `BackLinks` (the last page of a free run leads to its head),
`Covered`, `Divided` and `Counted` (pages, bitmaps, counters), and `Lists`: the
links join `FREE` with the heads of the free runs, and each slot with its pages
that have a free chunk, into circles, and no other page is linked. That a page
is in the circle of its head and not in one of its own is said by a rank that
increases along the list: it survives an unlink unchanged, is shifted by a push
and is handed on by a split. `SlabLists` proves this for links of any kind,
`FreePagesEffect` and `CarvedLinks` for the two functions every call is made of,
and one lemma per action the rest. `RoomIsFound` needs the walk along the list:
`WalkReaches` shows that it meets every page of the list within N steps, because
the rank climbs and there are only N pages. `Refinement` shows
`Spec => ImplementsAllocator`, one lemma for each action. It needs one fact more,
`Occupied`: a divided page has a chunk somebody holds, so a page that still has
one of its size is never passed over for a new one. The assumptions are those of
`Slab`: N is positive, a page has two usable chunks at least, the names differ.

`HttpConnectionsProofs`. A handler passes through several states of the worker
before it returns, and between them the invariants do not hold, so the inductive
invariant is a predicate of the record a function of `EventLoop` maps to the
next. `Core` says what holds at every moment: `Indexed` (the array of watched
events, the index in each event, the flags and the counters of both sets agree),
`Owned` (what is queued, watched, ready, timed or reusable belongs to an open
client, each queue has it once, and a connection is free or open), and that a
worker that is exiting keeps no connection alive. `Served` says what one client
has between two handlers: its place in the reusable queue and the idle
connections as its phase has it, a watched or posted event, and a timer.
`Sound` is `Core` and `Served` of every client, `SoundBut` that of every client
but the one whose handler runs. Each operation on c keeps `SoundBut` of c (the
lemmas `...But`), and each handler ends in a `Sound` state wherever it returns
(`...Ends`). Draining and the closing of idle connections are inductions over
the loop's counter (`DrainSteps`, `CloseIdleSteps`), as are the events a select
found (`ProcessSteps`). The named properties need each other: `IndexExact`
survives the move in `ngx_select_del_event` only because the array has each event
once; `ExitLosesNoClient` needs the timer of every phase, and for a client with a
part of a request that its event may be posted instead; `ReusableExact` needs that
handlers run for open clients only, which is `NothingStale`; and that an index is
at most `2 * NC` follows from the array's having no event twice.

The induction theorems of the library take an operator and cannot be used, but
induction over the naturals is not lost: in `CommonLemmas`, `Least` (a set of
naturals has a least element) follows from the well-foundedness of `<`, and `Upto` (a set with 0 and
closed under successor has all) from it. `WalkSteps` proves with them that the
recursive function in `Walk` is what its equation says.

Only model-checked: the liveness properties (`StopExits`, `DeadReaped`,
`QuitEnds`, `FlagServed`, `ManagerTakesOver`, `SomeoneEnters`, `DeadLockFreed`,
`ExitingEnds`), which are out of the prover's reach. Every invariant, every
action property and every refinement that a passing run checks is a theorem.
Conversely `TypeOK` of `Slab` is only proved: no run spends time on it.

## 5. Not modelled

The components of section 1 without a module, for the reason given for each in
`PROJECT.json`. Most of the repository's lines are libraries it carries (PCRE,
zlib, OpenSSL, LuaJIT, some of them twice) and are not this project's subject.

Of the modelled components:

- `MasterCycle`, `WorkerThreads`: the loader thread of a worker, start-up errors
  of the master before its loop, a Win32 call that fails on a valid handle, pid
  reuse.
- `HttpConnections`: request bodies and subrequests, upstream connections, SSL
  and HTTP/2, `limit_rate`, `multi_accept`, `worker_shutdown_timeout`, errors of
  select(), other event modules.
- `FileCache`: sizes and `max_size` accounting, Vary and secondary keys,
  bypassed requests, background updates, reading by threads, what the files hold.
- `Slab`: the log levels, and pointers that were never allocated, which the code
  only reports.

## 6. Where the code disagrees with its documentation

- `master_quit`: after `nginx -s quit` the workers end and the master waits for
  ever. `ngx_quit_worker_processes` has already closed all handles, and the
  master exits only when it reaps the last worker.
- `worker_graceful`: `ngx_quit` set between the two places that read it makes
  the worker thread leave its loop without draining.
- `worker_reopen`: `ngx_reopen = 1` comes before `ResetEvent`; a request between
  the two is lost.
- `shmtx_win32`: a worker that dies inside a zone's mutex leaves it locked; the
  Unix master frees it, the Windows master does not.

Not stated as a run:

- Visible in `ReloadFails`: a reload whose configuration is rejected leaves a
  master without workers and with closed sockets until the next reload.
- `CloseListening` leaves the timer that re-enables accepting; an exiting worker
  waits for it though nobody can be accepted (`NothingStale` names this one
  exception).
- `AcceptHandler`: when accepting was disabled and the descriptor set is full,
  `event/ngx_event_accept.c:40` returns before the timer is armed again; nothing
  else re-enables accepting.
- `SetKeepalive` with a pipelined request leaves the write event watched with the
  empty handler; select() then returns at once until the request is done.
- `FileCache`: `ngx_http_file_cache_delete` subtracts a node's size before it
  knows that the node goes, and a renewal of an error zeroes `fs_size` without
  subtracting it, so `sh->size` drifts. After a forced expiration the tree is not
  searched again, so one key may have two nodes and two requests populate it. A
  worker that dies while it deletes leaves `deleting` set, and
  `ngx_http_file_cache_expire` stops at that node each time; one that dies while
  it updates a stale file leaves `updating` set, and without `proxy_cache_lock`
  nobody updates that file again. When there is no room for a node the loader
  deletes a file that a request may have stored meanwhile.

## 7. Plan

1. An abstract specification of a client connection (between requests, in one,
   gone) that `HttpConnections` implements, and its refinement proof.
2. `ZoneReload.tla`: zones of `ngx_init_cycle`: reuse, allocation, rollback,
   release; composed with `ShmMutex` for workers killed inside.
3. `ShDict.tla` and `RestyLock.tla`: a shared dictionary with expiry and forced
   eviction, and lua-resty-lock on top of it; abstract specification: a lock
   with a lease.
4. `LuaSemaphore.tla`: count and wait queue of `ngx_http_lua_semaphore.c` with
   timeouts that race posts.
5. `LimitConn.tla`, `LimitReq.tla` and the keepalive cache of upstream
   connections; the loader thread in `WorkerThreads`.
