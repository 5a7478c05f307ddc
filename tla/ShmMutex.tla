------------------------------- MODULE ShmMutex -------------------------------
(***************************************************************************)
(* The mutex of a shared memory zone (core/ngx_shmtx.c): a lock word that  *)
(* holds the pid of its owner, and, where POSIX semaphores exist, a count  *)
(* of waiters and a semaphore they sleep on.  Any process may die at any   *)
(* point; on Unix the master then forces the locks of the dead process     *)
(* open, on Windows nobody does.                                           *)
(*                                                                         *)
(* Each action is one atomic access to shared memory.  The plain read of   *)
(* *lock before each compare-and-set only skips one that would fail.       *)
(* sem_wait and sem_post on a valid semaphore do not fail but for EINTR.   *)
(***************************************************************************)
EXTENDS Integers, FiniteSets

CONSTANTS
    Procs,    \* the worker processes
    NoProc,   \* the lock word 0
    Master,   \* the thread of control of the master process
    HasSem,   \* NGX_HAVE_POSIX_SEM, and sem_init succeeded
    Forces,   \* the master calls ngx_shmtx_force_unlock for the dead
    MaxDead   \* bound: processes that die

ASSUME ProcsAssumption ==
    IsFiniteSet(Procs) /\ NoProc \notin Procs /\ Master \notin Procs
ASSUME BuildAssumption == HasSem \in BOOLEAN /\ Forces \in BOOLEAN
ASSUME BoundAssumption == MaxDead \in Nat

Threads == Procs \cup {Master}

VARIABLES
    lock,    \* *mtx->lock
    wait,    \* *mtx->wait, signed: it may drop below zero
    sem,     \* the value of the semaphore
    pc,      \* where each thread is in ngx_shmtx_lock, unlock or wakeup
    seen,    \* the local wait of ngx_shmtx_wakeup, 0 where it is not used
    dead,    \* the processes that have died
    reaped   \* those whose locks the master has dealt with

vars == <<lock, wait, sem, pc, seen, dead, reaped>>

States == {"out", "try", "incwait", "trywait", "decwait", "semwait", "in",
           "readwait", "caswait", "post"}

TypeOK ==
    /\ lock \in Procs \cup {NoProc}
    /\ wait \in Int /\ sem \in Nat
    /\ pc \in [Threads -> States]
    /\ seen \in [Threads -> Int]
    /\ dead \subseteq Procs /\ reaped \subseteq dead

Init ==
    /\ lock = NoProc /\ wait = 0 /\ sem = 0
    /\ pc = [t \in Threads |-> "out"]
    /\ seen = [t \in Threads |-> 0]
    /\ dead = {} /\ reaped = {}

Go(t, from, to) ==
    /\ t \notin dead /\ pc[t] = from
    /\ pc' = [pc EXCEPT ![t] = to]

-----------------------------------------------------------------------------
(***************************************************************************)
(* ngx_shmtx_trylock and ngx_shmtx_lock.                                   *)
(***************************************************************************)
Trylock(p) ==
    /\ Go(p, "out", "in")
    /\ lock = NoProc /\ lock' = p
    /\ UNCHANGED <<wait, sem, seen, dead, reaped>>

Lock(p) ==
    /\ Go(p, "out", "try")
    /\ UNCHANGED <<lock, wait, sem, seen, dead, reaped>>

\* The first attempt, or one of the spinning attempts after it.
TrySucceeds(p) ==
    /\ Go(p, "try", "in")
    /\ lock = NoProc /\ lock' = p
    /\ UNCHANGED <<wait, sem, seen, dead, reaped>>

\* All attempts failed.  Without a semaphore the process yields and tries on.
TryFails(p) ==
    /\ HasSem
    /\ Go(p, "try", "incwait")
    /\ lock # NoProc
    /\ UNCHANGED <<lock, wait, sem, seen, dead, reaped>>

IncWait(p) ==
    /\ Go(p, "incwait", "trywait")
    /\ wait' = wait + 1
    /\ UNCHANGED <<lock, sem, seen, dead, reaped>>

\* Mutant: the lock is stored without a comparison.
MutLastTryStores(p) ==
    /\ Go(p, "trywait", "decwait")
    /\ lock' = p
    /\ UNCHANGED <<wait, sem, seen, dead, reaped>>

\* Mutant: a waiter that gets the lock after all does not take back its count.
MutLastTryKeepsCount(p) ==
    /\ IF lock = NoProc
       THEN Go(p, "trywait", "in") /\ lock' = p
       ELSE Go(p, "trywait", "semwait") /\ UNCHANGED lock
    /\ UNCHANGED <<wait, sem, seen, dead, reaped>>

\* The attempt after the waiter has announced itself.
LastTry(p) ==
    /\ IF lock = NoProc
       THEN Go(p, "trywait", "decwait") /\ lock' = p
       ELSE Go(p, "trywait", "semwait") /\ UNCHANGED lock
    /\ UNCHANGED <<wait, sem, seen, dead, reaped>>

DecWait(p) ==
    /\ Go(p, "decwait", "in")
    /\ wait' = wait - 1
    /\ UNCHANGED <<lock, sem, seen, dead, reaped>>

\* Mutant: a waiter goes on without a post.
MutSemWaitSpurious(p) ==
    /\ Go(p, "semwait", "try")
    /\ sem' = sem - 1
    /\ UNCHANGED <<lock, wait, seen, dead, reaped>>

SemWait(p) ==
    /\ Go(p, "semwait", "try")
    /\ sem > 0 /\ sem' = sem - 1
    /\ UNCHANGED <<lock, wait, seen, dead, reaped>>

-----------------------------------------------------------------------------
(***************************************************************************)
(* ngx_shmtx_unlock, ngx_shmtx_force_unlock and ngx_shmtx_wakeup.          *)
(***************************************************************************)
AfterUnlock == IF HasSem THEN "readwait" ELSE "out"

\* Mutant: unlock does not wake anybody.
MutUnlockSilent(p) ==
    /\ Go(p, "in", "out")
    /\ lock' = IF lock = p THEN NoProc ELSE lock
    /\ UNCHANGED <<wait, sem, seen, dead, reaped>>

\* The compare-and-set with the own pid; the wakeup only if it succeeds.
Unlock(p) ==
    /\ Go(p, "in", IF lock = p THEN AfterUnlock ELSE "out")
    /\ lock' = IF lock = p THEN NoProc ELSE lock
    /\ UNCHANGED <<wait, sem, seen, dead, reaped>>

\* Mutant: the lock word is cleared whoever owns it.
MutForceClears(p) ==
    /\ Forces /\ p \in dead \ reaped
    /\ Go(Master, "out", AfterUnlock)
    /\ lock' = NoProc
    /\ reaped' = reaped \cup {p}
    /\ UNCHANGED <<wait, sem, seen, dead>>

\* Mutant: the pid of the dead child is compared with a free lock only.
MutForceNothing(p) ==
    /\ Forces /\ p \in dead \ reaped
    /\ Go(Master, "out", "out")
    /\ reaped' = reaped \cup {p}
    /\ UNCHANGED <<lock, wait, sem, seen, dead>>

\* ngx_unlock_mutexes of the Unix master, for one mutex and one dead child.
ForceUnlock(p) ==
    /\ Forces /\ p \in dead \ reaped
    /\ Go(Master, "out", IF lock = p THEN AfterUnlock ELSE "out")
    /\ lock' = IF lock = p THEN NoProc ELSE lock
    /\ reaped' = reaped \cup {p}
    /\ UNCHANGED <<wait, sem, seen, dead>>

\* Mutant: a single waiter is taken for none.
MutReadWaitOffByOne(t) ==
    /\ Go(t, "readwait", IF wait <= 1 THEN "out" ELSE "caswait")
    /\ seen' = [seen EXCEPT ![t] = IF wait <= 1 THEN 0 ELSE wait]
    /\ UNCHANGED <<lock, wait, sem, dead, reaped>>

ReadWait(t) ==
    /\ Go(t, "readwait", IF wait <= 0 THEN "out" ELSE "caswait")
    /\ seen' = [seen EXCEPT ![t] = IF wait <= 0 THEN 0 ELSE wait]
    /\ UNCHANGED <<lock, wait, sem, dead, reaped>>

CasWait(t) ==
    /\ Go(t, "caswait", IF wait = seen[t] THEN "post" ELSE "readwait")
    /\ wait' = IF wait = seen[t] THEN wait - 1 ELSE wait
    /\ seen' = [seen EXCEPT ![t] = 0]
    /\ UNCHANGED <<lock, sem, dead, reaped>>

Post(t) ==
    /\ Go(t, "post", "out")
    /\ sem' = sem + 1
    /\ UNCHANGED <<lock, wait, seen, dead, reaped>>

Die(p) ==
    /\ p \notin dead /\ Cardinality(dead) < MaxDead
    /\ dead' = dead \cup {p}
    /\ UNCHANGED <<lock, wait, sem, pc, seen, reaped>>

-----------------------------------------------------------------------------
Wakeup(t) == ReadWait(t) \/ CasWait(t) \/ Post(t)

\* Everything a process does once it has called ngx_shmtx_lock.
LockStep(p) ==
    \/ TrySucceeds(p) \/ TryFails(p) \/ IncWait(p) \/ LastTry(p) \/ DecWait(p)
    \/ SemWait(p) \/ Unlock(p) \/ Wakeup(p)

MasterStep == Wakeup(Master) \/ \E p \in Procs : ForceUnlock(p)

Next ==
    \/ \E p \in Procs : Trylock(p) \/ Lock(p) \/ LockStep(p) \/ Die(p)
    \/ MasterStep

\* Live processes are scheduled and their critical sections are finite; the
\* master reaps every dead process.
Spec == Init /\ [][Next]_vars
             /\ \A p \in Procs : WF_vars(LockStep(p))
             /\ WF_vars(MasterStep)

-----------------------------------------------------------------------------
(***************************************************************************)
(* Properties.                                                             *)
(***************************************************************************)

\* The processes that hold the mutex: between the compare-and-set that takes
\* it and the one that gives it back, by themselves or by the master.
Holds(p) == pc[p] \in {"decwait", "in"} /\ p \notin reaped

\* At most one process is inside, also when one dies there and the master
\* forces its lock open while others spin, wait or wake up.
MutualExclusion == \A p, q \in Procs : Holds(p) /\ Holds(q) => p = q

\* The lock word lock and the semaphore implement an abstract mutex.
Abstract == INSTANCE Mutex WITH inside <- {p \in Procs : Holds(p)}
ImplementsMutex == Abstract!Spec

\* Threads that can still do something about the lock.
Awake == {t \in Threads \ dead : pc[t] \notin {"out", "semwait"}}

\* A wakeup is never lost while nobody dies: when the lock is free and some
\* process sleeps on the semaphore, then the semaphore is posted, or another
\* thread is about to take the lock or to post.
NoLostWakeup ==
    dead = {} /\ lock = NoProc /\ (\E p \in Procs : pc[p] = "semwait")
        => sem > 0 \/ Awake # {}

\* While nobody dies the count of waiters and the semaphore agree: every
\* announced waiter is counted in wait, or a post for it is due or done.
WaitCount ==
    dead = {} =>
        wait + sem + Cardinality({t \in Threads : pc[t] = "post"})
            = Cardinality({p \in Procs : pc[p] \in {"trywait", "decwait", "semwait"}})

\* While nobody dies, if some process wants the mutex some process gets it.
SomeoneEnters ==
    (\E p \in Procs : pc[p] \in {"try", "incwait", "trywait", "semwait"})
        ~> (dead # {} \/ \E p \in Procs : pc[p] = "in")

\* os/unix/ngx_process.c, ngx_unlock_mutexes: "unlock shared memory mutexes if
\* held by the abnormally exited process".  The lock of a process that died
\* inside does not stay taken.
DeadLockFreed ==
    \A p \in Procs : (p \in dead /\ lock = p) ~> lock # p
=============================================================================
