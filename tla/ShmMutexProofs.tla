---------------------------- MODULE ShmMutexProofs ----------------------------
(***************************************************************************)
(* Proofs about ShmMutex, for every set of processes, with and without     *)
(* semaphores, with and without a master that forces locks open, and for   *)
(* any number of deaths.                                                   *)
(***************************************************************************)
EXTENDS ShmMutex, FiniteSetTheorems, TLAPS

\* The lock word names the process that holds the mutex: whoever holds it is
\* named, and whoever is named holds it or has died.  The master comes to
\* ngx_shmtx_wakeup only, and only the dead are reaped.
LockInv ==
    /\ \A p \in Procs : Holds(p) <=> lock = p
    /\ pc[Master] \in {"out", "readwait", "caswait", "post"}

IInv == TypeOK /\ LockInv

\* The invariant holds at the start.
LEMMA InitIInv == Init => IInv
  BY ProcsAssumption DEF Init, IInv, TypeOK, LockInv, Holds, Threads, States

\* Every step keeps it.
LEMMA NextIInv == IInv /\ [Next]_vars => IInv'
  <1> SUFFICES ASSUME IInv, [Next]_vars PROVE IInv'
    OBVIOUS
  <1> USE ProcsAssumption DEF IInv, TypeOK, LockInv, Holds, Threads, States, Go
  <1>1. ASSUME NEW p \in Procs, Trylock(p) PROVE IInv'
    BY <1>1 DEF Trylock
  <1>2. ASSUME NEW p \in Procs, Lock(p) PROVE IInv'
    BY <1>2 DEF Lock
  <1>3. ASSUME NEW p \in Procs, TrySucceeds(p) PROVE IInv'
    BY <1>3 DEF TrySucceeds
  <1>4. ASSUME NEW p \in Procs, TryFails(p) PROVE IInv'
    BY <1>4 DEF TryFails
  <1>5. ASSUME NEW p \in Procs, IncWait(p) PROVE IInv'
    BY <1>5 DEF IncWait
  <1>6. ASSUME NEW p \in Procs, LastTry(p) PROVE IInv'
    BY <1>6 DEF LastTry
  <1>7. ASSUME NEW p \in Procs, DecWait(p) PROVE IInv'
    BY <1>7 DEF DecWait
  <1>8. ASSUME NEW p \in Procs, SemWait(p) PROVE IInv'
    BY <1>8 DEF SemWait
  <1>9. ASSUME NEW p \in Procs, Unlock(p) PROVE IInv'
    BY <1>9 DEF Unlock, AfterUnlock
  <1>10. ASSUME NEW p \in Procs, ForceUnlock(p) PROVE IInv'
    BY <1>10 DEF ForceUnlock, AfterUnlock
  <1>11. ASSUME NEW t \in Threads, ReadWait(t) PROVE IInv'
    BY <1>11 DEF ReadWait
  <1>12. ASSUME NEW t \in Threads, CasWait(t) PROVE IInv'
    BY <1>12 DEF CasWait
  <1>13. ASSUME NEW t \in Threads, Post(t) PROVE IInv'
    BY <1>13 DEF Post
  <1>14. ASSUME NEW p \in Procs, Die(p) PROVE IInv'
    BY <1>14 DEF Die
  <1>15. CASE UNCHANGED vars
    BY <1>15 DEF vars
  <1> QED
    BY <1>1, <1>2, <1>3, <1>4, <1>5, <1>6, <1>7, <1>8, <1>9, <1>10, <1>11, <1>12,
       <1>13, <1>14, <1>15 DEF Next, LockStep, MasterStep, Wakeup, Threads

\* The inductive invariant of the mutex.
THEOREM InductiveInvariant == Spec => []IInv
  BY InitIInv, NextIInv, PTL DEF Spec

\* The lock word is a process or none, the waiters are counted by a natural
\* number, and every process is at an instruction of the mutex.
THEOREM TypeCorrect == Spec => []TypeOK
  BY InductiveInvariant, PTL DEF IInv

\* No two processes are ever inside together, whoever dies and whosever lock
\* the master forces open.
THEOREM AlwaysExclusive == Spec => []MutualExclusion
  <1>1. IInv => MutualExclusion
    BY DEF IInv, LockInv, MutualExclusion
  <1> QED
    BY <1>1, InductiveInvariant, PTL

-----------------------------------------------------------------------------
(***************************************************************************)
(* Waiters and wakeups.                                                    *)
(***************************************************************************)

\* Where a process has announced itself in *mtx->wait.
Announced == {"trywait", "decwait", "semwait"}

Waiters == {p \in Procs : pc[p] \in Announced}
Posters == {t \in Threads : pc[t] = "post"}

\* Only a build with semaphores comes to where a process sleeps, and while nobody
\* has died the counts and the semaphore agree and no wakeup is lost.
WaitInv ==
    /\ \A p \in Procs : pc[p] \in Announced \cup {"incwait"} => HasSem
    /\ dead = {} => wait + sem + Cardinality(Posters) = Cardinality(Waiters)
    /\ NoLostWakeup

\* The processes and the threads can be counted.
LEMMA Counted ==
  /\ IsFiniteSet(Threads) /\ IsFiniteSet(Waiters) /\ IsFiniteSet(Posters)
  /\ Cardinality(Waiters) \in Nat /\ Cardinality(Posters) \in Nat
  <1>1. IsFiniteSet(Procs) /\ IsFiniteSet(Threads)
    BY ProcsAssumption, FS_AddElement DEF Threads
  <1>2. IsFiniteSet(Waiters) /\ IsFiniteSet(Posters)
    BY <1>1, FS_Subset DEF Waiters, Posters
  <1> QED
    BY <1>1, <1>2, FS_CardinalityType

\* What a step of a thread does to the number of posters,
LEMMA PostersCount ==
  ASSUME IInv, NEW t \in Threads, NEW from, NEW to, Go(t, from, to)
  PROVE  Cardinality(Posters')
           = Cardinality(Posters) + (IF to = "post" THEN 1 ELSE 0)
                                  - (IF from = "post" THEN 1 ELSE 0)
  <1>1. /\ pc[t] = from /\ pc'[t] = to
        /\ \A u \in Threads \ {t} : pc'[u] = pc[u]
    BY DEF Go, IInv, TypeOK
  <1>2. CASE to = "post"
    <2>1. Posters' = Posters \cup {t}
      BY <1>1, <1>2 DEF Posters
    <2>2. t \in Posters <=> from = "post"
      BY <1>1 DEF Posters
    <2>3. Cardinality(Posters \cup {t})
            = IF t \in Posters THEN Cardinality(Posters)
              ELSE Cardinality(Posters) + 1
      BY Counted, FS_AddElement
    <2> QED
      BY <1>2, <2>1, <2>2, <2>3, Counted
  <1>3. CASE to # "post"
    <2>1. Posters' = Posters \ {t}
      BY <1>1, <1>3 DEF Posters
    <2>2. t \in Posters <=> from = "post"
      BY <1>1 DEF Posters
    <2>3. Cardinality(Posters \ {t})
            = IF t \in Posters THEN Cardinality(Posters) - 1
              ELSE Cardinality(Posters)
      BY Counted, FS_RemoveElement
    <2> QED
      BY <1>3, <2>1, <2>2, <2>3, Counted
  <1> QED
    BY <1>2, <1>3

\* and of waiters.
LEMMA WaitersCount ==
  ASSUME IInv, NEW p \in Procs, NEW from, NEW to, Go(p, from, to)
  PROVE  Cardinality(Waiters')
           = Cardinality(Waiters) + (IF to \in Announced THEN 1 ELSE 0)
                                  - (IF from \in Announced THEN 1 ELSE 0)
  <1>1. /\ pc[p] = from /\ pc'[p] = to
        /\ \A u \in Procs \ {p} : pc'[u] = pc[u]
    BY DEF Go, IInv, TypeOK, Threads
  <1>2. p \in Waiters <=> from \in Announced
    BY <1>1 DEF Waiters
  <1>3. CASE to \in Announced
    <2>1. Waiters' = Waiters \cup {p}
      BY <1>1, <1>3 DEF Waiters
    <2>2. Cardinality(Waiters \cup {p})
            = IF p \in Waiters THEN Cardinality(Waiters)
              ELSE Cardinality(Waiters) + 1
      BY Counted, FS_AddElement
    <2> QED
      BY <1>2, <1>3, <2>1, <2>2, Counted
  <1>4. CASE to \notin Announced
    <2>1. Waiters' = Waiters \ {p}
      BY <1>1, <1>4 DEF Waiters
    <2>2. Cardinality(Waiters \ {p})
            = IF p \in Waiters THEN Cardinality(Waiters) - 1
              ELSE Cardinality(Waiters)
      BY Counted, FS_RemoveElement
    <2> QED
      BY <1>2, <1>4, <2>1, <2>2, Counted
  <1> QED
    BY <1>3, <1>4

\* At the start nobody waits.
LEMMA InitWaitInv == Init => WaitInv
  <1> SUFFICES ASSUME Init PROVE WaitInv
    OBVIOUS
  <1>1. Posters = {} /\ Waiters = {}
    BY DEF Init, Posters, Waiters, Announced, Threads
  <1>2. Cardinality(Posters) = 0 /\ Cardinality(Waiters) = 0
    BY <1>1, FS_EmptySet
  <1> QED
    BY <1>2 DEF Init, WaitInv, NoLostWakeup, Announced, Threads

\* While nobody has died every step keeps the counts.
LEMMA CountNext ==
  ASSUME IInv, WaitInv, [Next]_vars, dead' = {}
  PROVE  wait' + sem' + Cardinality(Posters') = Cardinality(Waiters')
  <1> DEFINE Balanced == wait + sem + Cardinality(Posters) = Cardinality(Waiters)
  <1>0. /\ dead = {} /\ Balanced /\ wait \in Int /\ sem \in Nat
        /\ Procs \subseteq Threads /\ reaped = {}
        /\ Master \in Threads /\ Master \notin Procs
    <2>1. dead \subseteq dead'
      BY DEF Next, LockStep, MasterStep, Wakeup, Trylock, Lock, TrySucceeds, TryFails,
             IncWait, LastTry, DecWait, SemWait, Unlock, ForceUnlock, ReadWait,
             CasWait, Post, Die, vars
    <2> QED
      BY <2>1, ProcsAssumption DEF WaitInv, IInv, TypeOK, Threads
  <1> USE Counted DEF Announced
  <1>1. ASSUME NEW p \in Procs, Trylock(p) \/ Lock(p) \/ TrySucceeds(p) \/ TryFails(p)
        PROVE  Balanced'
    <2>1. wait' = wait /\ sem' = sem
      BY <1>1 DEF Trylock, Lock, TrySucceeds, TryFails
    <2>2. PICK from \in {"out", "try"}, to \in {"in", "try", "incwait"} : Go(p, from, to)
      BY <1>1 DEF Trylock, Lock, TrySucceeds, TryFails
    <2> QED
      BY <1>0, <2>1, <2>2, PostersCount, WaitersCount
  <1>2. ASSUME NEW p \in Procs, IncWait(p) PROVE Balanced'
    BY <1>0, <1>2, PostersCount, WaitersCount DEF IncWait
  <1>3. ASSUME NEW p \in Procs, LastTry(p) PROVE Balanced'
    <2>1. wait' = wait /\ sem' = sem
      BY <1>3 DEF LastTry
    <2>2. PICK to \in {"decwait", "semwait"} : Go(p, "trywait", to)
      BY <1>3 DEF LastTry
    <2> QED
      BY <1>0, <2>1, <2>2, PostersCount, WaitersCount
  <1>4. ASSUME NEW p \in Procs, DecWait(p) PROVE Balanced'
    BY <1>0, <1>4, PostersCount, WaitersCount DEF DecWait
  <1>5. ASSUME NEW p \in Procs, SemWait(p) PROVE Balanced'
    BY <1>0, <1>5, PostersCount, WaitersCount DEF SemWait
  <1>6. ASSUME NEW p \in Procs, Unlock(p) PROVE Balanced'
    <2>1. wait' = wait /\ sem' = sem
      BY <1>6 DEF Unlock
    <2>2. PICK to \in {"readwait", "out"} : Go(p, "in", to)
      BY <1>6 DEF Unlock, AfterUnlock
    <2> QED
      BY <1>0, <2>1, <2>2, PostersCount, WaitersCount
  <1>7. ASSUME NEW t \in Threads, Wakeup(t) PROVE Balanced'
    <2>1. PICK from \in {"readwait", "caswait", "post"},
               to \in {"out", "readwait", "caswait", "post"} :
            /\ Go(t, from, to)
            /\ wait' = IF to = "post" THEN wait - 1 ELSE wait
            /\ sem' = IF from = "post" THEN sem + 1 ELSE sem
            /\ from = "post" => to = "out"
      BY <1>7 DEF Wakeup, ReadWait, CasWait, Post
    <2>2. Cardinality(Posters')
            = Cardinality(Posters) + (IF to = "post" THEN 1 ELSE 0)
                                   - (IF from = "post" THEN 1 ELSE 0)
      BY <2>1, PostersCount
    <2>3. Waiters' = Waiters
      BY <2>1 DEF Go, Waiters, IInv, TypeOK
    <2> QED
      BY <1>0, <2>1, <2>2, <2>3
  <1>8. ASSUME NEW p \in Procs, ForceUnlock(p) \/ Die(p) PROVE Balanced'
    BY <1>0, <1>8 DEF ForceUnlock, Die
  <1>9. CASE UNCHANGED vars
    BY <1>0, <1>9 DEF vars, Posters, Waiters
  <1> QED
    BY <1>1, <1>2, <1>3, <1>4, <1>5, <1>6, <1>7, <1>8, <1>9
    DEF Next, LockStep, MasterStep, Threads

\* While nobody has died every step that puts a thread to sleep, or lets one finish,
\* leaves one that will look at the lock again.
LEMMA WakeupNext ==
  ASSUME IInv, IInv', WaitInv, [Next]_vars
  PROVE  NoLostWakeup'
  <1> SUFFICES ASSUME dead' = {}, lock' = NoProc, NEW s \in Procs, pc'[s] = "semwait"
               PROVE  sem' > 0 \/ Awake' # {}
    BY DEF NoLostWakeup
  <1> USE DEF Awake
  <1>0. /\ dead = {} /\ wait \in Int /\ sem \in Nat /\ pc \in [Threads -> States]
        /\ Procs \subseteq Threads /\ Master \in Threads
    <2>1. dead \subseteq dead'
      BY DEF Next, LockStep, MasterStep, Wakeup, Trylock, Lock, TrySucceeds, TryFails,
             IncWait, LastTry, DecWait, SemWait, Unlock, ForceUnlock, ReadWait,
             CasWait, Post, Die, vars
    <2> QED
      BY <2>1 DEF IInv, TypeOK, Threads
  \* Whoever has gone on to a place where it is awake is the one.
  <1>1. ASSUME NEW t \in Threads, NEW from, NEW to, Go(t, from, to),
               to \notin {"out", "semwait"}
        PROVE  t \in Awake'
    BY <1>0, <1>1 DEF Go
  \* Whoever has been awake and has not gone on still is.
  <1>2. ASSUME NEW t \in Threads, NEW from, NEW to, Go(t, from, to),
               NEW u \in Awake, u # t
        PROVE  u \in Awake'
    BY <1>0, <1>2 DEF Go
  <1>3. ASSUME NEW p \in Procs, NEW from, Go(p, from, "in") PROVE Awake' # {}
    BY <1>0, <1>1, <1>3
  <1>4. ASSUME NEW p \in Procs, Trylock(p) \/ TrySucceeds(p) \/ DecWait(p)
        PROVE  Awake' # {}
    BY <1>3, <1>4 DEF Trylock, TrySucceeds, DecWait
  <1>5. ASSUME NEW p \in Procs, Lock(p) \/ TryFails(p) \/ IncWait(p) \/ SemWait(p)
        PROVE  Awake' # {}
    <2>1. PICK from \in States, to \in {"try", "incwait", "trywait"} : Go(p, from, to)
      BY <1>5 DEF Lock, TryFails, IncWait, SemWait, States
    <2> QED
      BY <1>0, <1>1, <2>1
  <1>6. ASSUME NEW p \in Procs, LastTry(p) PROVE FALSE
    BY <1>6, ProcsAssumption DEF LastTry
  <1>7. ASSUME NEW p \in Procs, Unlock(p) PROVE Awake' # {}
    <2>1. HasSem
      <3>1. s \in Procs /\ pc[s] = "semwait"
        BY <1>0, <1>7 DEF Unlock, Go, AfterUnlock
      <3> QED
        BY <3>1 DEF WaitInv, Announced
    <2>2. lock = p
      BY <1>0, <1>7 DEF Unlock, Go, IInv, LockInv, TypeOK, Holds
    <2>3. Go(p, "in", "readwait")
      BY <1>7, <2>1, <2>2 DEF Unlock, AfterUnlock
    <2> QED
      BY <1>0, <1>1, <2>3
  <1>8. ASSUME NEW t \in Threads, ReadWait(t) PROVE sem' > 0 \/ Awake' # {}
    <2>1. CASE wait > 0
      <3>1. Go(t, "readwait", "caswait")
        BY <1>0, <1>8, <2>1 DEF ReadWait
      <3> QED
        BY <1>1, <3>1
    <2>2. CASE wait <= 0
      <3>1. Go(t, "readwait", "out") /\ sem' = sem
        BY <1>0, <1>8, <2>2 DEF ReadWait
      <3>2. s \in Waiters
        BY <1>0, <3>1 DEF Waiters, Go, Announced
      <3>3. Cardinality(Waiters) # 0
        BY <3>2, Counted, FS_EmptySet
      <3>4. sem > 0 \/ Cardinality(Posters) # 0
        BY <1>0, <2>2, <3>3, Counted DEF WaitInv
      <3>5. CASE Cardinality(Posters) # 0
        <4>1. PICK u \in Posters : TRUE
          BY <3>5, FS_EmptySet
        <4>2. u \in Awake /\ u # t
          BY <1>0, <3>1, <4>1 DEF Posters, Go
        <4> QED
          BY <1>2, <3>1, <4>2
      <3> QED
        BY <3>1, <3>4, <3>5
    <2> QED
      BY <1>0, <2>1, <2>2
  <1>9. ASSUME NEW t \in Threads, CasWait(t) PROVE Awake' # {}
    <2>1. PICK to \in {"post", "readwait"} : Go(t, "caswait", to)
      BY <1>9 DEF CasWait
    <2> QED
      BY <1>1, <2>1
  <1>10. ASSUME NEW t \in Threads, Post(t) PROVE sem' > 0
    BY <1>0, <1>10 DEF Post
  <1>11. ASSUME NEW p \in Procs, ForceUnlock(p) \/ Die(p) PROVE FALSE
    BY <1>0, <1>11 DEF ForceUnlock, Die
  <1>12. CASE UNCHANGED vars
    BY <1>0, <1>12 DEF vars, WaitInv, NoLostWakeup
  <1> QED
    BY <1>4, <1>5, <1>6, <1>7, <1>8, <1>9, <1>10, <1>11, <1>12
    DEF Next, LockStep, MasterStep, Wakeup, Threads

\* Every step keeps WaitInv.
LEMMA NextWaitInv == IInv /\ IInv' /\ WaitInv /\ [Next]_vars => WaitInv'
  <1> SUFFICES ASSUME IInv, IInv', WaitInv, [Next]_vars PROVE WaitInv'
    OBVIOUS
  <1>1. ASSUME NEW p \in Procs, pc'[p] \in Announced \cup {"incwait"} PROVE HasSem
    <2>1. pc[p] \in Announced \cup {"incwait"} \/ \E q \in Procs : TryFails(q)
      BY <1>1 DEF Next, LockStep, MasterStep, Wakeup, Trylock, Lock, TrySucceeds,
                  IncWait, LastTry, DecWait, SemWait, Unlock, AfterUnlock,
                  ForceUnlock, ReadWait, CasWait, Post, Die, vars, Go, Announced,
                  IInv, TypeOK, Threads
    <2> QED
      BY <2>1 DEF WaitInv, TryFails
  <1> QED
    BY <1>1, CountNext, WakeupNext DEF WaitInv

\* The waiters that have announced themselves are those that are counted or posted.
THEOREM AlwaysCounted == Spec => []WaitCount
  <1>1. WaitInv => WaitCount
    BY DEF WaitInv, WaitCount, Waiters, Posters, Announced
  <1> QED
    BY <1>1, InitWaitInv, NextWaitInv, InductiveInvariant, PTL DEF Spec

\* While nobody dies no process sleeps beside a free lock with nobody to wake it.
THEOREM AlwaysWoken == Spec => []NoLostWakeup
  <1>1. WaitInv => NoLostWakeup
    BY DEF WaitInv
  <1> QED
    BY <1>1, InitWaitInv, NextWaitInv, InductiveInvariant, PTL DEF Spec

-----------------------------------------------------------------------------
(***************************************************************************)
(* ShmMutex implements Mutex.                                              *)
(***************************************************************************)

\* The set of the processes inside.
Inside == {p \in Procs : Holds(p)}

\* Steps that neither enter nor leave.
LEMMA Unnoticed ==
  ASSUME \A p \in Procs : Holds(p)' = Holds(p), UNCHANGED dead
  PROVE  UNCHANGED Abstract!vars
  BY DEF Abstract!vars

\* Steps by which a process takes a free lock.
LEMMA TakesLock ==
  ASSUME IInv, IInv', NEW p \in Procs, p \notin dead, lock = NoProc, lock' = p,
         UNCHANGED dead
  PROVE  Abstract!Next
  <1>1. Inside = {} /\ Inside' = {p}
    BY ProcsAssumption DEF IInv, LockInv, Inside
  <1>2. Abstract!Enter(p)
    BY <1>1 DEF Abstract!Enter, Inside
  <1> QED
    BY <1>2 DEF Abstract!Next

\* Each step enters, leaves, kills or breaks, or is not noticed.
LEMMA StepRefines == IInv /\ IInv' /\ [Next]_vars => [Abstract!Next]_Abstract!vars
  <1> SUFFICES ASSUME IInv, IInv', [Next]_vars PROVE [Abstract!Next]_Abstract!vars
    OBVIOUS
  <1>1. ASSUME NEW p \in Procs, Trylock(p) \/ TrySucceeds(p)
        PROVE  [Abstract!Next]_Abstract!vars
    BY <1>1, TakesLock DEF Trylock, TrySucceeds, Go
  <1>2. ASSUME NEW p \in Procs, LastTry(p)
        PROVE  [Abstract!Next]_Abstract!vars
    <2>1. CASE lock = NoProc
      BY <1>2, <2>1, TakesLock DEF LastTry, Go
    <2>2. CASE lock # NoProc
      <3>1. lock' = lock /\ dead' = dead
        BY <1>2, <2>2 DEF LastTry
      <3>2. \A q \in Procs : Holds(q)' = Holds(q)
        BY <3>1 DEF IInv, LockInv, Holds
      <3> QED
        BY <3>1, <3>2, Unnoticed
    <2> QED
      BY <2>1, <2>2
  <1>3. ASSUME NEW p \in Procs, Unlock(p)
        PROVE  [Abstract!Next]_Abstract!vars
    <2>1. p \notin dead /\ pc[p] = "in" /\ dead' = dead /\ p \notin reaped
      BY <1>3 DEF Unlock, Go, IInv, TypeOK
    <2>2. lock = p /\ lock' = NoProc
      BY <1>3, <2>1 DEF Unlock, IInv, LockInv, Holds
    <2>3. p \in Inside /\ Inside' = {}
      BY <2>2, ProcsAssumption DEF IInv, LockInv, Inside
    <2>4. Abstract!Leave(p)
      BY <2>1, <2>3 DEF Abstract!Leave, Inside
    <2> QED
      BY <2>4 DEF Abstract!Next
  <1>4. ASSUME NEW p \in Procs, ForceUnlock(p)
        PROVE  [Abstract!Next]_Abstract!vars
    <2>1. p \in dead /\ dead' = dead
      BY <1>4 DEF ForceUnlock
    <2>2. CASE lock = p
      <3>1. p \in Inside /\ Inside' = {}
        BY <1>4, <2>2, ProcsAssumption DEF ForceUnlock, IInv, LockInv, Inside
      <3>2. Abstract!Break(p)
        BY <2>1, <3>1 DEF Abstract!Break, Inside
      <3> QED
        BY <3>2 DEF Abstract!Next
    <2>3. CASE lock # p
      <3>1. lock' = lock
        BY <1>4, <2>3 DEF ForceUnlock
      <3>2. \A q \in Procs : Holds(q)' = Holds(q)
        BY <3>1 DEF IInv, LockInv, Holds
      <3> QED
        BY <2>1, <3>2, Unnoticed
    <2> QED
      BY <2>2, <2>3
  <1>5. ASSUME NEW p \in Procs, Die(p)
        PROVE  [Abstract!Next]_Abstract!vars
    <2>1. p \notin dead /\ dead' = dead \cup {p} /\ Inside' = Inside
      BY <1>5 DEF Die, Inside, Holds
    <2>2. Abstract!Die(p)
      BY <2>1 DEF Abstract!Die, Inside
    <2> QED
      BY <2>2 DEF Abstract!Next
  <1>6. ASSUME NEW t \in Threads,
               \/ /\ t \in Procs
                  /\ Lock(t) \/ TryFails(t) \/ IncWait(t) \/ DecWait(t) \/ SemWait(t)
               \/ Wakeup(t)
        PROVE  [Abstract!Next]_Abstract!vars
    <2>1. lock' = lock /\ dead' = dead
      BY <1>6 DEF Lock, TryFails, IncWait, DecWait, SemWait, Wakeup, ReadWait,
                  CasWait, Post
    <2>2. \A q \in Procs : Holds(q)' = Holds(q)
      BY <2>1 DEF IInv, LockInv, Holds
    <2> QED
      BY <2>1, <2>2, Unnoticed
  <1>7. CASE UNCHANGED vars
    BY <1>7, Unnoticed DEF vars, Holds
  <1> QED
    BY <1>1, <1>2, <1>3, <1>4, <1>5, <1>6, <1>7
    DEF Next, LockStep, MasterStep, Threads

\* The lock word and the semaphore implement a mutex.
THEOREM Refinement == Spec => ImplementsMutex
  <1>1. Init => Abstract!Init
    BY DEF Init, Abstract!Init, Holds, Threads
  <1> QED
    BY <1>1, StepRefines, InductiveInvariant, PTL
    DEF Spec, ImplementsMutex, Abstract!Spec
=============================================================================
