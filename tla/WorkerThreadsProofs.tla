------------------------- MODULE WorkerThreadsProofs -------------------------
(***************************************************************************)
(* Proofs about WorkerThreads, for every set of workers and any number of  *)
(* connections and requests.                                               *)
(***************************************************************************)
EXTENDS WorkerThreads, TLAPS

\* The main thread sets ngx_quit, and the manager's event, once and last: who
\* sees one of the flags, or stands between the reset of ngx_quit and the set
\* of ngx_exiting, is in a worker whose main thread waits no more.
FlagInv ==
    \A w \in Workers :
        /\ w \in quit \/ w \in isExiting \/ w \in cmEvent \/ wpc[w] = "setexiting"
              => ToldToQuit(w)
        /\ w \in isExiting \/ wpc[w] = "setexiting" => w \notin quit

\* In a worker that is not told to quit a manager past its wait owns the mutex.
ManagerInv ==
    \A w \in Workers :
        life[w] = "runs" /\ cpc[w] \notin {"wait", "done"} /\ ~ToldToQuit(w)
            => mutexOwner = w

\* An exiting worker thread that has left its loop has left no connection.
DrainInv ==
    \A w \in Workers :
        /\ w \in isExiting /\ wpc[w] = "done" => NoTimersLeft(w)
        /\ life[w] = "exited" => wpc[w] = "done"

IInv == /\ TypeOK
        /\ FlagInv
        /\ ManagerInv
        /\ OwnerRuns
        /\ NoIdleWhenExiting
        /\ DrainInv

\* The invariant holds at the start.
LEMMA InitIInv == Init => IInv
  BY WorkersAssumption
     DEF Init, IInv, TypeOK, FlagInv, ManagerInv, OwnerRuns, NoIdleWhenExiting,
         DrainInv, ToldToQuit, NoTimersLeft, MainStates, WorkerStates, ManagerStates

\* Every step of a main thread keeps it.
LEMMA MainIInv ==
  ASSUME IInv, NEW w \in Workers, MainStep(w) PROVE IInv'
  <1> USE WorkersAssumption
      DEF IInv, TypeOK, FlagInv, ManagerInv, OwnerRuns, NoIdleWhenExiting, DrainInv,
          ToldToQuit, NoTimersLeft, MainStates, WorkerStates, ManagerStates,
          Main, events, shared, conns, history
  <1>1. CASE MainQuit(w)
    BY <1>1 DEF MainQuit
  <1>2. CASE MainReopen(w)
    BY <1>2 DEF MainReopen
  <1>3. CASE MainResetReopen(w)
    BY <1>3 DEF MainResetReopen
  <1>4. CASE MainSignalManager(w)
    BY <1>4 DEF MainSignalManager
  <1>5. CASE MainExit(w)
    BY <1>5 DEF MainExit
  <1> QED
    BY <1>1, <1>2, <1>3, <1>4, <1>5 DEF MainStep

\* Every step of a worker thread keeps it.
LEMMA WorkerIInv ==
  ASSUME IInv, NEW w \in Workers, WorkerStep(w) PROVE IInv'
  <1> USE WorkersAssumption
      DEF IInv, TypeOK, FlagInv, ManagerInv, OwnerRuns, NoIdleWhenExiting, DrainInv,
          ToldToQuit, NoTimersLeft, MainStates, WorkerStates, ManagerStates,
          Thread, events, shared, conns, history
  <1>1. CASE WorkerTest(w)
    BY <1>1 DEF WorkerTest
  <1>2. CASE NoEvents(w)
    BY <1>2 DEF NoEvents
  <1>3. CASE Accept(w)
    BY <1>3 DEF Accept
  <1>4. CASE FinishRequest(w)
    BY <1>4 DEF FinishRequest
  <1>5. CASE IdleEnds(w)
    BY <1>5 DEF IdleEnds
  <1>6. CASE ShutdownTimer(w)
    BY <1>6 DEF ShutdownTimer
  <1>7. CASE WorkerCheckQuit(w)
    BY <1>7 DEF WorkerCheckQuit
  <1>8. CASE WorkerSetExiting(w)
    BY <1>8 DEF WorkerSetExiting
  <1>9. CASE WorkerCheckReopen(w)
    BY <1>9 DEF WorkerCheckReopen
  <1>10. CASE WorkerReopenFiles(w)
    BY <1>10 DEF WorkerReopenFiles
  <1> QED
    BY <1>1, <1>2, <1>3, <1>4, <1>5, <1>6, <1>7, <1>8, <1>9, <1>10
       DEF WorkerStep, LoopEvents

\* Every step of a cache manager thread keeps it.
LEMMA ManagerIInv ==
  ASSUME IInv, NEW w \in Workers, ManagerStep(w) PROVE IInv'
  <1> USE WorkersAssumption
      DEF IInv, TypeOK, FlagInv, ManagerInv, OwnerRuns, NoIdleWhenExiting, DrainInv,
          ToldToQuit, NoTimersLeft, MainStates, WorkerStates, ManagerStates,
          Manager, Abandon, events, shared, conns, history
  <1>1. CASE ManagerWokenByEvent(w)
    BY <1>1 DEF ManagerWokenByEvent
  <1>2. CASE ManagerTakesMutex(w)
    BY <1>2 DEF ManagerTakesMutex
  <1>3. CASE ManagerReadsQuit(w)
    BY <1>3 DEF ManagerReadsQuit
  <1>4. CASE ManagerReadsExiting(w)
    BY <1>4 DEF ManagerReadsExiting
  <1>5. CASE ManagerTop(w)
    BY <1>5 DEF ManagerTop
  <1>6. CASE ManagerTop2(w)
    BY <1>6 DEF ManagerTop2
  <1>7. CASE ManagerRuns(w)
    BY <1>7 DEF ManagerRuns
  <1>8. CASE ManagerReleases(w)
    BY <1>8 DEF ManagerReleases
  <1> QED
    BY <1>1, <1>2, <1>3, <1>4, <1>5, <1>6, <1>7, <1>8 DEF ManagerStep

\* What the master does to a worker keeps it.
LEMMA MasterIInv ==
  ASSUME IInv, NEW w \in Workers, AskQuit(w) \/ AskReopen(w) \/ Kill(w) PROVE IInv'
  <1> USE WorkersAssumption
      DEF IInv, TypeOK, FlagInv, ManagerInv, OwnerRuns, NoIdleWhenExiting, DrainInv,
          ToldToQuit, NoTimersLeft, MainStates, WorkerStates, ManagerStates,
          Abandon, events, shared, conns, history
  <1>1. CASE AskQuit(w)
    BY <1>1 DEF AskQuit
  <1>2. CASE AskReopen(w)
    BY <1>2 DEF AskReopen
  <1>3. CASE Kill(w)
    BY <1>3 DEF Kill
  <1> QED
    BY <1>1, <1>2, <1>3

\* Every step keeps it.
LEMMA NextIInv == IInv /\ [Next]_vars => IInv'
  <1> SUFFICES ASSUME IInv, [Next]_vars PROVE IInv'
    OBVIOUS
  <1>1. CASE Next
    BY <1>1, MainIInv, WorkerIInv, ManagerIInv, MasterIInv DEF Next
  <1>2. CASE UNCHANGED vars
    BY <1>2
       DEF vars, events, shared, conns, history, IInv, TypeOK, FlagInv, ManagerInv,
           OwnerRuns, NoIdleWhenExiting, DrainInv, ToldToQuit, NoTimersLeft
  <1> QED
    BY <1>1, <1>2

\* The threads' inductive invariant: the flags, the mutex and the connections
\* agree in every state.
THEOREM InductiveInvariant == Spec => []IInv
  BY InitIInv, NextIInv, PTL DEF Spec

\* The variables keep their types: no count of connections goes negative.
THEOREM TypeCorrect == Spec => []TypeOK
  <1>1. IInv => TypeOK
    BY DEF IInv
  <1> QED
    BY <1>1, InductiveInvariant, PTL

\* At most one cache manager runs outside the workers that are told to quit.
THEOREM AlwaysOneManager == Spec => []OneManager
  <1>1. IInv => OneManager
    BY DEF IInv, ManagerInv, OneManager, Managing
  <1> QED
    BY <1>1, InductiveInvariant, PTL

\* The mutex is owned by running threads only: an early return, an exit or a
\* kill frees it.
THEOREM AlwaysOwnerRuns == Spec => []OwnerRuns
  <1>1. IInv => OwnerRuns
    BY DEF IInv
  <1> QED
    BY <1>1, InductiveInvariant, PTL

\* A worker that has set ngx_exiting exits without connections.
THEOREM AlwaysDrains == Spec => []DrainsOnceExiting
  <1>1. IInv => DrainsOnceExiting
    BY DEF IInv, TypeOK, DrainInv, DrainsOnceExiting
  <1> QED
    BY <1>1, InductiveInvariant, PTL

\* An exiting worker keeps no idle connection.
THEOREM AlwaysNoIdle == Spec => []NoIdleWhenExiting
  <1>1. IInv => NoIdleWhenExiting
    BY DEF IInv
  <1> QED
    BY <1>1, InductiveInvariant, PTL
=============================================================================
