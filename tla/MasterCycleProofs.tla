-------------------------- MODULE MasterCycleProofs --------------------------
(***************************************************************************)
(* Proofs about MasterCycle, for every number of slots, processes, signals *)
(* and crashes.                                                            *)
(***************************************************************************)
EXTENDS MasterCycle, TLAPS

\* The initial state is well typed.
LEMMA InitTypeOK == Init => TypeOK
  <1> SUFFICES ASSUME Init PROVE TypeOK
    OBVIOUS
  <1> USE SlotsAssumption, WorkersAssumption DEF Init, Slots
  <1>1. 0 \in Slots /\ want \in Nat
    OBVIOUS
  <1>2. pstate \in [Procs -> ProcStates] /\ worker \in [Procs -> Slots]
        /\ inherited \in [Procs -> Nat]
    BY <1>1 DEF ProcStates
  <1>3. handle \in [Slots -> Procs \cup {NoProc}] /\ opened \in [Slots -> BOOLEAN]
        /\ exiting \in [Slots -> BOOLEAN] /\ last \in 0 .. MaxSlots
    OBVIOUS
  <1> QED
    BY <1>1, <1>2, <1>3 DEF TypeOK, MasterStates

\* Every step keeps the types.
LEMMA NextTypeOK == TypeOK /\ [Next]_vars => TypeOK'
  <1> SUFFICES ASSUME TypeOK, [Next]_vars PROVE TypeOK'
    OBVIOUS
  <1> USE SlotsAssumption, WorkersAssumption
      DEF TypeOK, named, procs, table, flags, spawning, listening, counters,
          Slots, Signals, MasterStates, ProcStates
  <1>1. ASSUME NEW p \in Procs, NEW s \in Slots, CreateProcess(p, s)
         PROVE  TypeOK'
    BY <1>1 DEF CreateProcess, WantsSpawn, TakesSlot, FirstFree
  <1>2. CASE CreateFails
    BY <1>2 DEF CreateFails, WantsSpawn, SpawnReturnsInvalid
  <1>3. CASE StartDone
    BY <1>3 DEF StartDone
  <1>4. CASE HandshakeOk
    <2>1. last' \in 0 .. MaxSlots /\ started' \in Nat
      BY <1>4 DEF HandshakeOk
    <2>2. mpc' \in MasterStates /\ opened' \in [Slots -> BOOLEAN] /\ mevent' \in BOOLEAN
      BY <1>4 DEF HandshakeOk
    <2> QED
      BY <1>4, <2>1, <2>2 DEF HandshakeOk
  <1>5. CASE HandshakeNoEvents
    BY <1>5 DEF HandshakeNoEvents
  <1>6. CASE HandshakeExited
    BY <1>6 DEF HandshakeExited
  <1>7. CASE HandshakeTimeout
    BY <1>7 DEF HandshakeTimeout
  <1>8. CASE KillSpawned
    <2>1. last' \in 0 .. MaxSlots /\ mpc' \in MasterStates
      BY <1>8 DEF KillSpawned, SpawnReturnsInvalid
    <2>2. pstate' \in [Procs -> ProcStates]
      BY <1>8 DEF KillSpawned
    <2>3. handle' \in [Slots -> Procs \cup {NoProc}] /\ opened' \in [Slots -> BOOLEAN]
      BY <1>8 DEF KillSpawned
    <2> QED
      BY <1>8, <2>1, <2>2, <2>3 DEF KillSpawned
  <1>9. CASE Stop
    BY <1>9 DEF Stop, AskToQuit, Used
  <1>10. CASE Quit
    BY <1>10 DEF Quit, AskToQuit, Used
  <1>11. CASE Reopen
    BY <1>11 DEF Reopen, Used
  <1>12. CASE Reload
    BY <1>12 DEF Reload, AskToQuit, Used
  <1>13. CASE QuitWaitOver
    BY <1>13 DEF QuitWaitOver, TerminateWorkers
  <1>14. CASE ReloadOk
    <2>1. want' \in Nat
      BY <1>14 DEF ReloadOk
    <2>2. sockets' \in Nat /\ env' \in Nat
      BY <1>14 DEF ReloadOk
    <2> QED
      BY <1>14, <2>1, <2>2 DEF ReloadOk
  <1>15. CASE ReloadFails
    BY <1>15 DEF ReloadFails
  <1>15b. CASE ReloadExits
    BY <1>15b DEF ReloadExits
  <1>16. CASE ReapWorker
    BY <1>16 DEF ReapWorker, DeadSlots, Used
  <1>17. CASE StopTimeout
    BY <1>17 DEF StopTimeout, TerminateWorkers
  <1>18. ASSUME NEW p \in Procs, CreateEvents(p) PROVE TypeOK'
    BY <1>18 DEF CreateEvents
  <1>19. ASSUME NEW p \in Procs, SetMasterEvent(p) PROVE TypeOK'
    BY <1>19 DEF SetMasterEvent
  <1>20. ASSUME NEW p \in Procs, WorkerReopens(p) PROVE TypeOK'
    BY <1>20 DEF WorkerReopens
  <1>21. ASSUME NEW p \in Procs, WorkerExits(p) PROVE TypeOK'
    BY <1>21 DEF WorkerExits
  <1>22. ASSUME NEW p \in Procs, Crash(p) PROVE TypeOK'
    BY <1>22 DEF Crash
  <1>23. ASSUME NEW sig \in Signals, Signal(sig) PROVE TypeOK'
    BY <1>23 DEF Signal
  <1>24. CASE UNCHANGED vars
    BY <1>24 DEF vars
  <1> QED
    BY <1>1, <1>2, <1>3, <1>4, <1>5, <1>6, <1>7, <1>8, <1>9, <1>10, <1>11,
       <1>12, <1>13, <1>14, <1>15, <1>15b, <1>16, <1>17, <1>18, <1>19, <1>20,
       <1>21, <1>22, <1>23, <1>24 DEF Next, MasterStep, WorkerStep

\* The type invariant of the master and of its workers.
THEOREM TypeCorrect == Spec => []TypeOK
  BY InitTypeOK, NextTypeOK, PTL DEF Spec

\* Every step keeps the process table in order.
LEMMA NextTableInv == TypeOK /\ TableInv /\ [Next]_vars => TableInv'
  <1> SUFFICES ASSUME TypeOK /\ TableInv, [Next]_vars PROVE TableInv'
    OBVIOUS
  <1> USE ProcsAssumption, SlotsAssumption DEF TypeOK, TableInv, Occupied, SpawningSlot, named, procs, table, flags, spawning, listening, counters, Slots
  <1>1. ASSUME NEW p \in Procs, NEW s \in Slots, CreateProcess(p, s)
         PROVE  TableInv'
    BY <1>1 DEF CreateProcess, WantsSpawn, TakesSlot, FirstFree
  <1>2. CASE CreateFails
    BY <1>2 DEF CreateFails, WantsSpawn, SpawnReturnsInvalid
  <1>3. CASE StartDone
    BY <1>3 DEF StartDone
  <1>4. CASE HandshakeOk
    BY <1>4 DEF HandshakeOk
  <1>5. CASE HandshakeNoEvents
    BY <1>5 DEF HandshakeNoEvents
  <1>6. CASE HandshakeExited
    BY <1>6 DEF HandshakeExited
  <1>7. CASE HandshakeTimeout
    BY <1>7 DEF HandshakeTimeout
  <1>8. CASE KillSpawned
    BY <1>8 DEF KillSpawned, SpawnReturnsInvalid
  <1>9. CASE Stop
    BY <1>9 DEF Stop, AskToQuit, Used
  <1>10. CASE Quit
    BY <1>10 DEF Quit, AskToQuit, Used
  <1>11. CASE Reopen
    BY <1>11 DEF Reopen, Used
  <1>12. CASE Reload
    BY <1>12 DEF Reload, AskToQuit, Used
  <1>13. CASE QuitWaitOver
    BY <1>13 DEF QuitWaitOver, TerminateWorkers, Used
  <1>14. CASE ReloadOk
    BY <1>14 DEF ReloadOk
  <1>15. CASE ReloadFails
    BY <1>15 DEF ReloadFails
  <1>15b. CASE ReloadExits
    BY <1>15b DEF ReloadExits
  <1>16. CASE ReapWorker
    BY <1>16 DEF ReapWorker, DeadSlots, Used
  <1>17. CASE StopTimeout
    BY <1>17 DEF StopTimeout, TerminateWorkers, Used
  <1>18. ASSUME NEW p \in Procs, CreateEvents(p) PROVE TableInv'
    BY <1>18 DEF CreateEvents
  <1>19. ASSUME NEW p \in Procs, SetMasterEvent(p) PROVE TableInv'
    BY <1>19 DEF SetMasterEvent
  <1>20. ASSUME NEW p \in Procs, WorkerReopens(p) PROVE TableInv'
    BY <1>20 DEF WorkerReopens
  <1>21. ASSUME NEW p \in Procs, WorkerExits(p) PROVE TableInv'
    BY <1>21 DEF WorkerExits
  <1>22. ASSUME NEW p \in Procs, Crash(p) PROVE TableInv'
    BY <1>22 DEF Crash
  <1>23. ASSUME NEW sig \in Signals, Signal(sig) PROVE TableInv'
    BY <1>23 DEF Signal
  <1>24. CASE UNCHANGED vars
    BY <1>24 DEF vars
  <1> QED
    BY <1>1, <1>2, <1>3, <1>4, <1>5, <1>6, <1>7, <1>8, <1>9, <1>10, <1>11,
       <1>12, <1>13, <1>14, <1>15, <1>15b, <1>16, <1>17, <1>18, <1>19, <1>20,
       <1>21, <1>22, <1>23, <1>24 DEF Next, MasterStep, WorkerStep

\* Every step leaves each live worker in its slot.
LEMMA NextWorkerInv == TypeOK /\ TableInv /\ WorkerInv /\ [Next]_vars => WorkerInv'
  <1> SUFFICES ASSUME TypeOK /\ TableInv /\ WorkerInv, [Next]_vars PROVE WorkerInv'
    OBVIOUS
  <1> USE ProcsAssumption, SlotsAssumption DEF TypeOK, TableInv, WorkerInv, Occupied, SpawningSlot, IsAlive, named, procs, table, flags, spawning, listening, counters, Slots
  <1>1. ASSUME NEW p \in Procs, NEW s \in Slots, CreateProcess(p, s)
         PROVE  WorkerInv'
    BY <1>1 DEF CreateProcess, WantsSpawn, TakesSlot, FirstFree
  <1>2. CASE CreateFails
    BY <1>2 DEF CreateFails, WantsSpawn, SpawnReturnsInvalid
  <1>3. CASE StartDone
    BY <1>3 DEF StartDone
  <1>4. CASE HandshakeOk
    BY <1>4 DEF HandshakeOk
  <1>5. CASE HandshakeNoEvents
    BY <1>5 DEF HandshakeNoEvents
  <1>6. CASE HandshakeExited
    BY <1>6 DEF HandshakeExited
  <1>7. CASE HandshakeTimeout
    BY <1>7 DEF HandshakeTimeout
  <1>8. CASE KillSpawned
    BY <1>8 DEF KillSpawned, SpawnReturnsInvalid
  <1>9. CASE Stop
    BY <1>9 DEF Stop, AskToQuit, Used
  <1>10. CASE Quit
    BY <1>10 DEF Quit, AskToQuit, Used
  <1>11. CASE Reopen
    BY <1>11 DEF Reopen, Used
  <1>12. CASE Reload
    BY <1>12 DEF Reload, AskToQuit, Used
  <1>13. CASE QuitWaitOver
    BY <1>13 DEF QuitWaitOver, TerminateWorkers, Used
  <1>14. CASE ReloadOk
    BY <1>14 DEF ReloadOk
  <1>15. CASE ReloadFails
    BY <1>15 DEF ReloadFails
  <1>15b. CASE ReloadExits
    BY <1>15b DEF ReloadExits
  <1>16. CASE ReapWorker
    BY <1>16 DEF ReapWorker, DeadSlots, Used
  <1>17. CASE StopTimeout
    BY <1>17 DEF StopTimeout, TerminateWorkers, Used
  <1>18. ASSUME NEW p \in Procs, CreateEvents(p) PROVE WorkerInv'
    BY <1>18 DEF CreateEvents
  <1>19. ASSUME NEW p \in Procs, SetMasterEvent(p) PROVE WorkerInv'
    BY <1>19 DEF SetMasterEvent
  <1>20. ASSUME NEW p \in Procs, WorkerReopens(p) PROVE WorkerInv'
    BY <1>20 DEF WorkerReopens
  <1>21. ASSUME NEW p \in Procs, WorkerExits(p) PROVE WorkerInv'
    BY <1>21 DEF WorkerExits
  <1>22. ASSUME NEW p \in Procs, Crash(p) PROVE WorkerInv'
    BY <1>22 DEF Crash
  <1>23. ASSUME NEW sig \in Signals, Signal(sig) PROVE WorkerInv'
    BY <1>23 DEF Signal
  <1>24. CASE UNCHANGED vars
    BY <1>24 DEF vars
  <1> QED
    BY <1>1, <1>2, <1>3, <1>4, <1>5, <1>6, <1>7, <1>8, <1>9, <1>10, <1>11,
       <1>12, <1>13, <1>14, <1>15, <1>15b, <1>16, <1>17, <1>18, <1>19, <1>20,
       <1>21, <1>22, <1>23, <1>24 DEF Next, MasterStep, WorkerStep

\* No step exits, or lets the master exit, with a worker in the table.
LEMMA NextEmptyInv == TypeOK /\ TableInv /\ EmptyInv /\ [Next]_vars => EmptyInv'
  <1> SUFFICES ASSUME TypeOK /\ TableInv /\ EmptyInv, [Next]_vars PROVE EmptyInv'
    OBVIOUS
  <1> USE ProcsAssumption, SlotsAssumption DEF TypeOK, TableInv, EmptyInv, Occupied, SpawningSlot, named, procs, table, flags, spawning, listening, counters, Slots
  <1>1. ASSUME NEW p \in Procs, NEW s \in Slots, CreateProcess(p, s)
         PROVE  EmptyInv'
    BY <1>1 DEF CreateProcess, WantsSpawn, TakesSlot, FirstFree
  <1>2. CASE CreateFails
    BY <1>2 DEF CreateFails, WantsSpawn, SpawnReturnsInvalid
  <1>3. CASE StartDone
    BY <1>3 DEF StartDone
  <1>4. CASE HandshakeOk
    BY <1>4 DEF HandshakeOk
  <1>5. CASE HandshakeNoEvents
    BY <1>5 DEF HandshakeNoEvents
  <1>6. CASE HandshakeExited
    BY <1>6 DEF HandshakeExited
  <1>7. CASE HandshakeTimeout
    BY <1>7 DEF HandshakeTimeout
  <1>8. CASE KillSpawned
    BY <1>8 DEF KillSpawned, SpawnReturnsInvalid
  <1>9. CASE Stop
    BY <1>9 DEF Stop, AskToQuit, Used
  <1>10. CASE Quit
    BY <1>10 DEF Quit, AskToQuit, Used
  <1>11. CASE Reopen
    BY <1>11 DEF Reopen, Used
  <1>12. CASE Reload
    BY <1>12 DEF Reload, AskToQuit, Used
  <1>13. CASE QuitWaitOver
    BY <1>13 DEF QuitWaitOver, TerminateWorkers, Used
  <1>14. CASE ReloadOk
    BY <1>14 DEF ReloadOk
  <1>15. CASE ReloadFails
    BY <1>15 DEF ReloadFails
  <1>15b. CASE ReloadExits
    BY <1>15b DEF ReloadExits
  <1>16. CASE ReapWorker
    <2>1. PICK r \in DeadSlots :
            /\ handle' = [handle EXCEPT ![r] = NoProc]
            /\ mpc' \in {"reload", "exited"} => Used = {r}
            /\ mpc' = "spawn" => respawn'
      BY <1>16 DEF ReapWorker
    <2>2. \A s \in Slots : handle[s] # NoProc => s \in Used
      BY <1>16 DEF ReapWorker, Used
    <2>3. r \in Slots
      BY DEF DeadSlots, Used
    <2>4. mpc' \in {"reload", "exited"} => \A s \in Slots : handle'[s] = NoProc
      BY <2>1, <2>2, <2>3
    <2>5. mpc' \notin {"handshake", "spawnfail"}
      BY <1>16 DEF ReapWorker
    <2> QED
      BY <2>1, <2>4, <2>5
  <1>17. CASE StopTimeout
    BY <1>17 DEF StopTimeout, TerminateWorkers, Used
  <1>18. ASSUME NEW p \in Procs, CreateEvents(p) PROVE EmptyInv'
    BY <1>18 DEF CreateEvents
  <1>19. ASSUME NEW p \in Procs, SetMasterEvent(p) PROVE EmptyInv'
    BY <1>19 DEF SetMasterEvent
  <1>20. ASSUME NEW p \in Procs, WorkerReopens(p) PROVE EmptyInv'
    BY <1>20 DEF WorkerReopens
  <1>21. ASSUME NEW p \in Procs, WorkerExits(p) PROVE EmptyInv'
    BY <1>21 DEF WorkerExits
  <1>22. ASSUME NEW p \in Procs, Crash(p) PROVE EmptyInv'
    BY <1>22 DEF Crash
  <1>23. ASSUME NEW sig \in Signals, Signal(sig) PROVE EmptyInv'
    BY <1>23 DEF Signal
  <1>24. CASE UNCHANGED vars
    BY <1>24 DEF vars
  <1> QED
    BY <1>1, <1>2, <1>3, <1>4, <1>5, <1>6, <1>7, <1>8, <1>9, <1>10, <1>11,
       <1>12, <1>13, <1>14, <1>15, <1>15b, <1>16, <1>17, <1>18, <1>19, <1>20,
       <1>21, <1>22, <1>23, <1>24 DEF Next, MasterStep, WorkerStep

\* No step mixes two generations of listening sockets.
LEMMA NextSocketInv == TypeOK /\ TableInv /\ WorkerInv /\ EmptyInv /\ SocketInv /\ [Next]_vars => SocketInv'
  <1> SUFFICES ASSUME TypeOK /\ TableInv /\ WorkerInv /\ EmptyInv /\ SocketInv, [Next]_vars PROVE SocketInv'
    OBVIOUS
  <1> USE ProcsAssumption, SlotsAssumption DEF TypeOK, TableInv, WorkerInv, EmptyInv, SocketInv, Occupied, SpawningSlot, IsAlive, named, procs, table, flags, spawning, listening, counters, Slots
  <1>1. ASSUME NEW p \in Procs, NEW s \in Slots, CreateProcess(p, s)
         PROVE  SocketInv'
    BY <1>1 DEF CreateProcess, WantsSpawn, TakesSlot, FirstFree
  <1>2. CASE CreateFails
    BY <1>2 DEF CreateFails, WantsSpawn, SpawnReturnsInvalid
  <1>3. CASE StartDone
    BY <1>3 DEF StartDone
  <1>4. CASE HandshakeOk
    BY <1>4 DEF HandshakeOk
  <1>5. CASE HandshakeNoEvents
    BY <1>5 DEF HandshakeNoEvents
  <1>6. CASE HandshakeExited
    BY <1>6 DEF HandshakeExited
  <1>7. CASE HandshakeTimeout
    BY <1>7 DEF HandshakeTimeout
  <1>8. CASE KillSpawned
    BY <1>8 DEF KillSpawned, SpawnReturnsInvalid
  <1>9. CASE Stop
    BY <1>9 DEF Stop, AskToQuit, Used
  <1>10. CASE Quit
    BY <1>10 DEF Quit, AskToQuit, Used
  <1>11. CASE Reopen
    BY <1>11 DEF Reopen, Used
  <1>12. CASE Reload
    BY <1>12 DEF Reload, AskToQuit, Used
  <1>13. CASE QuitWaitOver
    BY <1>13 DEF QuitWaitOver, TerminateWorkers, Used
  <1>14. CASE ReloadOk
    BY <1>14 DEF ReloadOk
  <1>15. CASE ReloadFails
    BY <1>15 DEF ReloadFails
  <1>15b. CASE ReloadExits
    BY <1>15b DEF ReloadExits
  <1>16. CASE ReapWorker
    BY <1>16 DEF ReapWorker, DeadSlots, Used
  <1>17. CASE StopTimeout
    BY <1>17 DEF StopTimeout, TerminateWorkers, Used
  <1>18. ASSUME NEW p \in Procs, CreateEvents(p) PROVE SocketInv'
    BY <1>18 DEF CreateEvents
  <1>19. ASSUME NEW p \in Procs, SetMasterEvent(p) PROVE SocketInv'
    BY <1>19 DEF SetMasterEvent
  <1>20. ASSUME NEW p \in Procs, WorkerReopens(p) PROVE SocketInv'
    BY <1>20 DEF WorkerReopens
  <1>21. ASSUME NEW p \in Procs, WorkerExits(p) PROVE SocketInv'
    BY <1>21 DEF WorkerExits
  <1>22. ASSUME NEW p \in Procs, Crash(p) PROVE SocketInv'
    BY <1>22 DEF Crash
  <1>23. ASSUME NEW sig \in Signals, Signal(sig) PROVE SocketInv'
    BY <1>23 DEF Signal
  <1>24. CASE UNCHANGED vars
    BY <1>24 DEF vars
  <1> QED
    BY <1>1, <1>2, <1>3, <1>4, <1>5, <1>6, <1>7, <1>8, <1>9, <1>10, <1>11,
       <1>12, <1>13, <1>14, <1>15, <1>15b, <1>16, <1>17, <1>18, <1>19, <1>20,
       <1>21, <1>22, <1>23, <1>24 DEF Next, MasterStep, WorkerStep

\* No step leaves a slot marked as exiting in the loop.
LEMMA NextExitingInv == TypeOK /\ TableInv /\ ExitingInv /\ [Next]_vars => ExitingInv'
  <1> SUFFICES ASSUME TypeOK /\ TableInv /\ ExitingInv, [Next]_vars PROVE ExitingInv'
    OBVIOUS
  <1> USE ProcsAssumption, SlotsAssumption DEF TypeOK, TableInv, ExitingInv, Occupied, SpawningSlot, named, procs, table, flags, spawning, listening, counters, Slots
  <1>1. ASSUME NEW p \in Procs, NEW s \in Slots, CreateProcess(p, s)
         PROVE  ExitingInv'
    BY <1>1 DEF CreateProcess, WantsSpawn, TakesSlot, FirstFree
  <1>2. CASE CreateFails
    BY <1>2 DEF CreateFails, WantsSpawn, SpawnReturnsInvalid
  <1>3. CASE StartDone
    BY <1>3 DEF StartDone
  <1>4. CASE HandshakeOk
    BY <1>4 DEF HandshakeOk
  <1>5. CASE HandshakeNoEvents
    BY <1>5 DEF HandshakeNoEvents
  <1>6. CASE HandshakeExited
    BY <1>6 DEF HandshakeExited
  <1>7. CASE HandshakeTimeout
    BY <1>7 DEF HandshakeTimeout
  <1>8. CASE KillSpawned
    BY <1>8 DEF KillSpawned, SpawnReturnsInvalid
  <1>9. CASE Stop
    BY <1>9 DEF Stop, AskToQuit, Used
  <1>10. CASE Quit
    BY <1>10 DEF Quit, AskToQuit, Used
  <1>11. CASE Reopen
    BY <1>11 DEF Reopen, Used
  <1>12. CASE Reload
    BY <1>12 DEF Reload, AskToQuit, Used
  <1>13. CASE QuitWaitOver
    BY <1>13 DEF QuitWaitOver, TerminateWorkers, Used
  <1>14. CASE ReloadOk
    BY <1>14 DEF ReloadOk
  <1>15. CASE ReloadFails
    BY <1>15 DEF ReloadFails
  <1>15b. CASE ReloadExits
    BY <1>15b DEF ReloadExits
  <1>16. CASE ReapWorker
    BY <1>16 DEF ReapWorker, DeadSlots, Used
  <1>17. CASE StopTimeout
    BY <1>17 DEF StopTimeout, TerminateWorkers, Used
  <1>18. ASSUME NEW p \in Procs, CreateEvents(p) PROVE ExitingInv'
    BY <1>18 DEF CreateEvents
  <1>19. ASSUME NEW p \in Procs, SetMasterEvent(p) PROVE ExitingInv'
    BY <1>19 DEF SetMasterEvent
  <1>20. ASSUME NEW p \in Procs, WorkerReopens(p) PROVE ExitingInv'
    BY <1>20 DEF WorkerReopens
  <1>21. ASSUME NEW p \in Procs, WorkerExits(p) PROVE ExitingInv'
    BY <1>21 DEF WorkerExits
  <1>22. ASSUME NEW p \in Procs, Crash(p) PROVE ExitingInv'
    BY <1>22 DEF Crash
  <1>23. ASSUME NEW sig \in Signals, Signal(sig) PROVE ExitingInv'
    BY <1>23 DEF Signal
  <1>24. CASE UNCHANGED vars
    BY <1>24 DEF vars
  <1> QED
    BY <1>1, <1>2, <1>3, <1>4, <1>5, <1>6, <1>7, <1>8, <1>9, <1>10, <1>11,
       <1>12, <1>13, <1>14, <1>15, <1>15b, <1>16, <1>17, <1>18, <1>19, <1>20,
       <1>21, <1>22, <1>23, <1>24 DEF Next, MasterStep, WorkerStep

\* Without a crash or a timeout no step leaves the master's event set.
LEMMA NextEventInv == TypeOK /\ TableInv /\ WorkerInv /\ EventInv /\ [Next]_vars => EventInv'
  <1> SUFFICES ASSUME TypeOK /\ TableInv /\ WorkerInv /\ EventInv, [Next]_vars PROVE EventInv'
    OBVIOUS
  <1> USE ProcsAssumption, SlotsAssumption DEF TypeOK, TableInv, WorkerInv, EventInv, Occupied, SpawningSlot, IsAlive, named, procs, table, flags, spawning, listening, counters, Slots
  <1>1. ASSUME NEW p \in Procs, NEW s \in Slots, CreateProcess(p, s)
         PROVE  EventInv'
    BY <1>1 DEF CreateProcess, WantsSpawn, TakesSlot, FirstFree
  <1>2. CASE CreateFails
    BY <1>2 DEF CreateFails, WantsSpawn, SpawnReturnsInvalid
  <1>3. CASE StartDone
    BY <1>3 DEF StartDone
  <1>4. CASE HandshakeOk
    BY <1>4 DEF HandshakeOk
  <1>5. CASE HandshakeNoEvents
    BY <1>5 DEF HandshakeNoEvents
  <1>6. CASE HandshakeExited
    BY <1>6 DEF HandshakeExited
  <1>7. CASE HandshakeTimeout
    BY <1>7 DEF HandshakeTimeout
  <1>8. CASE KillSpawned
    BY <1>8 DEF KillSpawned, SpawnReturnsInvalid
  <1>9. CASE Stop
    BY <1>9 DEF Stop, AskToQuit, Used
  <1>10. CASE Quit
    BY <1>10 DEF Quit, AskToQuit, Used
  <1>11. CASE Reopen
    BY <1>11 DEF Reopen, Used
  <1>12. CASE Reload
    BY <1>12 DEF Reload, AskToQuit, Used
  <1>13. CASE QuitWaitOver
    BY <1>13 DEF QuitWaitOver, TerminateWorkers, Used
  <1>14. CASE ReloadOk
    BY <1>14 DEF ReloadOk
  <1>15. CASE ReloadFails
    BY <1>15 DEF ReloadFails
  <1>15b. CASE ReloadExits
    BY <1>15b DEF ReloadExits
  <1>16. CASE ReapWorker
    BY <1>16 DEF ReapWorker, DeadSlots, Used
  <1>17. CASE StopTimeout
    BY <1>17 DEF StopTimeout, TerminateWorkers, Used
  <1>18. ASSUME NEW p \in Procs, CreateEvents(p) PROVE EventInv'
    BY <1>18 DEF CreateEvents
  <1>19. ASSUME NEW p \in Procs, SetMasterEvent(p) PROVE EventInv'
    BY <1>19 DEF SetMasterEvent
  <1>20. ASSUME NEW p \in Procs, WorkerReopens(p) PROVE EventInv'
    BY <1>20 DEF WorkerReopens
  <1>21. ASSUME NEW p \in Procs, WorkerExits(p) PROVE EventInv'
    BY <1>21 DEF WorkerExits
  <1>22. ASSUME NEW p \in Procs, Crash(p) PROVE EventInv'
    BY <1>22 DEF Crash
  <1>23. ASSUME NEW sig \in Signals, Signal(sig) PROVE EventInv'
    BY <1>23 DEF Signal
  <1>24. CASE UNCHANGED vars
    BY <1>24 DEF vars
  <1> QED
    BY <1>1, <1>2, <1>3, <1>4, <1>5, <1>6, <1>7, <1>8, <1>9, <1>10, <1>11,
       <1>12, <1>13, <1>14, <1>15, <1>15b, <1>16, <1>17, <1>18, <1>19, <1>20,
       <1>21, <1>22, <1>23, <1>24 DEF Next, MasterStep, WorkerStep

\* Every step leaves the event handles of the workers open.
LEMMA NextEventsOpen == TypeOK /\ TableInv /\ EventsOpen /\ [Next]_vars => EventsOpen'
  <1> SUFFICES ASSUME TypeOK /\ TableInv /\ EventsOpen, [Next]_vars PROVE EventsOpen'
    OBVIOUS
  <1> USE ProcsAssumption, SlotsAssumption DEF TypeOK, TableInv, EventsOpen, Occupied, SpawningSlot, named, procs, table, flags, spawning, listening, counters, Slots
  <1>1. ASSUME NEW p \in Procs, NEW s \in Slots, CreateProcess(p, s)
         PROVE  EventsOpen'
    BY <1>1 DEF CreateProcess, WantsSpawn, TakesSlot, FirstFree
  <1>2. CASE CreateFails
    BY <1>2 DEF CreateFails, WantsSpawn, SpawnReturnsInvalid
  <1>3. CASE StartDone
    BY <1>3 DEF StartDone
  <1>4. CASE HandshakeOk
    BY <1>4 DEF HandshakeOk
  <1>5. CASE HandshakeNoEvents
    BY <1>5 DEF HandshakeNoEvents
  <1>6. CASE HandshakeExited
    BY <1>6 DEF HandshakeExited
  <1>7. CASE HandshakeTimeout
    BY <1>7 DEF HandshakeTimeout
  <1>8. CASE KillSpawned
    BY <1>8 DEF KillSpawned, SpawnReturnsInvalid
  <1>9. CASE Stop
    BY <1>9 DEF Stop, AskToQuit, Used
  <1>10. CASE Quit
    BY <1>10 DEF Quit, AskToQuit, Used
  <1>11. CASE Reopen
    BY <1>11 DEF Reopen, Used
  <1>12. CASE Reload
    BY <1>12 DEF Reload, AskToQuit, Used
  <1>13. CASE QuitWaitOver
    BY <1>13 DEF QuitWaitOver, TerminateWorkers, Used
  <1>14. CASE ReloadOk
    BY <1>14 DEF ReloadOk
  <1>15. CASE ReloadFails
    BY <1>15 DEF ReloadFails
  <1>15b. CASE ReloadExits
    BY <1>15b DEF ReloadExits
  <1>16. CASE ReapWorker
    BY <1>16 DEF ReapWorker, DeadSlots, Used
  <1>17. CASE StopTimeout
    BY <1>17 DEF StopTimeout, TerminateWorkers, Used
  <1>18. ASSUME NEW p \in Procs, CreateEvents(p) PROVE EventsOpen'
    BY <1>18 DEF CreateEvents
  <1>19. ASSUME NEW p \in Procs, SetMasterEvent(p) PROVE EventsOpen'
    BY <1>19 DEF SetMasterEvent
  <1>20. ASSUME NEW p \in Procs, WorkerReopens(p) PROVE EventsOpen'
    BY <1>20 DEF WorkerReopens
  <1>21. ASSUME NEW p \in Procs, WorkerExits(p) PROVE EventsOpen'
    BY <1>21 DEF WorkerExits
  <1>22. ASSUME NEW p \in Procs, Crash(p) PROVE EventsOpen'
    BY <1>22 DEF Crash
  <1>23. ASSUME NEW sig \in Signals, Signal(sig) PROVE EventsOpen'
    BY <1>23 DEF Signal
  <1>24. CASE UNCHANGED vars
    BY <1>24 DEF vars
  <1> QED
    BY <1>1, <1>2, <1>3, <1>4, <1>5, <1>6, <1>7, <1>8, <1>9, <1>10, <1>11,
       <1>12, <1>13, <1>14, <1>15, <1>15b, <1>16, <1>17, <1>18, <1>19, <1>20,
       <1>21, <1>22, <1>23, <1>24 DEF Next, MasterStep, WorkerStep

\* The inductive invariant holds at the start.
LEMMA InitIInv == Init => IInv
  <1> SUFFICES ASSUME Init PROVE IInv
    OBVIOUS
  <1>1. TypeOK
    BY InitTypeOK
  <1>2. TableInv /\ EmptyInv /\ EventsOpen /\ ExitingInv
    BY DEF Init, TableInv, EmptyInv, EventsOpen, ExitingInv, Occupied, SpawningSlot
  <1>3. WorkerInv /\ SocketInv /\ EventInv
    BY DEF Init, WorkerInv, SocketInv, EventInv, IsAlive, Occupied, SpawningSlot
  <1> QED
    BY <1>1, <1>2, <1>3 DEF IInv

\* Every step keeps it.
LEMMA NextIInv == IInv /\ [Next]_vars => IInv'
  BY NextTypeOK, NextTableInv, NextWorkerInv, NextEmptyInv, NextSocketInv,
     NextExitingInv, NextEventInv, NextEventsOpen DEF IInv

\* The inductive invariant of the master.
THEOREM InductiveInvariant == Spec => []IInv
  BY InitIInv, NextIInv, PTL DEF Spec

\* Every live worker can be found by the loops over the process table.
THEOREM AlwaysTracked == Spec => []Tracked
  <1>1. IInv => Tracked
    <2> SUFFICES ASSUME IInv, NEW p \in Procs, IsAlive(p)
                 PROVE  \E s \in Slots : handle[s] = p /\ (s < last \/ SpawningSlot(s))
      BY DEF Tracked, Alive
    <2>1. worker[p] \in Slots /\ handle[worker[p]] = p
      BY DEF IInv, TypeOK, WorkerInv
    <2>2. worker[p] < last \/ SpawningSlot(worker[p])
      BY <2>1, ProcsAssumption DEF IInv, TableInv, Occupied
    <2> QED
      BY <2>1, <2>2
  <1> QED
    BY <1>1, InductiveInvariant, PTL

\* The master never exits while one of its workers lives.
THEOREM NeverOrphans == Spec => []NoOrphans
  <1>1. IInv => NoOrphans
    BY ProcsAssumption
    DEF IInv, TypeOK, EmptyInv, WorkerInv, NoOrphans, Alive, Occupied, IsAlive
  <1> QED
    BY <1>1, InductiveInvariant, PTL

\* No two live workers carry the same worker id.
THEOREM AlwaysDistinctIds == Spec => []DistinctIds
  <1>1. IInv => DistinctIds
    BY DEF IInv, WorkerInv, DistinctIds, Alive
  <1> QED
    BY <1>1, InductiveInvariant, PTL

\* Live workers serve the sockets that the master has open now.
THEOREM AlwaysOneGeneration == Spec => []OneGeneration
  <1>1. IInv => OneGeneration
    BY ProcsAssumption
    DEF IInv, TypeOK, SocketInv, WorkerInv, OneGeneration, Alive, Occupied, IsAlive
  <1> QED
    BY <1>1, InductiveInvariant, PTL

\* The master never signals or closes an event it has not opened.
THEOREM AlwaysEventsOpen == Spec => []EventsOpen
  <1>1. IInv => EventsOpen
    BY DEF IInv
  <1> QED
    BY <1>1, InductiveInvariant, PTL

\* A worker that dies while the master waits in its loop is not taken for one
\* that was asked to exit.
THEOREM AlwaysRespawned == Spec => []DeadWillBeRespawned
  <1>1. IInv => DeadWillBeRespawned
    BY DEF IInv, ExitingInv, DeadWillBeRespawned, Used, Occupied
  <1> QED
    BY <1>1, InductiveInvariant, PTL

\* The handshake spares healthy workers until the first crash or timeout.
THEOREM HandshakeSparesHealthy == Spec => HealthyNotKilled
  <1>1. IInv /\ [Next]_vars
          => [KillSpawned /\ IsAlive(handle[slot]) => crashes + timeouts > 0]_vars
    BY DEF IInv, TypeOK, EventInv, KillSpawned
  <1> QED
    BY <1>1, InductiveInvariant, PTL DEF Spec, HealthyNotKilled

-----------------------------------------------------------------------------
(***************************************************************************)
(* MasterCycle implements Supervisor.                                      *)
(***************************************************************************)

\* Life calls live what IsAlive does.
LEMMA LifeIsAlive ==
  ASSUME TypeOK, NEW p \in Procs
  PROVE  /\ Life(p) = "live" <=> IsAlive(p)
         /\ Life(p) \in {"fresh", "live", "gone"}
  BY DEF TypeOK, ProcStates, Life, IsAlive

\* With an empty table nobody is alive.
LEMMA EmptyTable ==
  ASSUME TypeOK, WorkerInv, \A s \in Slots : ~Occupied(s), NEW p \in Procs
  PROVE  ~IsAlive(p)
  BY ProcsAssumption DEF TypeOK, WorkerInv, Occupied

\* Steps that no supervisor would notice.
LEMMA Unnoticed ==
  ASSUME \A p \in Procs : Life(p)' = Life(p), UNCHANGED <<worker, inherited, sockets>>,
         mpc' = "exited" <=> mpc = "exited"
  PROVE  UNCHANGED Sup!vars
  BY DEF Sup!vars

\* Steps by which some live workers end.
LEMMA SomeEnd ==
  ASSUME TypeOK, TypeOK', UNCHANGED <<worker, inherited, sockets>>,
         mpc' = "exited" <=> mpc = "exited",
         \A p \in Procs : Life(p)' = Life(p) \/ (Life(p) = "live" /\ Life(p)' = "gone")
  PROVE  Sup!Next
  <1>1. \A p \in Procs : Life(p)' \in {"fresh", "live", "gone"}
    BY DEF TypeOK, ProcStates, Life
  <1>2. Sup!End
    BY <1>1 DEF Sup!End
  <1> QED
    BY <1>2 DEF Sup!Next

\* Steps by which the master exits and takes the live workers along.
LEMMA AllEnd ==
  ASSUME UNCHANGED <<worker, inherited, sockets>>, mpc # "exited", mpc' = "exited",
         \A p \in Procs : Life(p)' = IF Life(p) = "live" THEN "gone" ELSE Life(p)
  PROVE  Sup!Next
  <1>1. Sup!ShutDown
    BY DEF Sup!ShutDown
  <1> QED
    BY <1>1 DEF Sup!Next

\* The initial states are initial states of the supervisor.
LEMMA InitRefines == Init => Sup!Init
  BY SlotsAssumption DEF Init, Sup!Init, Life, Slots

\* ngx_spawn_process starts a worker under an id that is free, on sockets
\* that are open.
LEMMA CreateRefines ==
  ASSUME IInv, NEW p \in Procs, NEW s \in Slots, CreateProcess(p, s)
  PROVE  Sup!Next
  <1> USE DEF IInv, CreateProcess
  <1>1. handle[s] = NoProc
    <2>1. CASE respawn
      BY <2>1 DEF TableInv, TakesSlot, WantsSpawn
    <2>2. CASE ~respawn
      BY <2>2, SlotsAssumption
      DEF TypeOK, TableInv, Occupied, SpawningSlot, TakesSlot, FirstFree, WantsSpawn, Slots
    <2> QED
      BY <2>1, <2>2
  <1>2. \A q \in Procs : Life(q) = "live" => worker[q] # s
    BY <1>1, ProcsAssumption, LifeIsAlive DEF WorkerInv
  <1>3. sockets > 0 /\ env = sockets /\ mpc # "exited" /\ mpc' # "exited"
    BY DEF SocketInv, WantsSpawn
  <1>4. [q \in Procs |-> Life(q)]' = [[q \in Procs |-> Life(q)] EXCEPT ![p] = "live"]
    BY DEF TypeOK, Life
  <1>5. Life(p) = "fresh"
    BY DEF Life
  <1>6. worker' = [worker EXCEPT ![p] = s] /\ inherited' = [inherited EXCEPT ![p] = sockets]
        /\ UNCHANGED sockets
    BY <1>3 DEF listening
  <1>7. Sup!Start(p, s)
    BY <1>2, <1>3, <1>4, <1>5, <1>6 DEF Sup!Start, Sup!Live
  <1> QED
    BY <1>7 DEF Sup!Next

\* What ngx_spawn_process does after a failure, and the end of
\* ngx_start_worker_processes: the master exits, if at all, on an empty table.
LEMMA GiveUpRefines ==
  ASSUME IInv, IInv', CreateFails \/ StartDone
  PROVE  [Sup!Next]_Sup!vars
  <1> USE DEF IInv, CreateFails, StartDone, SpawnReturnsInvalid, WantsSpawn, procs, listening
  <1>1. \A p \in Procs : Life(p)' = Life(p)
    BY DEF Life
  <1>2. CASE mpc' = "exited"
    <2>1. \A p \in Procs : ~IsAlive(p)
      BY <1>2, EmptyTable DEF EmptyInv, SpawningSlot
    <2> QED
      BY <1>1, <1>2, <2>1, LifeIsAlive, AllEnd
  <1>3. CASE mpc' # "exited"
    BY <1>1, <1>3, Unnoticed
  <1> QED
    BY <1>2, <1>3

\* A worker whose handshake failed ends, and with it, if it was to be the
\* first one, the master.
LEMMA KillRefines ==
  ASSUME IInv, IInv', KillSpawned
  PROVE  Sup!Next
  <1> DEFINE k == handle[slot]
  <1> USE DEF IInv, KillSpawned, SpawnReturnsInvalid, listening
  <1>1. k \in Procs /\ pstate[k] # "none"
    BY DEF TypeOK, TableInv, Occupied
  <1>2. \A p \in Procs : Life(p)' = IF p = k THEN "gone" ELSE Life(p)
    BY <1>1 DEF TypeOK, Life
  <1>3. Life(k) \in {"live", "gone"}
    BY <1>1, LifeIsAlive DEF Life
  <1>4. CASE mpc' = "exited"
    <2>1. \A p \in Procs \ {k} : ~IsAlive(p)
      BY <1>1, <1>4, ProcsAssumption
      DEF TypeOK, EmptyInv, TableInv, WorkerInv, Occupied, SpawningSlot
    <2> QED
      BY <1>2, <1>3, <1>4, <2>1, LifeIsAlive, AllEnd
  <1>5. CASE mpc' # "exited"
    BY <1>2, <1>3, <1>5, SomeEnd
  <1> QED
    BY <1>4, <1>5

\* ngx_terminate_worker_processes ends exactly the live workers.
LEMMA TerminateEndsAll ==
  ASSUME IInv, TerminateWorkers, mpc \in {"loop", "quitwait", "reloadwait"},
         NEW p \in Procs
  PROVE  Life(p)' = IF Life(p) = "live" THEN "gone" ELSE Life(p)
  <1> USE DEF IInv
  <1>1. IsAlive(p) => \E s \in Used : handle[s] = p
    BY ProcsAssumption DEF TypeOK, WorkerInv, TableInv, Used, Occupied, SpawningSlot
  <1>2. pstate'[p] = IF IsAlive(p) THEN "dead" ELSE pstate[p]
    BY <1>1 DEF TerminateWorkers
  <1> QED
    BY <1>2, LifeIsAlive DEF Life

\* The reload rebinds the sockets when nobody serves them.
LEMMA ReloadRefines ==
  ASSUME IInv, IInv', ReloadOk \/ ReloadFails
  PROVE  Sup!Next
  <1> USE DEF IInv, ReloadOk, ReloadFails, procs
  <1>1. \A p \in Procs : Life(p) # "live"
    BY EmptyTable, LifeIsAlive DEF EmptyInv
  <1>2. \A p \in Procs : Life(p)' = Life(p)
    BY DEF Life
  <1>3. sockets' \in Nat /\ (sockets' = 0 \/ \A p \in Procs : inherited[p] < sockets')
    BY DEF TypeOK, SocketInv
  <1>4. Sup!Rebind
    BY <1>1, <1>2, <1>3 DEF Sup!Rebind, Sup!Live
  <1> QED
    BY <1>4 DEF Sup!Next

\* ngx_reap_worker takes a dead worker off the table; the master exits when
\* it was the last one.
LEMMA ReapRefines ==
  ASSUME IInv, IInv', ReapWorker
  PROVE  [Sup!Next]_Sup!vars
  <1> USE DEF IInv, ReapWorker, procs, listening
  <1>1. \A p \in Procs : Life(p)' = Life(p)
    BY DEF Life
  <1>2. CASE mpc' = "exited"
    <2>1. \A s \in Slots : ~Occupied(s)'
      BY <1>2 DEF EmptyInv
    <2>2. \A p \in Procs : ~IsAlive(p)'
      BY <2>1, ProcsAssumption DEF TypeOK, WorkerInv, Occupied
    <2>3. \A p \in Procs : ~IsAlive(p)
      BY <2>2 DEF IsAlive
    <2> QED
      BY <1>1, <1>2, <2>3, LifeIsAlive, AllEnd
  <1>3. CASE mpc' # "exited"
    BY <1>1, <1>3, Unnoticed
  <1> QED
    BY <1>2, <1>3

\* Each step of the master and of the workers is a step of the supervisor, or
\* one it does not notice.
LEMMA StepRefines == IInv /\ IInv' /\ [Next]_vars => [Sup!Next]_Sup!vars
  <1> SUFFICES ASSUME IInv, IInv', [Next]_vars PROVE [Sup!Next]_Sup!vars
    OBVIOUS
  <1> USE DEF named, procs, table, flags, spawning, listening, counters
  <1>1. ASSUME NEW p \in Procs, NEW s \in Slots, CreateProcess(p, s)
        PROVE  [Sup!Next]_Sup!vars
    BY <1>1, CreateRefines
  <1>2. CASE CreateFails \/ StartDone
    BY <1>2, GiveUpRefines
  <1>3. CASE HandshakeOk \/ HandshakeNoEvents \/ HandshakeExited \/ HandshakeTimeout
    BY <1>3, Unnoticed
    DEF Life, HandshakeOk, HandshakeNoEvents, HandshakeExited, HandshakeTimeout
  <1>4. CASE KillSpawned
    BY <1>4, KillRefines
  <1>5. CASE Stop \/ Quit \/ Reopen \/ Reload
    BY <1>5, Unnoticed DEF Life, Stop, Quit, Reopen, Reload, AskToQuit
  <1>6. CASE QuitWaitOver
    <2>1. TerminateWorkers /\ UNCHANGED sockets /\ mpc # "exited" /\ mpc' # "exited"
          /\ mpc \in {"loop", "quitwait", "reloadwait"}
      BY <1>6 DEF QuitWaitOver
    <2>2. UNCHANGED <<worker, inherited, sockets>>
      BY <2>1 DEF TerminateWorkers
    <2> QED
      BY <2>1, <2>2, TerminateEndsAll, SomeEnd DEF IInv
  <1>7. CASE ReloadOk \/ ReloadFails
    BY <1>7, ReloadRefines
  <1>8. CASE ReapWorker
    BY <1>8, ReapRefines
  <1>9. CASE StopTimeout
    <2>1. TerminateWorkers /\ UNCHANGED sockets /\ mpc = "loop" /\ mpc' = "exited"
      BY <1>9 DEF StopTimeout
    <2>2. UNCHANGED <<worker, inherited, sockets>>
      BY <2>1 DEF TerminateWorkers
    <2> QED
      BY <2>1, <2>2, TerminateEndsAll, AllEnd
  <1>10. ASSUME NEW p \in Procs, CreateEvents(p) \/ SetMasterEvent(p) \/ WorkerReopens(p)
         PROVE  [Sup!Next]_Sup!vars
    <2>1. \A q \in Procs : Life(q)' = Life(q)
      BY <1>10 DEF IInv, TypeOK, Life, CreateEvents, SetMasterEvent, WorkerReopens
    <2> QED
      BY <1>10, <2>1, Unnoticed DEF CreateEvents, SetMasterEvent, WorkerReopens
  <1>11. ASSUME NEW p \in Procs, WorkerExits(p) \/ Crash(p)
         PROVE  [Sup!Next]_Sup!vars
    <2>1. \A q \in Procs :
             Life(q)' = Life(q) \/ (Life(q) = "live" /\ Life(q)' = "gone")
      BY <1>11 DEF IInv, TypeOK, Life, WorkerExits, Crash, IsAlive
    <2> QED
      BY <1>11, <2>1, SomeEnd DEF IInv, WorkerExits, Crash
  <1>12. ASSUME NEW sig \in Signals, Signal(sig)
         PROVE  [Sup!Next]_Sup!vars
    BY <1>12, Unnoticed DEF Life, Signal
  <1>13. CASE ReloadExits
    <2>1. \A p \in Procs : ~IsAlive(p)
      BY <1>13, EmptyTable DEF IInv, EmptyInv, ReloadExits
    <2>2. \A p \in Procs : Life(p)' = Life(p)
      BY <1>13 DEF ReloadExits, Life
    <2> QED
      BY <1>13, <2>1, <2>2, LifeIsAlive, AllEnd DEF IInv, ReloadExits
  <1>14. CASE UNCHANGED vars
    BY <1>14, Unnoticed DEF Life, vars
  <1> QED
    BY <1>1, <1>2, <1>3, <1>4, <1>5, <1>6, <1>7, <1>8, <1>9, <1>10, <1>11, <1>12,
       <1>13, <1>14 DEF Next, MasterStep, WorkerStep

\* The master and its workers implement the supervisor.
THEOREM Refinement == Spec => ImplementsSupervisor
  BY InitRefines, StepRefines, InductiveInvariant, PTL
  DEF Spec, ImplementsSupervisor, Sup!Spec
=============================================================================
