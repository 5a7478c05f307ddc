-------------------------------- MODULE Mutex --------------------------------
(***************************************************************************)
(* What a shared memory mutex promises: at most one process is inside, it  *)
(* enters when nobody is, and leaves by itself, or, once it has died, by   *)
(* somebody's breaking the lock.  ShmMutex implements this specification.  *)
(***************************************************************************)
CONSTANT Procs

VARIABLES
    inside,   \* the processes that hold the mutex
    dead      \* the processes that have died

vars == <<inside, dead>>

Init == inside = {} /\ dead = {}

Enter(p) ==
    /\ p \notin dead /\ inside = {}
    /\ inside' = {p}
    /\ UNCHANGED dead

Leave(p) ==
    /\ p \notin dead /\ p \in inside
    /\ inside' = {}
    /\ UNCHANGED dead

Die(p) ==
    /\ p \notin dead
    /\ dead' = dead \cup {p}
    /\ UNCHANGED inside

Break(p) ==
    /\ p \in dead /\ p \in inside
    /\ inside' = {}
    /\ UNCHANGED dead

Next == \E p \in Procs : Enter(p) \/ Leave(p) \/ Die(p) \/ Break(p)

Spec == Init /\ [][Next]_vars
=============================================================================
