------------------------------ MODULE Supervisor ------------------------------
(***************************************************************************)
(* What the master process promises about its workers, without saying how: *)
(* each worker lives once, under an id that no other live worker has, and  *)
(* serves the listening sockets that are bound while it lives; the sockets *)
(* are only rebound when nobody serves them; shutting down leaves nobody.  *)
(* MasterCycle implements this specification.                              *)
(***************************************************************************)
EXTENDS Integers

CONSTANTS Procs, Ids

VARIABLES
    life,     \* "fresh", "live" or "gone" for each worker
    id,       \* the id of a worker
    serves,   \* the generation of the listening sockets a worker serves
    bound,    \* the generation that is bound now, 0 when the ports are closed
    up        \* the supervisor itself runs

vars == <<life, id, serves, bound, up>>

Live == {p \in Procs : life[p] = "live"}

Init ==
    /\ life = [p \in Procs |-> "fresh"]
    /\ id \in [Procs -> Ids]
    /\ serves = [p \in Procs |-> 0]
    /\ bound = 1
    /\ up = TRUE

Start(p, i) ==
    /\ up /\ bound > 0
    /\ life[p] = "fresh"
    /\ \A q \in Live : id[q] # i
    /\ life' = [life EXCEPT ![p] = "live"]
    /\ id' = [id EXCEPT ![p] = i]
    /\ serves' = [serves EXCEPT ![p] = bound]
    /\ UNCHANGED <<bound, up>>

\* Workers end, on their own or by the hand of the supervisor.
End ==
    /\ life' \in [Procs -> {"fresh", "live", "gone"}]
    /\ \A p \in Procs : life'[p] # life[p] => life[p] = "live" /\ life'[p] = "gone"
    /\ UNCHANGED <<id, serves, bound, up>>

Rebind ==
    /\ up /\ Live = {}
    /\ bound' \in Nat
    /\ bound' = 0 \/ \A p \in Procs : serves[p] < bound'
    /\ UNCHANGED <<life, id, serves, up>>

ShutDown ==
    /\ up /\ up' = FALSE
    /\ life' = [p \in Procs |-> IF life[p] = "live" THEN "gone" ELSE life[p]]
    /\ UNCHANGED <<id, serves, bound>>

Next ==
    \/ \E p \in Procs, i \in Ids : Start(p, i)
    \/ End \/ Rebind \/ ShutDown

Spec == Init /\ [][Next]_vars
=============================================================================
