------------------------------ MODULE MCShmMutex ------------------------------
(***************************************************************************)
(* Small instances of ShmMutex for TLC.                                    *)
(***************************************************************************)
EXTENDS ShmMutex, TLC

ProcSymmetry == Permutations(Procs)
=============================================================================
