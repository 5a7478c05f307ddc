--------------------------- MODULE MCWorkerThreads ---------------------------
(***************************************************************************)
(* Small instances of WorkerThreads for TLC.                               *)
(***************************************************************************)
EXTENDS WorkerThreads, TLC

WorkerSymmetry == Permutations(Workers)
=============================================================================
