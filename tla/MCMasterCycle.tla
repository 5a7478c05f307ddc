---------------------------- MODULE MCMasterCycle ----------------------------
(***************************************************************************)
(* Small instances of MasterCycle for TLC.  The process instances are      *)
(* interchangeable: every CreateProcess takes any unused one.              *)
(***************************************************************************)
EXTENDS MasterCycle, TLC

ProcSymmetry == Permutations(Procs)
=============================================================================
