----------------------------- MODULE MCFileCache -----------------------------
(***************************************************************************)
(* A small instance of FileCache for TLC: a location with a cache lock and *)
(* one without that stores only what is asked for twice.                   *)
(***************************************************************************)
EXTENDS FileCache, TLC

MCLocations == {[min |-> 1, lock |-> "on"], [min |-> 2, lock |-> "off"]}

Symmetry == Permutations(Requests) \union Permutations(Keys) \union Permutations(Node)
=============================================================================
