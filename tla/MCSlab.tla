------------------------------- MODULE MCSlab -------------------------------
(* A pool of a few pages and two chunk sizes: one that keeps its bitmap in  *)
(* the page and one that keeps it in the slab word.                         *)
EXTENDS Slab

CONSTANTS small, exact

MCSlots    == {small, exact}
MCChunks   == [s \in MCSlots |-> IF s = small THEN 3 ELSE 2]
MCReserved == [s \in MCSlots |-> IF s = small THEN 1 ELSE 0]
=============================================================================
