------------------------------ MODULE Allocator ------------------------------
(***************************************************************************)
(* What an allocator of a pool of N pages promises its callers: a run of   *)
(* pages or a chunk is handed out only from memory nobody holds; a page    *)
(* has chunks of one size, and is divided only when every page of that     *)
(* size is full; a page whose last chunk came back can be part of a run    *)
(* again; and "used" tells how many chunks of a size are out.  Slab        *)
(* implements this specification.                                          *)
(***************************************************************************)
EXTENDS Integers

CONSTANTS
  N,         \* pages of the pool
  Slots,     \* the chunk sizes
  Chunks,    \* Chunks[s]: chunks of size s in a page,
  Reserved   \* Reserved[s]: of which so many are not for callers

VARIABLES
  runs,      \* <<p, n>>: the n pages at p that a caller holds
  chunks,    \* <<p, c, s>>: the chunk c of size s, in page p, that a caller holds
  used       \* used[s]: chunks of size s that callers hold

vars == <<runs, chunks, used>>

Init == runs = {} /\ chunks = {} /\ used = [s \in Slots |-> 0]

InRun(q)  == \E b \in runs : q \in b[1] .. b[1] + b[2] - 1
Vacant(q) == ~ InRun(q) /\ \A b \in chunks : b[1] # q

ForCallers(s) == Reserved[s] .. Chunks[s] - 1
Full(q, s)    == \A c \in ForCallers(s) : <<q, c, s>> \in chunks

AllocRun(n) ==
  /\ \E p \in 0 .. N - n :
       /\ \A q \in p .. p + n - 1 : Vacant(q)
       /\ runs' = runs \union {<<p, n>>}
  /\ UNCHANGED <<chunks, used>>

\* A page that has chunks of this size and no other,
Begun(p, s) ==
  /\ ~ Vacant(p) /\ ~ InRun(p)
  /\ \A b \in chunks : b[1] = p => b[3] = s

\* or a new one, when the others are full.
Fresh(p, s) ==
  /\ Vacant(p)
  /\ \A b \in chunks : b[3] = s => Full(b[1], s)

AllocChunk(s) ==
  /\ \E p \in 0 .. N - 1, c \in ForCallers(s) :
       /\ Begun(p, s) \/ Fresh(p, s)
       /\ <<p, c, s>> \notin chunks
       /\ chunks' = chunks \union {<<p, c, s>>}
  /\ used' = [used EXCEPT ![s] = @ + 1]
  /\ UNCHANGED runs

FreeRun(b) ==
  /\ b \in runs
  /\ runs' = runs \ {b}
  /\ UNCHANGED <<chunks, used>>

FreeChunk(b) ==
  /\ b \in chunks
  /\ chunks' = chunks \ {b}
  /\ used' = [used EXCEPT ![b[3]] = @ - 1]
  /\ UNCHANGED runs

Next ==
  \/ \E n \in 1 .. N : AllocRun(n)
  \/ \E s \in Slots : AllocChunk(s)
  \/ \E b \in runs : FreeRun(b)
  \/ \E b \in chunks : FreeChunk(b)

Spec == Init /\ [][Next]_vars
=============================================================================
