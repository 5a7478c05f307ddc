-------------------------------- MODULE Slab --------------------------------
(***************************************************************************)
(* The slab allocator of a shared memory zone (core/ngx_slab.c): a pool of *)
(* N pages whose descriptors are linked into one list of free runs and,    *)
(* for every chunk size, a list of the pages that still have a free chunk. *)
(*                                                                         *)
(* A call runs under the pool's mutex (module ShmMutex), so each action is *)
(* one whole call.  Sizes are abstracted to what the code computes from    *)
(* them first: a request larger than half a page is a number of pages, a   *)
(* smaller one is a slot.  The low bits of a descriptor's prev (the page   *)
(* type) and the shift kept in its slab word are the variable "type"; the  *)
(* bitmap, wherever the size class keeps it, is the variable "map".        *)
(***************************************************************************)
EXTENDS Integers, FiniteSets

CONSTANTS
  N,         \* pages of the pool
  Slots,     \* the chunk sizes, each with its list head
  Chunks,    \* Chunks[s]: chunks of size s in a page
  Reserved,  \* Reserved[s]: chunks at the page's start that hold its bitmap
  Exact,     \* the slot whose bitmap fills the slab word
  FREE,      \* head of the list of free runs
  PAGE,      \* type of a page that is not divided into chunks
  NULL

Page == 0 .. N - 1
Node == Page \union Slots \union {FREE}

(***************************************************************************)
(* Half a page is the largest chunk and the bitmap of the smallest sizes   *)
(* takes a few chunks of many: a new page has room for two at least.       *)
(***************************************************************************)
ASSUME SlabAssumption ==
  /\ N \in Nat \ {0}
  /\ Reserved \in [Slots -> Nat]
  /\ Chunks \in [Slots -> Nat]
  /\ \A s \in Slots : Reserved[s] + 2 <= Chunks[s]
  /\ FREE \notin Slots /\ PAGE \notin Slots /\ NULL \notin Slots
  /\ FREE # NULL
  /\ \A p \in Page : p \notin Slots /\ p # FREE /\ p # NULL

ChunksOf(s)   == 0 .. Chunks[s] - 1
ReservedOf(s) == 0 .. Reserved[s] - 1
Usable(s)     == Chunks[s] - Reserved[s]

\* Values of the slab word of an undivided page: 0 inside a free run, n at the
\* head of a free run of n pages, Start(n) at the head of an allocated run,
\* BUSY inside one.
Start(n) == N + n
BUSY     == 2 * N + 1

VARIABLES
  slab,   \* slab word of an undivided page
  type,   \* PAGE, or the slot of the chunks the page is divided into
  map,    \* busy chunks of a divided page, the bitmap's own included
  next,   \* list links of the pages and of the list heads; the last page of
  prev,   \*   a free run of several points back to the run's head by prev
  pfree,  \* pool->pfree
  total,  \* stats[slot].total
  used,   \* stats[slot].used
  runs,   \* <<p, n>>: page runs the callers hold
  chunks  \* <<p, c, s>>: chunks the callers hold

vars == <<slab, type, map, next, prev, pfree, total, used, runs, chunks>>
Links == [next |-> next, prev |-> prev]

TypeOK ==
  /\ slab \in [Page -> 0 .. 2 * N + 1]
  /\ type \in [Page -> Slots \union {PAGE}]
  /\ map \in [Page -> SUBSET Nat]
  /\ next \in [Node -> Node \union {NULL}]
  /\ prev \in [Node -> Node \union {NULL}]
  /\ pfree \in 0 .. N
  /\ total \in [Slots -> Nat]
  /\ used \in [Slots -> Nat]
  /\ runs \subseteq Page \X (1 .. N)
  /\ chunks \subseteq Page \X Nat \X Slots

Init ==
  /\ slab = [p \in Page |-> IF p = 0 THEN N ELSE 0]
  /\ type = [p \in Page |-> PAGE]
  /\ map = [p \in Page |-> {}]
  /\ next = [x \in Node |-> IF x = 0 THEN FREE
                            ELSE IF x = FREE THEN 0
                            ELSE IF x \in Slots THEN x ELSE NULL]
  /\ prev = [x \in Node |-> IF x = 0 THEN FREE ELSE NULL]
  /\ pfree = N
  /\ total = [s \in Slots |-> 0]
  /\ used = [s \in Slots |-> 0]
  /\ runs = {}
  /\ chunks = {}

-----------------------------------------------------------------------------
(* The doubly linked lists.  l is a record of both links.                  *)

Unlink(l, x) ==
  [next |-> [l.next EXCEPT ![l.prev[x]] = l.next[x]],
   prev |-> [l.prev EXCEPT ![l.next[x]] = l.prev[x]]]

Push(l, x, head) ==
  [next |-> [l.next EXCEPT ![x] = l.next[head], ![head] = x],
   prev |-> [l.prev EXCEPT ![x] = head, ![l.next[head]] = x]]

Detach(l, P) ==
  [next |-> [x \in Node |-> IF x \in P THEN NULL ELSE l.next[x]],
   prev |-> [x \in Node |-> IF x \in P THEN NULL ELSE l.prev[x]]]

\* The nodes met by following next from a list head.
Walk(head) ==
  LET w[i \in 0 .. N] == IF i = 0 THEN head ELSE next[w[i - 1]] IN w

\* The positions of a walk that the loop of ngx_slab_alloc_pages() gets past.
Passed(w, n, i) == \A j \in 1 .. i : w[j] \in Page /\ slab[w[j]] < n

\* Mutant: a run of exactly the requested length is passed over.
MutFitsStrict(n) ==
  LET w == Walk(FREE)
  IN {w[i] : i \in {j \in 1 .. N : /\ Passed(w, n + 1, j - 1)
                                   /\ w[j] \in Page /\ slab[w[j]] > n}}

\* The free run that ngx_slab_alloc_pages() takes n pages of, if any.
Fits(n) ==
  LET w == Walk(FREE)
  IN {w[i] : i \in {j \in 1 .. N : /\ Passed(w, n, j - 1)
                                   /\ w[j] \in Page /\ slab[w[j]] >= n}}

\* The links after a run of n pages is cut from the free run at p.
Carve(l, p, n) ==
  LET rest == p + n
      last == p + slab[p] - 1
      cut  == IF slab[p] > n
              THEN [next |-> [l.next EXCEPT ![rest] = l.next[p],
                                            ![l.prev[p]] = rest],
                    prev |-> [l.prev EXCEPT ![last] = rest,
                                            ![rest] = l.prev[p],
                                            ![l.next[p]] = rest]]
              ELSE Unlink(l, p)
  IN Detach(cut, p .. p + n - 1)

\* Mutant: the last page of the allocated run is not marked busy.
MutCarvedSlabUnmarked(p, n) ==
  [q \in Page |-> IF q = p THEN Start(n)
                  ELSE IF q \in p + 1 .. p + n - 2 THEN BUSY
                  ELSE IF q = p + n /\ slab[p] > n THEN slab[p] - n
                  ELSE slab[q]]

\* Mutant: the rest of a split run is counted one page too short.
MutCarvedSlabShort(p, n) ==
  [q \in Page |-> IF q = p THEN Start(n)
                  ELSE IF q \in p + 1 .. p + n - 1 THEN BUSY
                  ELSE IF q = p + n /\ slab[p] > n THEN slab[p] - n - 1
                  ELSE slab[q]]

\* The slab words after it.
CarvedSlab(p, n) ==
  [q \in Page |-> IF q = p THEN Start(n)
                  ELSE IF q \in p + 1 .. p + n - 1 THEN BUSY
                  ELSE IF q = p + n /\ slab[p] > n THEN slab[p] - n
                  ELSE slab[q]]

-----------------------------------------------------------------------------
(* ngx_slab_alloc() of more than half a page.                              *)
AllocRun(n) ==
  /\ \E p \in Fits(n) :
       LET l == Carve(Links, p, n)
       IN /\ slab' = CarvedSlab(p, n)
          /\ next' = l.next
          /\ prev' = l.prev
          /\ pfree' = pfree - n
          /\ runs' = runs \union {<<p, n>>}
  /\ UNCHANGED <<type, map, total, used, chunks>>

\* Mutant: only the first bit after the bitmap's own is tested.
MutFirstBitOnly(s) == IF next[s] = s THEN FALSE ELSE Reserved[s] \notin map[next[s]]

\* Only the first page of the slot's list is looked at.
ListHasChunk(s) == IF next[s] = s THEN FALSE ELSE map[next[s]] # ChunksOf(s)

\* The first free chunk of the first page of the slot's list; a page that is
\* full now leaves the list.
AllocListed(s) ==
  LET p    == next[s]
      c    == CHOOSE i \in ChunksOf(s) \ map[p] :
                \A j \in ChunksOf(s) \ map[p] : i <= j
      full == map[p] \union {c} = ChunksOf(s)
      l    == IF full THEN Detach(Unlink(Links, p), {p}) ELSE Links
  IN /\ ListHasChunk(s)
     /\ map' = [map EXCEPT ![p] = @ \union {c}]
     /\ next' = l.next
     /\ prev' = l.prev
     /\ used' = [used EXCEPT ![s] = @ + 1]
     /\ chunks' = chunks \union {<<p, c, s>>}
     /\ UNCHANGED <<slab, type, pfree, total, runs>>

\* No page of the slot has a free chunk: a new page is divided.  Its slab word
\* is overwritten in the code; nobody reads it while the page is divided.
AllocNewPage(s) ==
  /\ ~ ListHasChunk(s)
  /\ \E p \in Fits(1) :
       LET l == Carve(Links, p, 1)
       IN /\ slab' = CarvedSlab(p, 1)
          /\ type' = [type EXCEPT ![p] = s]
          /\ map' = [map EXCEPT ![p] = 0 .. Reserved[s]]
          /\ next' = [l.next EXCEPT ![p] = s, ![s] = p]
          /\ prev' = [l.prev EXCEPT ![p] = s]
          /\ pfree' = pfree - 1
          /\ chunks' = chunks \union {<<p, Reserved[s], s>>}
  /\ total' = [total EXCEPT ![s] = @ + Usable(s)]
  /\ used' = [used EXCEPT ![s] = @ + 1]
  /\ UNCHANGED runs

-----------------------------------------------------------------------------
(***************************************************************************)
(* ngx_slab_free_pages(): the n pages at p become a free run, joined with  *)
(* the free run behind it and with the one before it, and put first in the *)
(* list.  The page before p is inside a free run when its slab word is 0,  *)
(* and is then the run's last, whose prev points to the run's head.        *)
(***************************************************************************)
Listed(l, q) == type[q] = PAGE /\ l.next[q] # NULL

\* Mutant: the head of the run before is not looked up.
MutHeadOfItself(l, q) == q

HeadOf(l, q) == IF slab[q] = 0 THEN l.prev[q] ELSE q

FreePages(l, p, n) ==
  LET own   == IF l.next[p] # NULL THEN Unlink(l, p) ELSE l
      after == p + n
      fwd   == after < N /\ Listed(own, after)
      l1    == IF fwd THEN Detach(Unlink(own, after), {after}) ELSE own
      bwd   == p > 0 /\ type[p - 1] = PAGE /\ l1.next[HeadOf(l1, p - 1)] # NULL
      head  == IF bwd THEN HeadOf(l1, p - 1) ELSE p
      l2    == IF bwd THEN Detach(Unlink(l1, head), {p}) ELSE l1
      size  == n + (IF fwd THEN slab[after] ELSE 0)
                 + (IF bwd THEN slab[head] ELSE 0)
      l3    == Push([l2 EXCEPT !.prev[head + size - 1] = head], head, FREE)
  IN /\ slab' = [q \in Page |->
                   IF q = head THEN size
                   ELSE IF q \in p .. p + n - 1 \/ (fwd /\ q = after) THEN 0
                   ELSE slab[q]]
     /\ next' = l3.next
     /\ prev' = l3.prev
     /\ pfree' = pfree + n

\* ngx_slab_free() of an undivided page: the run's length is its slab word's.
FreeRun(p, n) ==
  /\ <<p, n>> \in runs
  /\ type[p] = PAGE
  /\ slab[p] >= N
  /\ slab[p] # BUSY
  /\ FreePages(Links, p, slab[p] - N)
  /\ runs' = runs \ {<<p, n>>}
  /\ UNCHANGED <<type, map, total, used, chunks>>

\* ngx_slab_free() of a chunk: a page that was full goes first in its slot's
\* list; a page with no chunk left busy but the bitmap's is released.
FreeChunk(p, c, s) ==
  LET slot  == type[p]
      full  == IF slot = Exact THEN map[p] = ChunksOf(slot) ELSE next[p] = NULL
      l     == IF full THEN Push(Links, p, slot) ELSE Links
      left  == map[p] \ {c}
      empty == left \subseteq ReservedOf(slot)
  IN /\ <<p, c, s>> \in chunks
     /\ slot # PAGE
     /\ c \in map[p]
     /\ IF empty
        THEN /\ FreePages(l, p, 1)
             /\ type' = [type EXCEPT ![p] = PAGE]
             /\ map' = [map EXCEPT ![p] = {}]
             /\ total' = [total EXCEPT ![slot] = @ - Usable(slot)]
        ELSE /\ map' = [map EXCEPT ![p] = left]
             /\ next' = l.next
             /\ prev' = l.prev
             /\ UNCHANGED <<slab, type, pfree, total>>
     /\ used' = [used EXCEPT ![slot] = @ - 1]
     /\ chunks' = chunks \ {<<p, c, s>>}
     /\ UNCHANGED runs

Next ==
  \/ \E n \in 1 .. N : AllocRun(n)
  \/ \E s \in Slots : AllocListed(s) \/ AllocNewPage(s)
  \/ \E b \in runs : FreeRun(b[1], b[2])
  \/ \E b \in chunks : FreeChunk(b[1], b[2], b[3])

Spec == Init /\ [][Next]_vars

-----------------------------------------------------------------------------
\* The pages of a run of n at p.
Span(p, n) == p .. p + n - 1
FreeHeads  == {p \in Page : type[p] = PAGE /\ slab[p] \in 1 .. N}
FreePageSet == UNION {Span(p, slab[p]) : p \in FreeHeads}

(***************************************************************************)
(* Memory handed to two callers never overlaps, and a caller's memory is   *)
(* never divided under it or counted as free: a run is marked over its     *)
(* whole length, a chunk is busy in a page divided for its size.           *)
(***************************************************************************)
NoOverlap ==
  /\ \A b \in runs :
       /\ \A q \in Span(b[1], b[2]) : q \in Page /\ type[q] = PAGE
       /\ slab[b[1]] = Start(b[2])
       /\ \A q \in Span(b[1] + 1, b[2] - 1) : slab[q] = BUSY
  /\ \A b \in chunks : /\ type[b[1]] = b[3]
                       /\ b[2] \in map[b[1]] \ ReservedOf(b[3])
  /\ \A s \in Slots : used[s] = Cardinality({b \in chunks : b[3] = s})

(***************************************************************************)
(* Nothing leaks: every page is in a free run, in a run somebody holds, or *)
(* divided, and then its bitmap marks the held chunks and its own only;    *)
(* and the counters of the pool say the same.                              *)
(***************************************************************************)
NoLeak ==
  /\ \A p \in Page :
       IF type[p] = PAGE
       THEN p \in FreePageSet \/ \E b \in runs : p \in Span(b[1], b[2])
       ELSE map[p] = ReservedOf(type[p]) \union
                       {b[2] : b \in {x \in chunks : x[1] = p}}
  /\ pfree = Cardinality(FreePageSet)
  /\ \A s \in Slots :
       total[s] = Usable(s) * Cardinality({p \in Page : type[p] = s})

(***************************************************************************)
(* The free runs are disjoint, no two of them touch, so a released page    *)
(* is always joined with the free memory beside it; each is linked both    *)
(* ways with its neighbours in the list, and the last page of each, unless *)
(* it is the pool's last, leads back to its head: the join with the run    *)
(* before a released page finds the head by it.                            *)
(***************************************************************************)
FreeRunsJoined ==
  /\ \A p \in FreeHeads :
       /\ \A q \in Span(p + 1, slab[p] - 1) :
            q \in Page /\ type[q] = PAGE /\ slab[q] = 0 /\ next[q] = NULL
       /\ p + slab[p] \notin FreeHeads
       /\ slab[p] > 1 /\ p + slab[p] < N => prev[p + slab[p] - 1] = p
       /\ next[p] \in FreeHeads \union {FREE} /\ prev[p] \in FreeHeads \union {FREE}
       /\ next[prev[p]] = p
       /\ next[p] # FREE => prev[next[p]] = p

\* The pages of a slot's list, which is circular.
OnSlotList(s) == {Walk(s)[i] : i \in 1 .. N} \ {s}

(***************************************************************************)
(* A request fails only for want of room: whenever n pages in a row are    *)
(* free, the search through the list of free runs stops at one place for   *)
(* them; and a slot's list has exactly the pages of the slot with a free   *)
(* chunk, so a page is divided only when all others of the slot are full.  *)
(***************************************************************************)
RoomIsFound ==
  /\ \A n \in 1 .. N :
       (\E p \in Page : Span(p, n) \subseteq FreePageSet)
         <=> Cardinality(Fits(n)) = 1
  /\ \A s \in Slots :
       OnSlotList(s) = {p \in Page : type[p] = s /\ map[p] # ChunksOf(s)}

(***************************************************************************)
(* The calls keep the promises of Allocator.                               *)
(***************************************************************************)
Promised == INSTANCE Allocator

\* Words, bitmaps and lists implement an allocator: every call hands out memory
\* nobody holds or takes back what its caller held, and a page is divided only
\* when the slot's others are full.
ImplementsAllocator == Promised!Spec
=============================================================================
