----------------------------- MODULE SlabProofs -----------------------------
(***************************************************************************)
(* Proofs about Slab, for every number of pages and every set of chunk     *)
(* sizes with two usable chunks in a page at least.                        *)
(***************************************************************************)
EXTENDS SlabLists, FiniteSetTheorems

-----------------------------------------------------------------------------
(***************************************************************************)
(* The inductive invariant.                                                *)
(***************************************************************************)

\* A run that is held is marked over its whole length,
Marked(b) ==
  /\ b[1] + b[2] <= N
  /\ \A q \in Span(b[1], b[2]) : type[q] = PAGE
  /\ slab[b[1]] = Start(b[2])
  /\ \A q \in Span(b[1] + 1, b[2] - 1) : slab[q] = BUSY
RunsMarked == \A b \in runs : Marked(b)

\* a free one too, and no other free one follows it,
FreeMarked ==
  \A p \in FreeHeads :
    /\ p + slab[p] <= N
    /\ \A q \in Span(p + 1, slab[p] - 1) : type[q] = PAGE /\ slab[q] = 0
    /\ p + slab[p] \notin FreeHeads

\* and its last page leads to its head.
BackLinks ==
  \A p \in FreeHeads :
    slab[p] > 1 /\ p + slab[p] < N => prev[p + slab[p] - 1] = p

\* Pages that are not divided are free or held.
Covered ==
  \A p \in Page : type[p] = PAGE =>
    p \in FreePageSet \/ \E b \in runs : p \in Span(b[1], b[2])

\* The bitmap of a divided page has the held chunks and its own.
HeldIn(p) == {b[2] : b \in {x \in chunks : x[1] = p}}
Divided ==
  /\ \A p \in Page : type[p] # PAGE => map[p] = ReservedOf(type[p]) \union HeldIn(p)
  /\ \A b \in chunks : type[b[1]] = b[3] /\ b[2] \in ChunksOf(b[3]) \ ReservedOf(b[3])

HeldOf(s)  == {b \in chunks : b[3] = s}
PagesOf(s) == {p \in Page : type[p] = s}
Counted ==
  /\ IsFiniteSet(chunks)
  /\ pfree = Cardinality(FreePageSet)
  /\ \A s \in Slots : /\ used[s] = Cardinality(HeldOf(s))
                      /\ total[s] = Usable(s) * Cardinality(PagesOf(s))

\* The pages of a slot with a free chunk.
Avail == [s \in Slots |-> {p \in Page : type[p] = s /\ map[p] # ChunksOf(s)}]

IInv ==
  /\ TypeOK /\ RunsMarked /\ FreeMarked /\ BackLinks /\ Covered /\ Divided /\ Counted
  /\ Lists(Links, FreeHeads, Avail, {})

-----------------------------------------------------------------------------
(***************************************************************************)
(* The words of the pages.                                                 *)
(***************************************************************************)

\* Where free pages are, and that free runs do not overlap.
LEMMA FreePlaces ==
  ASSUME TypeOK, FreeMarked
  PROVE  /\ FreeHeads \subseteq FreePageSet /\ FreePageSet \subseteq Page
         /\ \A p \in FreeHeads : /\ p \in 0 .. N - 1 /\ slab[p] \in 1 .. N
                                 /\ Span(p, slab[p]) \subseteq FreePageSet
         /\ \A q \in FreePageSet : /\ type[q] = PAGE /\ slab[q] \in 0 .. N
                                   /\ slab[q] # 0 => q \in FreeHeads
                                   /\ \E p \in FreeHeads : q \in Span(p, slab[p])
         /\ \A p, h \in FreeHeads : \A q \in Span(p, slab[p]) :
              q \in Span(h, slab[h]) => p = h
  <1>1. ASSUME NEW p \in FreeHeads
        PROVE  /\ p \in 0 .. N - 1 /\ slab[p] \in 1 .. N /\ p \in Span(p, slab[p])
               /\ Span(p, slab[p]) \subseteq FreePageSet
               /\ Span(p, slab[p]) \subseteq Page
               /\ \A q \in Span(p, slab[p]) :
                    type[q] = PAGE /\ (q = p \/ slab[q] = 0) 
    <2>1. p \in 0 .. N - 1 /\ slab[p] \in 1 .. N /\ type[p] = PAGE
      BY DEF FreeHeads, Page
    <2>2. Span(p, slab[p]) \subseteq FreePageSet
      BY DEF FreePageSet
    <2>3. Span(p, slab[p]) \subseteq Page
      BY <2>1, SlabAssumption DEF FreeMarked, Span, Page
    <2>4. \A q \in Span(p, slab[p]) : q = p \/ q \in Span(p + 1, slab[p] - 1)
      BY <2>1, SlabAssumption DEF Span
    <2>5. \A q \in Span(p, slab[p]) : type[q] = PAGE /\ (q = p \/ slab[q] = 0)
      BY <2>1, <2>4 DEF FreeMarked
    <2> QED
      BY <2>1, <2>2, <2>3, <2>5, SlabAssumption DEF Span
  <1>2. ASSUME NEW q \in FreePageSet
        PROVE  /\ type[q] = PAGE /\ slab[q] \in 0 .. N /\ q \in Page
               /\ slab[q] # 0 => q \in FreeHeads
               /\ \E p \in FreeHeads : q \in Span(p, slab[p])
    <2>1. PICK p \in FreeHeads : q \in Span(p, slab[p])
      BY DEF FreePageSet
    <2>2. type[q] = PAGE /\ (q = p \/ slab[q] = 0) /\ q \in Page
      BY <1>1, <2>1
    <2> QED
      BY <1>1, <2>1, <2>2, SlabAssumption
  <1>3. ASSUME NEW p \in FreeHeads, NEW h \in FreeHeads, NEW q \in Span(p, slab[p]),
               q \in Span(h, slab[h])
        PROVE  p = h
    <2>1. /\ p \in 0 .. N - 1 /\ h \in 0 .. N - 1 /\ slab[p] \in 1 .. N /\ slab[h] \in 1 .. N
      BY <1>1
    <2>2. CASE p < h
      <3>1. h \in Span(p, slab[p])
        BY <1>3, <2>1, <2>2, SlabAssumption DEF Span
      <3> QED
        BY <1>1, <2>1, <2>2, <3>1
    <2>3. CASE h < p
      <3>1. p \in Span(h, slab[h])
        BY <1>3, <2>1, <2>3, SlabAssumption DEF Span
      <3> QED
        BY <1>1, <2>1, <2>3, <3>1
    <2> QED
      BY <2>1, <2>2, <2>3, SlabAssumption
  <1> QED
    BY <1>1, <1>2, <1>3

\* A page that is held is not free, and its word says so.
LEMMA HeldPlaces ==
  ASSUME TypeOK, RunsMarked, FreeMarked, Covered
  PROVE  /\ \A b \in runs : /\ b = <<b[1], b[2]>> /\ b[1] \in 0 .. N - 1 /\ b[2] \in 1 .. N
                            /\ \A q \in Span(b[1], b[2]) :
                                 q \in Page /\ slab[q] > N /\ q \notin FreePageSet
         /\ \A q \in Page : type[q] = PAGE /\ slab[q] <= N => q \in FreePageSet
  <1>1. ASSUME NEW b \in runs
        PROVE  /\ b = <<b[1], b[2]>> /\ b[1] \in 0 .. N - 1 /\ b[2] \in 1 .. N
               /\ \A q \in Span(b[1], b[2]) : q \in Page /\ slab[q] > N
    <2>1. b = <<b[1], b[2]>> /\ b[1] \in 0 .. N - 1 /\ b[2] \in 1 .. N
      BY DEF TypeOK, Page
    <2>2. ASSUME NEW q \in Span(b[1], b[2]) PROVE q \in Page /\ slab[q] > N
      <3>1. b[1] + b[2] <= N /\ slab[b[1]] = N + b[2]
        BY DEF RunsMarked, Marked, Start
      <3>2. q \in Page
        BY <2>1, <3>1, SlabAssumption DEF Span, Page
      <3>3. CASE q = b[1]
        BY <2>1, <3>1, <3>2, <3>3, SlabAssumption
      <3>4. CASE q # b[1]
        <4>1. q \in Span(b[1] + 1, b[2] - 1)
          BY <2>1, <3>4, SlabAssumption DEF Span
        <4>2. slab[q] = 2 * N + 1
          BY <4>1 DEF RunsMarked, Marked, BUSY
        <4> QED
          BY <3>2, <4>2, SlabAssumption
      <3> QED
        BY <3>3, <3>4
    <2> QED
      BY <2>1, <2>2
  <1>2. \A q \in FreePageSet : slab[q] \in 0 .. N
    BY FreePlaces
  <1>3. ASSUME NEW b \in runs, NEW q \in Span(b[1], b[2]) PROVE q \notin FreePageSet
    BY <1>1, <1>2, SlabAssumption
  <1>4. ASSUME NEW q \in Page, type[q] = PAGE, slab[q] <= N PROVE q \in FreePageSet
    <2>1. slab[q] \in 0 .. 2 * N + 1
      BY DEF TypeOK
    <2> QED
      BY <1>1, <1>4, <2>1, SlabAssumption DEF Covered
  <1> QED
    BY <1>1, <1>3, <1>4

-----------------------------------------------------------------------------
(***************************************************************************)
(* ngx_slab_free_pages().                                                  *)
(***************************************************************************)

\* A region that is not free becomes a free run of the whole place between the
\* held or divided pages around it.
LEMMA JoinedWords ==
  ASSUME TypeOK, FreeMarked,
         NEW p \in Page, NEW n \in 1 .. N, p + n <= N,
         \A q \in Span(p, n) : q \notin FreePageSet,
         NEW head \in Page,
         p - 1 \in FreePageSet => head \in FreeHeads /\ head + slab[head] = p,
         p - 1 \notin FreePageSet => head = p,
         NEW size,
         size = n + (IF p + n \in FreeHeads THEN slab[p + n] ELSE 0)
                  + (IF p - 1 \in FreePageSet THEN slab[head] ELSE 0),
         slab' = [q \in Page |->
                    IF q = head THEN size
                    ELSE IF q \in p .. p + n - 1 \/ (p + n \in FreeHeads /\ q = p + n) THEN 0
                    ELSE slab[q]],
         type' = [q \in Page |-> IF q \in Span(p, n) THEN PAGE ELSE type[q]]
  PROVE  /\ size \in n .. N /\ head + size <= N /\ head <= p /\ p + n <= head + size
         /\ FreeHeads' = (FreeHeads \ {p + n}) \union {head}
         /\ FreeMarked'
         /\ FreePageSet' = FreePageSet \union Span(p, n)
         /\ slab' \in [Page -> 0 .. 2 * N + 1]
         /\ slab'[head] = size
         /\ \A q \in FreeHeads : q # p + n /\ q # head => slab'[q] = slab[q]
         /\ \A q \in Page : q \notin FreePageSet \union Span(p, n) => slab'[q] = slab[q]
         /\ \A q \in head .. head + size - 1 :
              \/ q \in FreePageSet /\ (q = head \/ q = p + n \/ q \notin FreeHeads)
              \/ q \in Span(p, n)
  <1> DEFINE after == p + n
             F == FreeHeads
             fwd == after \in F
             bwd == p - 1 \in FreePageSet
             R == head .. head + size - 1
             FN == (F \ {after}) \union {head}
  <1>a. N \in Nat \ {0}
    BY SlabAssumption
  <1>b. p \in 0 .. N - 1 /\ head \in 0 .. N - 1 /\ n \in 1 .. N /\ after \in 1 .. N
    BY <1>a DEF Page
  <1>1. /\ \A h \in F : /\ h \in 0 .. N - 1 /\ slab[h] \in 1 .. N /\ h + slab[h] <= N
                        /\ h + slab[h] \notin F /\ Span(h, slab[h]) \subseteq FreePageSet
        /\ F \subseteq FreePageSet /\ FreePageSet \subseteq Page
        /\ \A q \in FreePageSet : /\ type[q] = PAGE /\ slab[q] \in 0 .. N
                                  /\ slab[q] # 0 => q \in F
                                  /\ \E h \in F : q \in Span(h, slab[h])
        /\ \A h, k \in F : \A q \in Span(h, slab[h]) : q \in Span(k, slab[k]) => h = k
    BY FreePlaces DEF FreeMarked
  <1>2. /\ size \in n .. N /\ head + size <= N /\ head <= p /\ after <= head + size
        /\ fwd => head + size = after + slab[after]
        /\ ~ fwd => head + size = after
        /\ bwd => head # p
        /\ fwd => after \in 0 .. N - 1
    <2>1. fwd => slab[after] \in 1 .. N /\ after + slab[after] <= N /\ after \in 0 .. N - 1
      BY <1>1
    <2>2. bwd => slab[head] \in 1 .. N /\ head + slab[head] = p
      BY <1>1
    <2>3. CASE fwd /\ bwd
      BY <1>a, <1>b, <2>1, <2>2, <2>3
    <2>4. CASE fwd /\ ~ bwd
      BY <1>a, <1>b, <2>1, <2>4
    <2>5. CASE ~ fwd /\ bwd
      BY <1>a, <1>b, <2>2, <2>5
    <2>6. CASE ~ fwd /\ ~ bwd
      BY <1>a, <1>b, <2>6
    <2> QED
      BY <2>3, <2>4, <2>5, <2>6
  \* The region is made of the three parts.
  <1>3. \A q \in R : \/ bwd /\ q \in Span(head, slab[head])
                     \/ q \in Span(p, n)
                     \/ fwd /\ q \in Span(after, slab[after])
    <2> SUFFICES ASSUME NEW q \in R
                 PROVE  \/ bwd /\ q \in Span(head, slab[head])
                        \/ q \in Span(p, n)
                        \/ fwd /\ q \in Span(after, slab[after])
      OBVIOUS
    <2>1. q \in Int /\ head <= q /\ q < head + size
      BY <1>a, <1>b, <1>2
    <2>2. CASE q < p
      <3>1. bwd
        BY <1>b, <2>1, <2>2
      <3>2. slab[head] \in 1 .. N /\ head + slab[head] = p
        BY <1>1, <3>1
      <3> QED
        BY <1>b, <2>1, <2>2, <3>1, <3>2 DEF Span
    <2>3. CASE p <= q /\ q < after
      BY <1>b, <2>1, <2>3 DEF Span
    <2>4. CASE after <= q
      <3>1. fwd
        BY <1>b, <1>2, <2>1, <2>4
      <3>2. slab[after] \in 1 .. N /\ head + size = after + slab[after]
        BY <1>1, <1>2, <3>1
      <3> QED
        BY <1>b, <2>1, <2>4, <3>1, <3>2 DEF Span
    <2> QED
      BY <1>b, <2>1, <2>2, <2>3, <2>4
  <1>4. /\ Span(p, n) \subseteq R
        /\ bwd => Span(head, slab[head]) \subseteq R
        /\ fwd => Span(after, slab[after]) \subseteq R
        /\ R \subseteq Page
    <2>1. Span(p, n) \subseteq R
      BY <1>a, <1>b, <1>2 DEF Span
    <2>2. bwd => Span(head, slab[head]) \subseteq R
      <3>1. bwd => slab[head] \in 1 .. N /\ head + slab[head] = p
        BY <1>1
      <3> QED
        BY <1>a, <1>b, <1>2, <3>1 DEF Span
    <2>3. fwd => Span(after, slab[after]) \subseteq R
      <3>1. fwd => slab[after] \in 1 .. N
        BY <1>1
      <3> QED
        BY <1>a, <1>b, <1>2, <3>1 DEF Span
    <2>4. R \subseteq Page
      BY <1>a, <1>b, <1>2 DEF Page
    <2> QED
      BY <2>1, <2>2, <2>3, <2>4
  \* The words in it.
  <1>5. \A q \in R : /\ \/ q \in FreePageSet /\ (q = head \/ q = after \/ q \notin F)
                        \/ q \in Span(p, n)
                     /\ type'[q] = PAGE
                     /\ q # head => slab'[q] = 0
    <2> SUFFICES ASSUME NEW q \in R
                 PROVE  /\ \/ q \in FreePageSet /\ (q = head \/ q = after \/ q \notin F)
                           \/ q \in Span(p, n)
                        /\ type'[q] = PAGE
                        /\ q # head => slab'[q] = 0
      OBVIOUS
    <2>0. q \in Page
      BY <1>4
    <2>1. CASE bwd /\ q \in Span(head, slab[head])
      <3>1. q \in FreePageSet /\ (q \in F => q = head)
        <4>1. q \in FreePageSet
          BY <1>1, <2>1
        <4>2. ASSUME q \in F PROVE q = head
          <5>1. q \in Span(q, slab[q])
            BY <1>1, <1>a, <4>2 DEF Span
          <5> QED
            BY <1>1, <2>1, <4>2, <5>1
        <4> QED
          BY <4>1, <4>2
      <3>2. q # head => slab[q] = 0
        BY <1>1, <3>1
      <3>3. type[q] = PAGE
        BY <1>1, <3>1
      <3> QED
        BY <2>0, <3>1, <3>2, <3>3
    <2>2. CASE q \in Span(p, n)
      BY <2>0, <2>2 DEF Span
    <2>3. CASE fwd /\ q \in Span(after, slab[after])
      <3>1. q \in FreePageSet /\ (q \in F => q = after)
        <4>1. q \in FreePageSet
          BY <1>1, <2>3
        <4>2. ASSUME q \in F PROVE q = after
          <5>1. q \in Span(q, slab[q])
            BY <1>1, <1>a, <4>2 DEF Span
          <5> QED
            BY <1>1, <2>3, <4>2, <5>1
        <4> QED
          BY <4>1, <4>2
      <3>2. q # after => slab[q] = 0
        BY <1>1, <3>1
      <3>3. type[q] = PAGE
        BY <1>1, <3>1
      <3> QED
        BY <2>0, <2>3, <3>1, <3>2, <3>3
    <2> QED
      BY <1>3, <2>1, <2>2, <2>3
  \* The words around it.
  <1>6. \A q \in Page \ R : type'[q] = type[q] /\ slab'[q] = slab[q]
    <2>1. fwd => after \in R
      BY <1>a, <1>b, <1>1, <1>4 DEF Span
    <2> QED
      BY <1>4, <1>b, <2>1 DEF Span
  <1>7. slab'[head] = size
    BY <1>b
  <1>8. \A h \in F : h \in R => h = after \/ h = head
    <2> SUFFICES ASSUME NEW h \in F, h \in R PROVE h = after \/ h = head
      OBVIOUS
    <2>1. h \in FreePageSet
      BY <1>1
    <2> QED
      BY <1>5, <2>1
  <1>9. FreeHeads' = FN
    <2>0. FreeHeads' = {q \in Page : type'[q] = PAGE /\ slab'[q] \in 1 .. N}
      BY DEF FreeHeads
    <2>1. ASSUME NEW q \in Page, q \in R
          PROVE  (type'[q] = PAGE /\ slab'[q] \in 1 .. N) <=> q \in FN
      <3>1. CASE q = head
        <4>1. size \in 1 .. N
          BY <1>2, <1>a, <1>b
        <4>2. type'[q] = PAGE /\ slab'[q] = size
          BY <1>5, <1>7, <2>1, <3>1
        <4> QED
          BY <3>1, <4>1, <4>2
      <3>2. CASE q # head
        BY <1>5, <1>8, <2>1, <3>2
      <3> QED
        BY <3>1, <3>2
    <2>2. ASSUME NEW q \in Page, q \notin R
          PROVE  (type'[q] = PAGE /\ slab'[q] \in 1 .. N) <=> q \in FN
      <3>1. q # head
        BY <1>2, <1>a, <1>b, <2>2
      <3>2. q = after => q \notin F
        <4>1. fwd => after \in R
          BY <1>a, <1>b, <1>1, <1>4 DEF Span
        <4> QED
          BY <2>2, <4>1
      <3>3. q \in F <=> type[q] = PAGE /\ slab[q] \in 1 .. N
        BY DEF FreeHeads
      <3> QED
        BY <1>6, <2>2, <3>1, <3>2, <3>3
    <2>3. FN \subseteq Page
      BY <1>1
    <2> QED
      BY <2>0, <2>1, <2>2, <2>3
  \* A free run other than the joined ones is apart from the region.
  <1>10. ASSUME NEW h \in FN, h # head
         PROVE  /\ h \in F /\ h # after /\ h \notin R /\ slab'[h] = slab[h]
                /\ \A q \in Span(h, slab[h]) : q \notin R /\ q \in Page
    <2>1. h \in F /\ h # after /\ h \notin R
      BY <1>8, <1>10
    <2>2. slab'[h] = slab[h]
      BY <1>1, <1>6, <2>1
    <2>3. ASSUME NEW q \in Span(h, slab[h]), q \in R PROVE FALSE
      <3>1. q \in FreePageSet
        BY <1>1, <2>1, <2>3
      <3>2. q \notin Span(p, n)
        BY <3>1
      <3> QED
        BY <1>1, <1>3, <1>10, <2>1, <2>3, <3>2
    <2> QED
      BY <1>1, <2>1, <2>2, <2>3
  <1> HIDE DEF F, R, FN, after
  <1>11. FreePageSet' = FreePageSet \union Span(p, n)
    <2>0. FreePageSet' = UNION {Span(h, slab'[h]) : h \in FN}
      BY <1>9 DEF FreePageSet, Span
    <2>1. ASSUME NEW h \in FN PROVE Span(h, slab'[h]) \subseteq FreePageSet \union Span(p, n)
      <3>1. CASE h = head
        <4>1. Span(h, slab'[h]) = R
          BY <1>7, <3>1 DEF Span, R
        <4> QED
          BY <1>5, <4>1 DEF after, F
      <3>2. CASE h # head
        BY <1>1, <1>10, <3>2 DEF F
      <3> QED
        BY <3>1, <3>2
    <2>2. ASSUME NEW q \in FreePageSet \union Span(p, n)
          PROVE  \E h \in FN : q \in Span(h, slab'[h])
      <3>0. head \in FN /\ Span(head, slab'[head]) = R
        BY <1>7 DEF Span, R, FN
      <3>1. CASE q \in R
        BY <3>0, <3>1
      <3>2. CASE q \notin R
        <4>1. q \in FreePageSet
          BY <1>4, <3>2
        <4>2. PICK h \in F : q \in Span(h, slab[h])
          BY <1>1, <4>1 DEF F
        <4>3. h # head
          <5>1. ASSUME h = head PROVE FALSE
            <6>1. bwd
              <7>1. h = p => p \in FreePageSet
                BY <1>1, <4>2 DEF F
              <7>2. p \in Span(p, n)
                BY <1>a, <1>b DEF Span
              <7> QED
                BY <5>1, <7>1, <7>2
            <6> QED
              BY <1>4, <3>2, <4>2, <5>1, <6>1
          <5> QED
            BY <5>1
        <4>4. h # after
          <5>1. h = after => fwd
            BY <4>2 DEF F, after
          <5> QED
            BY <1>4, <3>2, <4>2, <5>1 DEF after
        <4>5. h \in FN
          BY <4>2, <4>4 DEF FN
        <4> QED
          BY <1>10, <4>2, <4>3, <4>5
      <3> QED
        BY <3>1, <3>2
    <2> QED
      BY <2>0, <2>1, <2>2
  <1>12. FreeMarked'
    <2> SUFFICES ASSUME NEW h \in FN
                 PROVE  /\ h + slab'[h] <= N
                        /\ \A q \in Span(h + 1, slab'[h] - 1) : type'[q] = PAGE /\ slab'[q] = 0
                        /\ h + slab'[h] \notin FN
      BY <1>9 DEF FreeMarked, Span
    <2>1. CASE h = head
      <3>1. \A q \in Span(h + 1, slab'[h] - 1) : q \in R /\ q # head
        BY <1>7, <1>2, <1>a, <1>b, <2>1 DEF Span, R
      <3>2. head + size \notin FN
        <4>1. head + size # head
          BY <1>2, <1>a, <1>b
        <4>2. CASE fwd
          BY <1>1, <1>2, <4>1, <4>2 DEF F, FN, after
        <4>3. CASE ~ fwd
          BY <1>2, <4>1, <4>3 DEF FN, after, F
        <4> QED
          BY <4>2, <4>3
      <3> QED
        BY <1>2, <1>5, <1>7, <2>1, <3>1, <3>2
    <2>2. CASE h # head
      <3>1. /\ h \in F /\ h # after /\ slab'[h] = slab[h]
            /\ \A q \in Span(h, slab[h]) : q \notin R /\ q \in Page
            /\ h \in 0 .. N - 1 /\ slab[h] \in 1 .. N
        BY <1>1, <1>10, <2>2 DEF F
      <3>2. \A q \in Span(h + 1, slab[h] - 1) : type[q] = PAGE /\ slab[q] = 0
                                                /\ q \in Span(h, slab[h])
        BY <1>a, <3>1 DEF Span, FreeMarked, F
      <3>3. \A q \in Span(h + 1, slab[h] - 1) : type'[q] = PAGE /\ slab'[q] = 0
        BY <1>6, <3>1, <3>2
      <3>4. h + slab[h] \notin F /\ h + slab[h] <= N
        BY <1>1, <3>1 DEF F
      <3>5. h + slab[h] # head
        <4> SUFFICES ASSUME h + slab[h] = head PROVE FALSE
          OBVIOUS
        <4>1. ~ bwd
          BY <3>4 DEF F
        <4>2. head = p /\ p - 1 \in Span(h, slab[h])
          BY <1>a, <1>b, <3>1, <4>1 DEF Span
        <4>3. p - 1 \in FreePageSet
          BY <1>1, <3>1, <4>2 DEF F
        <4> QED
          BY <4>1, <4>3
      <3> QED
        BY <3>1, <3>3, <3>4, <3>5 DEF FN
    <2> QED
      BY <2>1, <2>2
  <1>13. slab' \in [Page -> 0 .. 2 * N + 1]
    <2>1. size \in 0 .. 2 * N + 1
      BY <1>2, <1>a, <1>b
    <2> QED
      BY <2>1, <1>a DEF TypeOK
  <1>14. \A q \in FreeHeads : q # p + n /\ q # head => slab'[q] = slab[q]
    BY <1>10 DEF F, FN, after
  <1>15. \A q \in Page : q \notin FreePageSet \union Span(p, n) => slab'[q] = slab[q]
    <2>1. \A q \in R : q \in FreePageSet \union Span(p, n)
      BY <1>5
    <2> QED
      BY <1>6, <2>1
  <1> QED
    BY <1>2, <1>5, <1>7, <1>9, <1>11, <1>12, <1>13, <1>14, <1>15 DEF FN, F, after, R

\* ngx_slab_free_pages() finds both neighbours by the links and leaves the lists
\* whole, for a page in a slot's list or in none.
LEMMA FreePagesEffect ==
  ASSUME TypeOK, FreeMarked, BackLinks,
         NEW l, NEW A, Apart(FreeHeads, A), Lists(l, FreeHeads, A, {}),
         \A s \in Slots : \A q \in A[s] : type[q] = s,
         \A q \in FreePageSet \ FreeHeads : l.prev[q] = prev[q],
         \A q \in Page : type[q] = PAGE /\ slab[q] <= N => q \in FreePageSet,
         NEW p \in Page, NEW n \in 1 .. N, p + n <= N,
         \A q \in Span(p, n) : q \notin FreePageSet,
         \A s \in Slots : \A q \in Span(p + 1, n - 1) : q \notin A[s],
         FreePages(l, p, n),
         type' = [q \in Page |-> IF q \in Span(p, n) THEN PAGE ELSE type[q]]
  PROVE  LET B == [s \in Slots |-> A[s] \ {p}]
         IN /\ FreeMarked' /\ BackLinks'
            /\ slab' \in [Page -> 0 .. 2 * N + 1]
            /\ FreePageSet' = FreePageSet \union Span(p, n)
            /\ pfree' = pfree + n
            /\ \A q \in Page : q \notin FreePageSet \union Span(p, n) => slab'[q] = slab[q]
            /\ Apart(FreeHeads', B)
            /\ Lists(Links', FreeHeads', B, {})
  <1> DEFINE F == FreeHeads
             B == [s \in Slots |-> A[s] \ {p}]
             after == p + n
             own == IF l.next[p] # NULL THEN Unlink(l, p) ELSE l
             fwd == after < N /\ Listed(own, after)
             l1 == IF fwd THEN Detach(Unlink(own, after), {after}) ELSE own
             bwd == p > 0 /\ type[p - 1] = PAGE /\ l1.next[HeadOf(l1, p - 1)] # NULL
             head == IF bwd THEN HeadOf(l1, p - 1) ELSE p
             l2 == IF bwd THEN Detach(Unlink(l1, head), {p}) ELSE l1
             size == n + (IF fwd THEN slab[after] ELSE 0)
                       + (IF bwd THEN slab[head] ELSE 0)
             l25 == [l2 EXCEPT !.prev[head + size - 1] = head]
             l3 == Push(l25, head, FREE)
  <1>0. /\ slab' = [q \in Page |->
                      IF q = head THEN size
                      ELSE IF q \in p .. p + n - 1 \/ (fwd /\ q = after) THEN 0
                      ELSE slab[q]]
        /\ next' = l3.next /\ prev' = l3.prev /\ pfree' = pfree + n
    BY DEF FreePages
  <1>a. N \in Nat \ {0}
    BY SlabAssumption
  <1>b. p \in 0 .. N - 1 /\ n \in 1 .. N /\ after \in 1 .. N /\ p \in Span(p, n)
    BY <1>a DEF Page, Span
  <1>c. /\ \A h \in F : /\ h \in 0 .. N - 1 /\ slab[h] \in 1 .. N /\ h + slab[h] <= N
                        /\ h + slab[h] \notin F /\ Span(h, slab[h]) \subseteq FreePageSet
        /\ F \subseteq FreePageSet /\ FreePageSet \subseteq Page
        /\ \A q \in FreePageSet : /\ type[q] = PAGE /\ slab[q] \in 0 .. N
                                  /\ slab[q] # 0 => q \in F
                                  /\ \E h \in F : q \in Span(h, slab[h])
        /\ \A h, k \in F : \A q \in Span(h, slab[h]) : q \in Span(k, slab[k]) => h = k
    BY FreePlaces DEF FreeMarked
  <1>d. /\ NULL \notin Node /\ F \subseteq Node /\ Page \subseteq Node /\ FREE \in Node
        /\ Slots \subseteq Node /\ PAGE \notin Slots
    BY <1>c, NodesDiffer, SlabAssumption DEF ListHead
  <1>e. /\ F \in SUBSET Page /\ p \notin F /\ B \in [Slots -> SUBSET Page]
        /\ \A s \in Slots : B[s] = A[s] \ {p} /\ A[s] \in SUBSET Page
        /\ Apart(F, B)
    BY <1>b, <1>c DEF Apart
  <1> HIDE DEF F, B, own, fwd, l1, bwd, head, l2, size, l25, l3
  \* The page is in no list now.
  <1>1. /\ Lists(own, F, B, {p}) /\ \A q \in Page : (\A s \in Slots : q \notin A[s]) =>
             own.next[q] = l.next[q] /\ own.prev[q] = l.prev[q]
    <2>1. CASE \E t \in Slots : p \in A[t]
      <3>1. PICK t \in Slots : p \in A[t]
        BY <2>1
      <3>2. [A EXCEPT ![t] = @ \ {p}] = B
        <4>1. \A s \in Slots : s # t => A[s] \ {p} = A[s]
          BY <3>1 DEF Apart
        <4>2. A \in [Slots -> SUBSET Page]
          BY DEF Apart
        <4> QED
          BY <4>1, <4>2 DEF B
      <3>3. l.next[p] \in A[t] \union {t}
        BY <3>1 DEF Lists, List, Neighbours
      <3>4. own = Unlink(l, p)
        BY <1>d, <1>e, <3>3 DEF own
      <3>5. /\ Lists(own, F, B, {} \union {p})
            /\ SamePages(l, own, A[t])
        <4>1. {} \in SUBSET Page
          OBVIOUS
        <4>2. LET C == [A EXCEPT ![t] = @ \ {p}]
              IN /\ Lists(Unlink(l, p), F, C, {} \union {p})
                 /\ SamePages(l, Unlink(l, p), A[t])
          BY <3>1, <4>1, ListsUnlinkSlot DEF F
        <4> QED
          BY <3>2, <3>4, <4>2
      <3> QED
        BY <3>5 DEF SamePages
    <2>2. CASE ~ \E t \in Slots : p \in A[t]
      <3>1. l.next[p] = NULL
        BY <1>e, <2>2 DEF Lists, F
      <3>2. own = l
        BY <3>1 DEF own
      <3>3. B = A
        <4>1. A \in [Slots -> SUBSET Page]
          BY DEF Apart
        <4> QED
          BY <4>1, <2>2 DEF B
      <3> QED
        BY <3>2, <3>3 DEF Lists, F
    <2> QED
      BY <2>1, <2>2
  <1>f. \A q \in Page : type[q] = PAGE => \A s \in Slots : q \notin A[s] /\ q \notin B[s]
    BY <1>d, <1>e
  \* The run behind it.
  <1>2. fwd <=> after \in F
    <2>1. ASSUME after \in F PROVE fwd
      <3>1. after \in Page /\ type[after] = PAGE /\ after < N
        BY <1>a, <1>b, <1>c, <2>1
      <3>2. own.next[after] \in F \union {FREE}
        BY <1>1, <2>1 DEF Lists, List, Neighbours
      <3> QED
        BY <1>d, <3>1, <3>2 DEF fwd, Listed
    <2>2. ASSUME fwd PROVE after \in F
      <3>1. after \in Page /\ type[after] = PAGE /\ own.next[after] # NULL /\ after # p
        BY <1>a, <1>b, <2>2 DEF fwd, Listed, Page
      <3> QED
        BY <1>1, <1>f, <3>1 DEF Lists
    <2> QED
      BY <2>1, <2>2
  <1>3. /\ Lists(l1, F \ {after}, B, {p}) /\ Apart(F \ {after}, B)
        /\ \A q \in Page \ F : (\A s \in Slots : q \notin A[s]) =>
             l1.next[q] = l.next[q] /\ l1.prev[q] = l.prev[q]
    <2>1. CASE after \in F
      <3>1. l1 = Detach(Unlink(own, after), {after})
        BY <1>2, <2>1 DEF l1
      <3>2. /\ Lists(Unlink(own, after), F \ {after}, B, {p} \union {after})
            /\ Apart(F \ {after}, B) /\ SamePages(own, Unlink(own, after), F)
        <4>1. {p} \in SUBSET Page
          OBVIOUS
        <4> QED
          BY ONLY <4>1, <1>1, <1>e, <2>1, ListsUnlinkFree
      <3>3. {p} \union {after} \in SUBSET Page /\ {after} \in SUBSET Page
        BY <1>c, <2>1
      <3>4. {after} \intersect (F \ {after}) = {} /\ \A s \in Slots : {after} \intersect B[s] = {}
        BY <1>c, <1>f, <2>1
      <3>5. /\ Lists(l1, F \ {after}, B, ({p} \union {after}) \ {after})
            /\ SamePages(Unlink(own, after), l1, {after})
        BY ONLY <3>1, <3>2, <3>3, <3>4, ListsDetach
      <3>6. ({p} \union {after}) \ {after} = {p}
        BY <1>e, <2>1
      <3>7. Lists(l1, F \ {after}, B, {p})
        BY <3>5, <3>6
      <3> QED
        BY <1>1, <2>1, <3>2, <3>5, <3>7 DEF SamePages
    <2>2. CASE after \notin F
      <3>1. l1 = own /\ F \ {after} = F
        BY <1>2, <2>2 DEF l1
      <3> QED
        BY <1>1, <1>e, <3>1
    <2> QED
      BY <2>1, <2>2
  \* The run before it.
  <1>4. /\ bwd <=> p - 1 \in FreePageSet
        /\ bwd => head \in F /\ head + slab[head] = p /\ head # after
        /\ ~ bwd => head = p
        /\ head \in Page
    <2>1. ASSUME p - 1 \in FreePageSet
          PROVE  bwd /\ head \in F /\ head + slab[head] = p /\ head # after
      <3>1. PICK h \in F : p - 1 \in Span(h, slab[h])
        BY <1>c, <2>1
      <3>2. h \in 0 .. N - 1 /\ slab[h] \in 1 .. N /\ h + slab[h] <= N
        BY <1>c
      <3>3. h + slab[h] = p
        <4>1. p - 1 >= h /\ p - 1 < h + slab[h]
          BY <1>b, <3>1, <3>2 DEF Span
        <4>2. p \notin Span(h, slab[h])
          BY <1>b, <1>c
        <4>3. ~ (p < h + slab[h])
          BY <1>b, <3>2, <4>1, <4>2 DEF Span
        <4> QED
          BY <1>b, <3>2, <4>1, <4>3
      <3>4. p > 0 /\ type[p - 1] = PAGE /\ p - 1 \in Page /\ p < N
        BY <1>a, <1>b, <1>c, <2>1, <3>2, <3>3
      <3>5. HeadOf(l1, p - 1) = h
        <4>1. CASE slab[h] = 1
          <5>1. p - 1 = h
            BY <3>2, <3>3, <4>1
          <5> QED
            BY <3>2, <5>1 DEF HeadOf
        <4>2. CASE slab[h] > 1
          <5>1. p - 1 \in Span(h + 1, slab[h] - 1) /\ p - 1 = h + slab[h] - 1
            BY <1>b, <3>2, <3>3, <4>2 DEF Span
          <5>2. slab[p - 1] = 0
            BY <5>1 DEF FreeMarked, F
          <5>3. prev[p - 1] = h
            BY <3>3, <3>4, <4>2, <5>1 DEF BackLinks, F
          <5>4. p - 1 \notin F
            BY <1>c, <5>2
          <5>5. l1.prev[p - 1] = l.prev[p - 1]
            BY <1>3, <1>f, <3>4, <5>4
          <5>6. l.prev[p - 1] = prev[p - 1]
            BY <2>1, <5>4 DEF F
          <5> QED
            BY <5>2, <5>3, <5>5, <5>6 DEF HeadOf
        <4> QED
          BY <3>2, <4>1, <4>2
      <3>6. h # after
        BY <1>b, <3>2, <3>3
      <3>7. l1.next[h] \in F \union {FREE}
        BY <1>3, <3>6 DEF Lists, List, Neighbours
      <3>8. bwd
        BY <1>d, <3>4, <3>5, <3>7 DEF bwd
      <3> QED
        BY <3>3, <3>5, <3>6, <3>8 DEF head
    <2>2. ASSUME bwd PROVE p - 1 \in FreePageSet
      <3>1. p > 0 /\ p - 1 \in Page /\ type[p - 1] = PAGE
            /\ l1.next[HeadOf(l1, p - 1)] # NULL
        BY <1>a, <1>b, <2>2 DEF bwd, Page
      <3>2. CASE slab[p - 1] <= N
        BY <3>1, <3>2
      <3>3. CASE ~ (slab[p - 1] <= N)
        <4>1. HeadOf(l1, p - 1) = p - 1
          BY <1>a, <3>3 DEF HeadOf
        <4>2. p - 1 # p
          BY <1>b
        <4>3. p - 1 \in F
          BY <1>3, <1>f, <3>1, <4>1, <4>2 DEF Lists
        <4> QED
          BY <1>c, <4>3
      <3> QED
        BY <3>2, <3>3
    <2>3. ~ bwd => head = p
      BY DEF head
    <2> QED
      BY <1>e, <2>1, <2>2, <2>3
  <1>5. /\ Lists(l2, (F \ {after}) \ {head}, B, {head}) /\ Apart((F \ {after}) \ {head}, B)
        /\ \A q \in Page \ F : (\A s \in Slots : q \notin A[s]) /\ q # p =>
             l2.prev[q] = l.prev[q]
    <2>1. CASE bwd
      <3>1. l2 = Detach(Unlink(l1, head), {p}) /\ head \in F \ {after}
        BY <1>4, <2>1 DEF l2
      <3>2. /\ Lists(Unlink(l1, head), (F \ {after}) \ {head}, B, {p} \union {head})
            /\ Apart((F \ {after}) \ {head}, B)
            /\ SamePages(l1, Unlink(l1, head), F \ {after})
        <4>1. {p} \in SUBSET Page
          OBVIOUS
        <4> QED
          BY ONLY <4>1, <1>3, <3>1, ListsUnlinkFree
      <3>3. {p} \union {head} \in SUBSET Page /\ {p} \in SUBSET Page
        BY <1>4
      <3>4. {p} \intersect ((F \ {after}) \ {head}) = {} /\ \A s \in Slots : {p} \intersect B[s] = {}
        BY <1>e
      <3>5. /\ Lists(l2, (F \ {after}) \ {head}, B, ({p} \union {head}) \ {p})
            /\ SamePages(Unlink(l1, head), l2, {p})
        BY ONLY <3>1, <3>2, <3>3, <3>4, ListsDetach
      <3>6. ({p} \union {head}) \ {p} = {head}
        BY <1>e, <3>1
      <3>7. Lists(l2, (F \ {after}) \ {head}, B, {head})
        BY <3>5, <3>6
      <3> QED
        BY <1>3, <3>2, <3>5, <3>7 DEF SamePages
    <2>2. CASE ~ bwd
      <3>1. l2 = l1 /\ head = p /\ (F \ {after}) \ {head} = F \ {after}
        BY <1>4, <1>e, <2>2 DEF l2
      <3> QED
        BY <1>3, <3>1
    <2> QED
      BY <2>1, <2>2
  \* The words.
  <1>6. /\ size \in n .. N /\ head + size <= N /\ head <= p /\ p + n <= head + size
        /\ FreeHeads' = (F \ {after}) \union {head}
        /\ FreeMarked'
        /\ FreePageSet' = FreePageSet \union Span(p, n)
        /\ slab' \in [Page -> 0 .. 2 * N + 1]
        /\ slab'[head] = size
        /\ \A q \in F : q # after /\ q # head => slab'[q] = slab[q]
        /\ \A q \in Page : q \notin FreePageSet \union Span(p, n) => slab'[q] = slab[q]
        /\ \A q \in head .. head + size - 1 :
              \/ q \in FreePageSet /\ (q = head \/ q = after \/ q \notin F)
              \/ q \in Span(p, n)
    <2>1. size = n + (IF p + n \in FreeHeads THEN slab[p + n] ELSE 0)
                   + (IF p - 1 \in FreePageSet THEN slab[head] ELSE 0)
      BY <1>2, <1>4 DEF size, F
    <2>2. /\ p - 1 \in FreePageSet => head \in FreeHeads /\ head + slab[head] = p
          /\ p - 1 \notin FreePageSet => head = p
      BY <1>4 DEF F
    <2>3. slab' = [q \in Page |->
                    IF q = head THEN size
                    ELSE IF q \in p .. p + n - 1 \/ (p + n \in FreeHeads /\ q = p + n) THEN 0
                    ELSE slab[q]]
      BY <1>0, <1>2 DEF F
    <2>4. head \in Page
      BY <1>4
    <2> HIDE DEF after
    <2>6. /\ size \in n .. N /\ head + size <= N /\ head <= p /\ p + n <= head + size
          /\ FreeHeads' = (FreeHeads \ {p + n}) \union {head}
          /\ FreeMarked'
          /\ FreePageSet' = FreePageSet \union Span(p, n)
          /\ slab' \in [Page -> 0 .. 2 * N + 1]
          /\ slab'[head] = size
          /\ \A q \in FreeHeads : q # p + n /\ q # head => slab'[q] = slab[q]
          /\ \A q \in Page : q \notin FreePageSet \union Span(p, n) => slab'[q] = slab[q]
          /\ \A q \in head .. head + size - 1 :
                \/ q \in FreePageSet /\ (q = head \/ q = p + n \/ q \notin FreeHeads)
                \/ q \in Span(p, n)
      BY <2>1, <2>2, <2>3, <2>4, JoinedWords
    <2> QED
      BY <2>6 DEF F, after
  \* The last page of the run leads to its head, and the run is put first.
  <1> DEFINE last == head + size - 1
  <1>7. /\ last \in Page /\ last \in head .. head + size - 1
        /\ last # head <=> size > 1
    BY <1>6, <1>4, <1>a, <1>b DEF Page
  <1>8. last \notin (F \ {after}) \ {head} /\ \A s \in Slots : last \notin B[s]
    <2>1. \/ last \in FreePageSet /\ (last = head \/ last = after \/ last \notin F)
          \/ last \in Span(p, n)
      BY <1>6, <1>7
    <2>2. CASE last \in FreePageSet /\ (last = head \/ last = after \/ last \notin F)
      BY <1>c, <1>f, <1>7, <2>2
    <2>3. CASE last \in Span(p, n)
      <3>1. last \notin F
        BY <1>c, <2>3
      <3>2. last = p \/ last \in Span(p + 1, n - 1)
        BY <1>a, <1>b, <2>3 DEF Span
      <3> QED
        BY <1>e, <3>1, <3>2
    <2> QED
      BY <2>1, <2>2, <2>3
  <1>9. /\ Lists(l25, (F \ {after}) \ {head}, B, {head})
        /\ l25.prev[last] = head /\ SamePages(l2, l25, {last})
    <2>1. {head} \in SUBSET Page /\ head \in Page
      BY <1>4
    <2>2. l25 = [l2 EXCEPT !.prev[last] = head]
      BY DEF l25
    <2> HIDE DEF last, after
    <2>3. /\ Lists([l2 EXCEPT !.prev[last] = head], (F \ {after}) \ {head}, B, {head})
          /\ [l2 EXCEPT !.prev[last] = head].prev[last] = head
          /\ SamePages(l2, [l2 EXCEPT !.prev[last] = head], {last})
      <3> DEFINE G == (F \ {after}) \ {head}
      <3>1. Apart(G, B) /\ Lists(l2, G, B, {head}) /\ last \in Page /\ last \notin G
        BY <1>5, <1>7, <1>8
      <3>2. \A s \in Slots : last \notin B[s]
        BY <1>8
      <3> HIDE DEF G
      <3>3. /\ Lists([l2 EXCEPT !.prev[last] = head], G, B, {head})
            /\ [l2 EXCEPT !.prev[last] = head].prev[last] = head
            /\ SamePages(l2, [l2 EXCEPT !.prev[last] = head], {last})
        BY ONLY <3>1, <3>2, <2>1, ListsSetPrev
      <3> QED
        BY <3>3 DEF G
    <2> QED
      BY <2>2, <2>3
  <1>10. head \notin (F \ {after}) \ {head} /\ \A s \in Slots : head \notin B[s]
    BY <1>c, <1>e, <1>f, <1>4
  <1>11. /\ Lists(l3, (F \ {after}) \union {head}, B, {})
         /\ Apart((F \ {after}) \union {head}, B)
         /\ \A q \in Page : q \notin F \ {after} /\ q # head => l3.prev[q] = l25.prev[q]
    <2>1. {head} \in SUBSET Page /\ head \in Page /\ {head} \ {head} = {}
          /\ ((F \ {after}) \ {head}) \union {head} = (F \ {after}) \union {head}
      BY <1>4
    <2>2. l3 = Push(l25, head, FREE)
      BY DEF l3
    <2> DEFINE G == (F \ {after}) \ {head}
    <2>3. Apart(G, B) /\ Lists(l25, G, B, {head}) /\ head \notin G
      BY <1>5, <1>9, <1>10
    <2> HIDE DEF G
    <2>4. /\ Lists(l3, G \union {head}, B, {head} \ {head})
          /\ Apart(G \union {head}, B)
          /\ SamePages(l25, l3, G \union {head})
      BY <1>10, <2>1, <2>2, <2>3, ListsPushFree
    <2> QED
      BY <2>1, <2>4 DEF G, SamePages
  <1>12. Links' = l3
    <2>1. l3 = [next |-> l3.next, prev |-> l3.prev]
      BY <1>11 DEF Lists, LinkFields
    <2> QED
      BY <1>0, <2>1 DEF Links
  <1>13. BackLinks'
    <2> SUFFICES ASSUME NEW h \in FreeHeads', slab'[h] > 1, h + slab'[h] < N
                 PROVE  prev'[h + slab'[h] - 1] = h
      BY DEF BackLinks
    <2>1. CASE h = head
      <3>1. h + slab'[h] - 1 = last /\ last # head /\ last \in Page
        BY <1>6, <1>7, <2>1
      <3>2. last \notin F \ {after}
        BY <1>8, <3>1
      <3> QED
        BY <1>9, <1>11, <1>12, <2>1, <3>1, <3>2, <1>0
    <2>2. CASE h # head
      <3>1. h \in F /\ h # after /\ slab'[h] = slab[h] /\ slab[h] \in 1 .. N /\ h \in 0 .. N - 1
        BY <1>6, <1>c, <2>2
      <3> DEFINE e == h + slab[h] - 1
      <3>2. e \in Span(h + 1, slab[h] - 1) /\ e \in Span(h, slab[h])
        BY <1>a, <3>1 DEF Span
      <3>3. slab[e] = 0 /\ e \in FreePageSet /\ e \notin F /\ e \in Page
        BY <1>c, <3>1, <3>2 DEF FreeMarked, F
      <3>4. prev[e] = h
        BY <3>1 DEF BackLinks, F
      <3>5. e # p /\ e # head /\ \A s \in Slots : e \notin A[s]
        <4>1. e # p
          BY <1>b, <3>3
        <4>2. e # head
          BY <1>4, <3>3, <4>1
        <4>3. type[e] = PAGE
          BY <1>c, <3>3
        <4> QED
          BY <1>f, <3>3, <4>1, <4>2, <4>3
      <3>6. e # last
        <4>1. h \in FreeHeads' /\ head \in FreeHeads'
          BY <1>6, <2>2
        <4>2. e \in Span(h, slab[h]) /\ last \in Span(head, slab'[head])
          BY <1>6, <1>7, <3>2 DEF Span
        <4>3. ASSUME e = last PROVE FALSE
          <5>1. e \notin Span(p, n)
            BY <3>3
          <5>2. CASE after \in F
            <6>1. slab[after] \in 1 .. N /\ after + slab[after] = head + size
              <7>1. slab[after] \in 1 .. N
                BY <1>c, <5>2
              <7>2. CASE bwd
                BY <1>2, <1>4, <1>a, <1>b, <1>c, <5>2, <7>1, <7>2 DEF size
              <7>3. CASE ~ bwd
                BY <1>2, <1>4, <1>a, <1>b, <5>2, <7>1, <7>3 DEF size
              <7> QED
                BY <7>1, <7>2, <7>3
            <6>2. last \in Span(after, slab[after])
              <7>1. last = after + slab[after] - 1 /\ after \in Nat /\ slab[after] \in Nat
                <8>1. head \in Nat /\ size \in Nat /\ after \in Nat /\ slab[after] \in Nat
                  BY <1>a, <1>b, <1>4, <1>6, <6>1 DEF Page
                <8> HIDE DEF head, size, after
                <8> QED
                  BY <6>1, <8>1
              <7> HIDE DEF last, after
              <7> QED
                BY <6>1, <7>1 DEF Span
            <6> QED
              <7>1. last \in Span(h, slab[h]) /\ h \in F /\ h # after
                BY <3>1, <3>2, <4>3
              <7> HIDE DEF last, e, after
              <7> QED
                BY <1>c, <5>2, <6>2, <7>1
          <5>3. CASE after \notin F
            <6>1. last = after - 1
              <7>1. CASE bwd
                <8>1. slab[head] \in 1 .. N /\ head \in 0 .. N - 1 /\ head + slab[head] = p
                  BY <1>4, <1>c, <7>1
                <8> QED
                  BY <1>2, <1>a, <1>b, <5>3, <7>1, <8>1 DEF size
              <7>2. CASE ~ bwd
                BY <1>2, <1>4, <1>a, <1>b, <5>3, <7>2 DEF size
              <7> QED
                BY <7>1, <7>2
            <6> QED
              BY <1>b, <4>3, <5>1, <6>1 DEF Span
          <5> QED
            BY <5>2, <5>3
        <4> QED
          BY <4>3
      <3>7. l3.prev[e] = l25.prev[e] /\ l25.prev[e] = l2.prev[e] /\ l2.prev[e] = l.prev[e]
        BY <1>5, <1>9, <1>11, <3>3, <3>5, <3>6 DEF SamePages
      <3>8. l.prev[e] = prev[e]
        BY <3>3 DEF F
      <3> QED
        BY <1>0, <3>1, <3>4, <3>7, <3>8
    <2> QED
      BY <2>1, <2>2
  <1> QED
    BY <1>0, <1>6, <1>11, <1>12, <1>13 DEF B, F

-----------------------------------------------------------------------------
(***************************************************************************)
(* ngx_slab_alloc_pages().                                                 *)
(***************************************************************************)

\* The words after n pages are cut from a free run.
LEMMA CarvedWords ==
  ASSUME TypeOK, FreeMarked, NEW p \in FreeHeads, NEW n \in 1 .. N, n <= slab[p],
         slab' = CarvedSlab(p, n), \A q \in Page : q # p => type'[q] = type[q]
  PROVE  /\ FreeHeads' = (FreeHeads \ {p}) \union
                           (IF slab[p] > n THEN {p + n} ELSE {})
         /\ FreeMarked'
         /\ FreePageSet' = FreePageSet \ Span(p, n)
         /\ Span(p, n) \subseteq FreePageSet
         /\ slab' \in [Page -> 0 .. 2 * N + 1]
         /\ slab'[p] = Start(n) /\ \A q \in Span(p + 1, n - 1) : slab'[q] = BUSY
         /\ \A q \in Page \ FreePageSet : slab'[q] = slab[q]
         /\ \A h \in FreeHeads : h # p => slab'[h] = slab[h]
         /\ slab[p] > n => slab'[p + n] = slab[p] - n /\ p + n \in FreePageSet \ FreeHeads
  <1> DEFINE F == FreeHeads
             rest == p + n
             more == slab[p] > n
             FN == (F \ {p}) \union (IF more THEN {rest} ELSE {})
             S == Span(p, slab[p])
  <1>a. N \in Nat \ {0}
    BY SlabAssumption
  <1>1. /\ \A h \in F : /\ h \in 0 .. N - 1 /\ slab[h] \in 1 .. N /\ h + slab[h] <= N
                        /\ h + slab[h] \notin F /\ Span(h, slab[h]) \subseteq FreePageSet
        /\ F \subseteq FreePageSet /\ FreePageSet \subseteq Page
        /\ \A q \in FreePageSet : /\ type[q] = PAGE /\ slab[q] \in 0 .. N
                                  /\ slab[q] # 0 => q \in F
                                  /\ \E h \in F : q \in Span(h, slab[h])
        /\ \A h, k \in F : \A q \in Span(h, slab[h]) : q \in Span(k, slab[k]) => h = k
    BY FreePlaces DEF FreeMarked
  <1>b. /\ p \in 0 .. N - 1 /\ slab[p] \in 1 .. N /\ p + slab[p] <= N /\ n \in 1 .. N
        /\ n <= slab[p] /\ p \in F /\ p \in Page
    BY <1>1
  <1>2. /\ Span(p, n) \subseteq S /\ S \subseteq FreePageSet /\ S \subseteq Page
        /\ more => rest \in S /\ rest # p
        /\ \A q \in S : q # p => slab[q] = 0 /\ q \notin F
    <2>1. Span(p, n) \subseteq S
      BY <1>a, <1>b DEF Span
    <2>2. more => rest \in S /\ rest # p
      BY <1>a, <1>b DEF Span
    <2>3. ASSUME NEW q \in S, q # p PROVE slab[q] = 0 /\ q \notin F
      <3>1. q \in Span(p + 1, slab[p] - 1)
        BY <1>a, <1>b, <2>3 DEF Span
      <3>2. slab[q] = 0
        BY <1>b, <3>1 DEF FreeMarked
      <3> QED
        BY <1>1, <3>2
    <2> QED
      BY <1>1, <1>b, <2>1, <2>2, <2>3
  <1>3. /\ slab'[p] = N + n
        /\ \A q \in Span(p + 1, n - 1) : slab'[q] = 2 * N + 1 /\ q \in S /\ q # p
        /\ more => slab'[rest] = slab[p] - n
        /\ \A q \in Page : q \notin Span(p, n) /\ ~ (more /\ q = rest) => slab'[q] = slab[q]
    <2>1. \A q \in Page : slab'[q] = IF q = p THEN N + n
                                     ELSE IF q \in p + 1 .. p + n - 1 THEN 2 * N + 1
                                     ELSE IF q = p + n /\ slab[p] > n THEN slab[p] - n
                                     ELSE slab[q]
      BY DEF CarvedSlab, Start, BUSY
    <2>2. slab'[p] = N + n
      BY <1>b, <2>1
    <2>3. ASSUME NEW q \in Span(p + 1, n - 1) PROVE slab'[q] = 2 * N + 1 /\ q \in S /\ q # p
      <3>1. q \in p + 1 .. p + n - 1 /\ q # p /\ q \in S
        BY <1>a, <1>b, <2>3 DEF Span
      <3> QED
        BY <1>2, <2>1, <3>1
    <2>4. more => slab'[rest] = slab[p] - n
      <3>1. more => rest \in Page /\ rest # p /\ rest \notin p + 1 .. p + n - 1
        BY <1>a, <1>b, <1>2
      <3> QED
        BY <2>1, <3>1
    <2>5. ASSUME NEW q \in Page, q \notin Span(p, n), ~ (more /\ q = rest)
          PROVE  slab'[q] = slab[q]
      <3>1. q # p /\ q \notin p + 1 .. p + n - 1
        BY <1>a, <1>b, <2>5 DEF Span
      <3> QED
        BY <2>1, <2>5, <3>1
    <2> QED
      BY <2>2, <2>3, <2>4, <2>5
  <1>4. \A q \in Span(p, n) : q \notin FN /\ ~ (slab'[q] \in 1 .. N)
    <2> SUFFICES ASSUME NEW q \in Span(p, n) PROVE q \notin FN /\ ~ (slab'[q] \in 1 .. N)
      OBVIOUS
    <2>1. q = p \/ q \in Span(p + 1, n - 1)
      BY <1>a, <1>b DEF Span
    <2>2. slab'[q] > N
      BY <1>a, <1>b, <1>3, <2>1
    <2>3. q # rest /\ (q = p \/ q \notin F)
      BY <1>a, <1>b, <1>2, <2>1 DEF Span
    <2> QED
      BY <1>a, <2>2, <2>3
  <1>5. FreeHeads' = FN
    <2>0. FreeHeads' = {q \in Page : type'[q] = PAGE /\ slab'[q] \in 1 .. N}
      BY DEF FreeHeads
    <2>1. ASSUME NEW q \in Page, q \notin Span(p, n)
          PROVE  (type'[q] = PAGE /\ slab'[q] \in 1 .. N) <=> q \in FN
      <3>1. q # p /\ type'[q] = type[q]
        BY <1>a, <1>b, <2>1 DEF Span
      <3>2. CASE more /\ q = rest
        <4>1. slab'[q] \in 1 .. N
          BY <1>a, <1>b, <1>3, <3>2
        <4>2. type[q] = PAGE
          BY <1>1, <1>2, <3>2
        <4> QED
          BY <3>1, <3>2, <4>1, <4>2
      <3>3. CASE ~ (more /\ q = rest)
        <4>1. slab'[q] = slab[q]
          BY <1>3, <2>1, <3>3
        <4>2. q \in F <=> type[q] = PAGE /\ slab[q] \in 1 .. N
          BY DEF FreeHeads
        <4> QED
          BY <3>1, <3>3, <4>1, <4>2
      <3> QED
        BY <3>2, <3>3
    <2>2. FN \subseteq Page
      BY <1>1, <1>2
    <2> QED
      BY <1>4, <2>0, <2>1, <2>2
  <1>6. ASSUME NEW h \in F, h # p
        PROVE  /\ h \notin S /\ slab'[h] = slab[h] /\ \A q \in Span(h, slab[h]) : q \notin S
    <2>1. ASSUME NEW q \in Span(h, slab[h]), q \in S PROVE FALSE
      BY <1>1, <1>6, <1>b, <2>1
    <2>2. h \notin S
      BY <1>2, <1>6
    <2>3. h \in Page /\ h \notin Span(p, n) /\ ~ (more /\ h = rest)
      BY <1>1, <1>2, <2>2
    <2> QED
      BY <1>3, <2>1, <2>2, <2>3
  <1> HIDE DEF F, FN, S, more, rest
  <1>7. FreePageSet' = FreePageSet \ Span(p, n)
    <2>0. FreePageSet' = UNION {Span(h, slab'[h]) : h \in FN}
      BY <1>5 DEF FreePageSet, Span
    <2>1. ASSUME NEW h \in FN, NEW q \in Span(h, slab'[h])
          PROVE  q \in FreePageSet \ Span(p, n)
      <3>1. CASE h \in F /\ h # p
        BY <1>1, <1>2, <1>6, <2>1, <3>1 DEF F
      <3>2. CASE more /\ h = rest
        <4>1. q \in S /\ q \notin Span(p, n)
          BY <1>a, <1>b, <1>3, <2>1, <3>2 DEF Span, S, more, rest
        <4> QED
          BY <1>2, <4>1
      <3> QED
        BY <2>1, <3>1, <3>2 DEF FN
    <2>2. ASSUME NEW q \in FreePageSet, q \notin Span(p, n)
          PROVE  \E h \in FN : q \in Span(h, slab'[h])
      <3>1. PICK h \in F : q \in Span(h, slab[h])
        BY <1>1 DEF F
      <3>2. CASE h # p
        BY <1>6, <3>1, <3>2 DEF FN
      <3>3. CASE h = p
        <4>1. more /\ rest \in FN /\ q \in Span(rest, slab'[rest])
          BY <1>a, <1>b, <1>3, <2>2, <3>1, <3>3 DEF Span, more, rest, FN
        <4> QED
          BY <4>1
      <3> QED
        BY <3>2, <3>3
    <2> QED
      BY <2>0, <2>1, <2>2
  <1>8. FreeMarked'
    <2> SUFFICES ASSUME NEW h \in FN
                 PROVE  /\ h + slab'[h] <= N
                        /\ \A q \in Span(h + 1, slab'[h] - 1) : type'[q] = PAGE /\ slab'[q] = 0
                        /\ h + slab'[h] \notin FN
      BY <1>5 DEF FreeMarked, Span
    <2>1. CASE h \in F /\ h # p
      <3>1. /\ slab'[h] = slab[h] /\ h \in 0 .. N - 1 /\ slab[h] \in 1 .. N
            /\ \A q \in Span(h, slab[h]) : q \notin S /\ q \in Page
        BY <1>1, <1>6, <2>1 DEF F
      <3>2. \A q \in Span(h + 1, slab[h] - 1) : type[q] = PAGE /\ slab[q] = 0
                                                /\ q \in Span(h, slab[h])
        BY <1>a, <2>1, <3>1 DEF Span, FreeMarked, F
      <3>3. \A q \in Span(h + 1, slab[h] - 1) : type'[q] = PAGE /\ slab'[q] = 0
        <4> SUFFICES ASSUME NEW q \in Span(h + 1, slab[h] - 1)
                     PROVE  type'[q] = PAGE /\ slab'[q] = 0
          OBVIOUS
        <4>1. q \notin S /\ q \in Page /\ type[q] = PAGE /\ slab[q] = 0
          BY <3>1, <3>2
        <4>2. q # p /\ q \notin Span(p, n) /\ ~ (more /\ q = rest)
          BY <1>a, <1>b, <1>2, <4>1 DEF S, Span
        <4> QED
          BY <1>3, <4>1, <4>2
      <3>4. h + slab[h] \notin F /\ h + slab[h] <= N
        BY <1>1, <2>1 DEF F
      <3>5. ASSUME more, h + slab[h] = rest PROVE FALSE
        <4>1. rest - 1 \in Span(p, slab[p]) /\ rest - 1 \in Span(h, slab[h])
          BY <1>a, <1>b, <3>1, <3>5 DEF Span, more, rest
        <4> QED
          BY <1>1, <1>b, <2>1, <4>1 DEF F
      <3> QED
        BY <3>1, <3>3, <3>4, <3>5 DEF FN
    <2>2. CASE more /\ h = rest
      <3>1. slab'[h] = slab[p] - n /\ h + slab'[h] = p + slab[p] /\ slab'[h] \in 1 .. N
            /\ h + slab'[h] # rest
        BY <1>a, <1>b, <1>3, <2>2 DEF more, rest
      <3>2. h + slab'[h] <= N /\ h + slab'[h] \notin FN
        BY <1>1, <1>b, <2>2, <3>1 DEF FN, F
      <3>3. ASSUME NEW q \in Span(h + 1, slab'[h] - 1)
            PROVE  type'[q] = PAGE /\ slab'[q] = 0
        <4>1. q \in S /\ q # p /\ q \notin Span(p, n) /\ q # rest
          BY <1>a, <1>b, <2>2, <3>1, <3>3 DEF Span, S, rest, more
        <4>2. type[q] = PAGE /\ slab[q] = 0 /\ q \in Page
          BY <1>1, <1>2, <4>1
        <4> QED
          BY <1>3, <4>1, <4>2
      <3> QED
        BY <3>2, <3>3
    <2> QED
      BY <2>1, <2>2 DEF FN
  <1>9. slab' \in [Page -> 0 .. 2 * N + 1]
    <2>1. /\ N + n \in 0 .. 2 * N + 1 /\ 2 * N + 1 \in 0 .. 2 * N + 1
          /\ slab[p] > n => slab[p] - n \in 0 .. 2 * N + 1
      BY <1>a, <1>b
    <2>2. slab \in [Page -> 0 .. 2 * N + 1]
      BY DEF TypeOK
    <2> QED
      BY <2>1, <2>2 DEF CarvedSlab, Start, BUSY
  <1>10. \A q \in Page \ FreePageSet : slab'[q] = slab[q]
    BY <1>2, <1>3
  <1> QED
    BY <1>2, <1>3, <1>5, <1>6, <1>7, <1>8, <1>9, <1>10 DEF F, FN, S, more, rest, Start, BUSY

\* The links after it: the rest of the run takes its place in the list, and its
\* last page leads to the new head.
LEMMA CarvedLinks ==
  ASSUME TypeOK, FreeMarked, BackLinks,
         NEW A, Apart(FreeHeads, A), Lists(Links, FreeHeads, A, {}),
         \A s \in Slots : \A q \in A[s] : type[q] = s,
         NEW p \in FreeHeads, NEW n \in 1 .. N, n <= slab[p],
         slab' = CarvedSlab(p, n), \A q \in Page : q # p => type'[q] = type[q]
  PROVE  LET m == Carve(Links, p, n)
         IN /\ Lists(m, FreeHeads', A, {}) /\ Apart(FreeHeads', A)
            /\ \A h \in FreeHeads' :
                 slab'[h] > 1 /\ h + slab'[h] < N => m.prev[h + slab'[h] - 1] = h
  <1> DEFINE F == FreeHeads
             l == Links
             rest == p + n
             last == p + slab[p] - 1
             cut == IF slab[p] > n THEN Replace(l, p, rest, last) ELSE Unlink(l, p)
             m == Detach(cut, p .. p + n - 1)
             G == (F \ {p}) \union (IF slab[p] > n THEN {rest} ELSE {})
             P == Span(p, n)
  <1>a. N \in Nat \ {0}
    BY SlabAssumption
  <1>1. /\ \A h \in F : /\ h \in 0 .. N - 1 /\ slab[h] \in 1 .. N /\ h + slab[h] <= N
                        /\ Span(h, slab[h]) \subseteq FreePageSet
        /\ F \subseteq FreePageSet /\ FreePageSet \subseteq Page
        /\ \A q \in FreePageSet : /\ type[q] = PAGE
                                  /\ slab[q] # 0 => q \in F
        /\ \A h, k \in F : \A q \in Span(h, slab[h]) : q \in Span(k, slab[k]) => h = k
    BY FreePlaces DEF FreeMarked
  <1>2. /\ FreeHeads' = G
        /\ Span(p, n) \subseteq FreePageSet
        /\ \A h \in F : h # p => slab'[h] = slab[h]
        /\ slab[p] > n => slab'[rest] = slab[p] - n /\ rest \in FreePageSet \ F
    BY CarvedWords
  <1>b. /\ p \in 0 .. N - 1 /\ slab[p] \in 1 .. N /\ p + slab[p] <= N /\ n \in 1 .. N
        /\ n <= slab[p] /\ p \in F /\ p \in Page
    BY <1>1
  <1>3. /\ Links.next = next /\ Links.prev = prev
        /\ Carve(Links, p, n) = m
    BY DEF Links, Carve, Replace
  <1>d. PAGE \notin Slots
    BY SlabAssumption
  <1>e. \A q \in FreePageSet : \A s \in Slots : q \notin A[s]
    BY <1>1, <1>d
  <1>f. P = p .. p + n - 1 /\ p \in P /\ P \subseteq FreePageSet /\ rest \notin P
        /\ P \intersect F = {p} /\ P \in SUBSET Page
    <2>1. P = p .. p + n - 1 /\ p \in P /\ rest \notin P
      BY <1>a, <1>b DEF Span
    <2>2. ASSUME NEW q \in P, q \in F PROVE q = p
      <3>1. q \in Span(q, slab[q]) /\ q \in Span(p, slab[p])
        BY <1>a, <1>b, <1>1, <2>2 DEF Span
      <3> QED
        BY <1>1, <1>b, <2>2, <3>1
    <2> QED
      BY <1>1, <1>2, <1>b, <2>1, <2>2
  <1> HIDE DEF F, l, m, cut, G, P
  <1>4. /\ Lists(cut, G, A, {p}) /\ Apart(G, A)
        /\ \A q \in Page : q \notin F /\ ~ (slab[p] > n /\ q \in {rest, last}) =>
             cut.prev[q] = l.prev[q]
        /\ slab[p] > n /\ last # rest => cut.prev[last] = rest
    <2>1. Apart(F, A) /\ Lists(l, F, A, {}) /\ {} \in SUBSET Page
      BY DEF F, l
    <2>2. CASE slab[p] > n
      <3>1. /\ rest \in Page /\ rest \notin F /\ \A s \in Slots : rest \notin A[s]
        BY <1>1, <1>2, <1>e, <2>2
      <3>2. /\ last \in Page /\ last \notin F /\ \A s \in Slots : last \notin A[s]
        <4>1. last \in Span(p, slab[p]) /\ last # p
          BY <1>a, <1>b, <2>2 DEF Span
        <4>2. last \in FreePageSet
          BY <1>1, <1>b, <4>1
        <4>3. ASSUME last \in F PROVE FALSE
          <5>1. last \in Span(last, slab[last])
            BY <1>a, <1>1, <4>3 DEF Span
          <5> QED
            BY <1>1, <1>b, <4>1, <4>3, <5>1
        <4> QED
          BY <1>1, <1>e, <4>2, <4>3
      <3> HIDE DEF rest, last
      <3>4. cut = Replace(l, p, rest, last) /\ G = (F \ {p}) \union {rest}
        BY <2>2 DEF cut, G
      <3> DEFINE E == {}
      <3> HIDE DEF E
      <3>a. E \in SUBSET Page /\ Lists(l, F, A, E)
        BY <2>1 DEF E
      <3>3. /\ Lists(cut, (F \ {p}) \union {rest}, A, (E \ {rest}) \union {p})
            /\ Apart((F \ {p}) \union {rest}, A)
            /\ SamePages(l, cut, F \union {rest, last})
            /\ last # rest => cut.prev[last] = rest
        <4>1. Apart((F \ {p}) \union {rest}, A)
          BY <1>1, <2>1, <3>1 DEF Apart
        <4>2. Lists(cut, (F \ {p}) \union {rest}, A, (E \ {rest}) \union {p})
          BY ONLY <1>b, <2>1, <3>1, <3>2, <3>4, <3>a, ListsReplaceFree
        <4>3. SamePages(l, cut, F \union {rest, last})
          BY ONLY <1>b, <2>1, <3>1, <3>2, <3>4, <3>a, ListsReplaceFree
        <4>4. last # rest => cut.prev[last] = rest
          <5>1. cut.prev = [l.prev EXCEPT ![last] = rest, ![rest] = l.prev[p], ![l.next[p]] = rest]
            BY <3>4 DEF Replace
          <5>2. l.next[p] \in F \union {FREE} /\ l.prev \in [Node -> Node \union {NULL}]
            BY <1>b, <2>1 DEF Lists, List, Neighbours, LinkFields
          <5>3. last \in Node /\ l.next[p] # last
            BY <3>2, <5>2, NodesDiffer DEF ListHead
          <5> QED
            BY <5>1, <5>2, <5>3
        <4> QED
          BY <4>1, <4>2, <4>3, <4>4
      <3>5. (E \ {rest}) \union {p} = {p}
        BY DEF E
      <3>6. /\ Lists(cut, G, A, {p}) /\ Apart(G, A)
            /\ SamePages(l, cut, F \union {rest, last})
            /\ last # rest => cut.prev[last] = rest
        BY ONLY <3>3, <3>4, <3>5
      <3>7. \A q \in Page : q \notin F /\ ~ (slab[p] > n /\ q \in {rest, last}) =>
              cut.prev[q] = l.prev[q]
        BY <2>2, <3>6 DEF SamePages
      <3> QED
        BY <3>6, <3>7
    <2>3. CASE ~ (slab[p] > n)
      <3>1. /\ Lists(Unlink(l, p), F \ {p}, A, {} \union {p})
            /\ Apart(F \ {p}, A)
            /\ SamePages(l, Unlink(l, p), F)
        BY <1>b, <2>1, ListsUnlinkFree
      <3>2. cut = Unlink(l, p) /\ G = F \ {p}
        BY <2>3 DEF cut, G
      <3> QED
        BY <2>3, <3>1, <3>2 DEF SamePages
    <2> QED
      BY <2>2, <2>3
  <1>5. P \intersect G = {} /\ \A s \in Slots : P \intersect A[s] = {}
    BY <1>e, <1>f DEF G
  <1>6. Lists(m, G, A, {}) /\ SamePages(cut, m, P)
    <2>1. {p} \in SUBSET Page /\ {p} \ P = {}
      BY <1>b, <1>f
    <2>2. Lists(Detach(cut, P), G, A, {p} \ P) /\ SamePages(cut, Detach(cut, P), P)
      BY <1>4, <1>5, <1>f, <2>1, ListsDetach, ZenonT(40)
    <2> QED
      BY <1>f, <2>1, <2>2 DEF m
  <1>7. ASSUME NEW h \in G, slab'[h] > 1, h + slab'[h] < N
        PROVE  m.prev[h + slab'[h] - 1] = h
    <2>1. CASE h \in F /\ h # p
      <3> DEFINE e == h + slab[h] - 1
      <3>1. slab'[h] = slab[h] /\ slab[h] \in 1 .. N /\ h \in 0 .. N - 1
        BY <1>1, <1>2, <2>1
      <3>2. e \in Span(h, slab[h]) /\ e \in Span(h + 1, slab[h] - 1)
        BY <1>a, <1>7, <3>1 DEF Span
      <3>3. slab[e] = 0 /\ e \in FreePageSet
        BY <1>1, <2>1, <3>2 DEF FreeMarked, F
      <3>4. e \notin F /\ e \in Page
        BY <1>1, <3>3
      <3>5. e \notin Span(p, slab[p])
        BY <1>1, <1>b, <2>1, <3>2
      <3>6. e \notin P /\ (slab[p] > n => e # rest /\ e # last)
        BY <1>a, <1>b, <3>5 DEF Span, P
      <3>7. m.prev[e] = cut.prev[e] /\ cut.prev[e] = l.prev[e]
        BY <1>4, <1>6, <3>4, <3>6 DEF SamePages
      <3>8. prev[e] = h
        BY <1>7, <2>1, <3>1 DEF BackLinks, F
      <3> QED
        BY <1>3, <3>1, <3>7, <3>8 DEF l
    <2>2. CASE slab[p] > n /\ h = rest
      <3>1. slab'[h] = slab[p] - n /\ h + slab'[h] - 1 = last /\ last # rest
        BY <1>a, <1>b, <1>2, <1>7, <2>2
      <3>2. last \in Page /\ last \notin P
        BY <1>a, <1>b, <2>2 DEF Span, P, Page
      <3> QED
        BY <1>4, <1>6, <2>2, <3>1, <3>2 DEF SamePages
    <2> QED
      BY <2>1, <2>2 DEF G
  <1> QED
    BY <1>2, <1>3, <1>4, <1>6, <1>7 DEF G, F

-----------------------------------------------------------------------------
(***************************************************************************)
(* The search for pages.                                                   *)
(***************************************************************************)

\* A walk follows next from its head.
LEMMA WalkSteps ==
  ASSUME NEW h
  PROVE  /\ Walk(h)[0] = h
         /\ \A i \in 0 .. N - 1 : Walk(h)[i + 1] = next[Walk(h)[i]]
  <1> DEFINE Good(f, n) == f = [i \in 0 .. n |-> IF i = 0 THEN h ELSE next[f[i - 1]]]
             T == {n \in 0 .. N : \E f : Good(f, n)}
  <1>a. N \in Nat
    BY SlabAssumption
  <1>1. 0 \in T
    <2>1. Good([i \in 0 .. 0 |-> h], 0)
      OBVIOUS
    <2> HIDE DEF Good
    <2> QED
      BY <1>a, <2>1
  <1>2. ASSUME NEW n \in 0 .. N - 1, n \in T PROVE n + 1 \in T
    <2>1. PICK f : Good(f, n)
      BY <1>2
    <2> DEFINE g == [i \in 0 .. n + 1 |-> IF i = n + 1 THEN next[f[n]] ELSE f[i]]
    <2>2. ASSUME NEW i \in 0 .. n + 1
          PROVE  g[i] = IF i = 0 THEN h ELSE next[g[i - 1]]
      <3>1. \A j \in 0 .. n : f[j] = IF j = 0 THEN h ELSE next[f[j - 1]]
        BY <2>1
      <3>2. CASE i = n + 1
        BY <1>a, <3>1, <3>2
      <3>3. CASE i # n + 1
        BY <1>a, <3>1, <3>3
      <3> QED
        BY <3>2, <3>3
    <2>3. Good(g, n + 1)
      BY <2>2
    <2>4. n + 1 \in 0 .. N
      BY <1>a
    <2> QED
      BY <2>3, <2>4
  <1>3. N \in T
    <2> HIDE DEF T
    <2>1. 0 .. N \subseteq T
      BY <1>a, <1>1, <1>2, Upto
    <2> QED
      BY <1>a, <2>1
  <1>4. \E f : Good(f, N)
    BY <1>3
  <1>5. Walk(h) = CHOOSE f : Good(f, N)
    BY DEF Walk
  <1>6. Good(Walk(h), N)
    <2> HIDE DEF Good
    <2> QED
      BY <1>4, <1>5
  <1> QED
    BY <1>a, <1>6

\* A walk from a list's head stays in the list.
LEMMA WalkStays ==
  ASSUME NEW h \in ListHead, NEW S \in SUBSET Page, List(Links, h, S)
  PROVE  \A i \in 0 .. N : Walk(h)[i] \in S \union {h}
  <1> DEFINE T == {i \in 0 .. N : Walk(h)[i] \in S \union {h}}
  <1>a. N \in Nat
    BY SlabAssumption
  <1>1. 0 \in T
    BY <1>a, WalkSteps
  <1>2. ASSUME NEW i \in 0 .. N - 1, i \in T PROVE i + 1 \in T
    <2>1. \A x \in S \union {h} : next[x] \in S \union {h}
      BY DEF List, Neighbours, Links
    <2>2. Walk(h)[i + 1] = next[Walk(h)[i]] /\ i + 1 \in 0 .. N
      BY <1>a, WalkSteps
    <2> QED
      BY <1>2, <2>1, <2>2
  <1>3. 0 .. N \subseteq T
    <2> HIDE DEF T
    <2> QED
      BY <1>a, <1>1, <1>2, Upto
  <1> QED
    BY <1>3

\* What the search for pages finds is the head of a free run long enough.
LEMMA FitsFree ==
  ASSUME NEW A, Lists(Links, FreeHeads, A, {}), NEW n \in 1 .. N, NEW p \in Fits(n)
  PROVE  p \in FreeHeads /\ slab[p] >= n
  <1>1. PICK j \in 1 .. N : p = Walk(FREE)[j] /\ p \in Page /\ slab[p] >= n
    BY DEF Fits
  <1>2. FREE \in ListHead /\ FreeHeads \in SUBSET Page
    BY DEF ListHead, FreeHeads
  <1>3. Walk(FREE)[j] \in FreeHeads \union {FREE}
    <2>1. List(Links, FREE, FreeHeads)
      BY DEF Lists
    <2>2. j \in 0 .. N
      BY SlabAssumption
    <2> QED
      BY <1>2, <2>1, <2>2, WalkStays
  <1> QED
    BY <1>1, <1>2, <1>3, NodesDiffer

-----------------------------------------------------------------------------
(***************************************************************************)
(* Counting.                                                               *)
(***************************************************************************)
\* A set of pages is finite and has N at most.
LEMMA PagesFinite ==
  ASSUME NEW S \in SUBSET Page
  PROVE  IsFiniteSet(S) /\ Cardinality(S) \in 0 .. N
  <1>1. N \in Nat \ {0}
    BY SlabAssumption
  <1>2. IsFiniteSet(Page) /\ Cardinality(Page) = N
    <2>1. IsFiniteSet(0 .. N - 1) /\ Cardinality(0 .. N - 1) = (N - 1) - 0 + 1
      BY <1>1, FS_Interval
    <2> QED
      BY <1>1, <2>1 DEF Page
  <1>3. IsFiniteSet(S) /\ Cardinality(S) <= Cardinality(Page)
    BY <1>2, FS_Subset
  <1>4. Cardinality(S) \in Nat
    BY <1>3, FS_CardinalityType
  <1> QED
    BY <1>1, <1>2, <1>3, <1>4

\* A run that is free or not counts its length.
LEMMA CountSpan ==
  ASSUME NEW S \in SUBSET Page, NEW p \in Page, NEW n \in 1 .. N, p + n <= N,
         Span(p, n) \intersect S = {}
  PROVE  Cardinality(S \union Span(p, n)) = Cardinality(S) + n
  <1>1. N \in Nat \ {0} /\ p \in Nat
    BY SlabAssumption DEF Page
  <1>2. Span(p, n) \in SUBSET Page
    BY <1>1 DEF Span, Page
  <1>3. IsFiniteSet(S) /\ IsFiniteSet(Span(p, n)) /\ Cardinality(S) \in Nat
    BY <1>1, <1>2, PagesFinite
  <1>4. Cardinality(Span(p, n)) = n
    <2>1. Cardinality(p .. p + n - 1) = (p + n - 1) - p + 1
      <3>1. p \in Int /\ p + n - 1 \in Int /\ p <= p + n - 1
        BY <1>1
      <3> QED
        BY <3>1, FS_Interval
    <2> QED
      BY <1>1, <2>1 DEF Span
  <1>5. Cardinality(S \union Span(p, n))
          = Cardinality(S) + Cardinality(Span(p, n)) - Cardinality(S \intersect Span(p, n))
    BY <1>3, FS_Union
  <1>6. Cardinality(S \intersect Span(p, n)) = 0
    <2>1. S \intersect Span(p, n) = {}
      OBVIOUS
    <2> QED
      BY <2>1, FS_EmptySet
  <1> QED
    BY <1>3, <1>4, <1>5, <1>6

\* One more, one less.
LEMMA CountOne ==
  ASSUME NEW S, IsFiniteSet(S), NEW x
  PROVE  /\ Cardinality(S) \in Nat
         /\ x \notin S => IsFiniteSet(S \union {x})
                          /\ Cardinality(S \union {x}) = Cardinality(S) + 1
         /\ x \in S => /\ IsFiniteSet(S \ {x}) /\ Cardinality(S) >= 1
                       /\ Cardinality(S \ {x}) = Cardinality(S) - 1
  <1>1. Cardinality(S) \in Nat
    BY FS_CardinalityType
  <1>2. ASSUME x \notin S
        PROVE  IsFiniteSet(S \union {x}) /\ Cardinality(S \union {x}) = Cardinality(S) + 1
    BY <1>2, FS_AddElement
  <1>3. ASSUME x \in S
        PROVE  /\ IsFiniteSet(S \ {x}) /\ Cardinality(S \ {x}) = Cardinality(S) - 1
    BY <1>3, FS_RemoveElement
  <1>4. x \in S => Cardinality(S) >= 1
    <2>1. ASSUME x \in S PROVE Cardinality(S \ {x}) \in Nat
      BY <1>3, <2>1, FS_CardinalityType
    <2> QED
      BY <1>1, <1>3, <2>1
  <1> QED
    BY <1>1, <1>2, <1>3, <1>4

-----------------------------------------------------------------------------
(***************************************************************************)
(* The steps.                                                              *)
(***************************************************************************)

\* No page is in two lists: free runs are not divided, a divided page has one slot.
LEMMA AvailApart ==
  ASSUME TypeOK
  PROVE  /\ Apart(FreeHeads, Avail)
         /\ \A s \in Slots : \A q \in Avail[s] : q \in Page /\ type[q] = s
  BY SlabAssumption DEF Apart, FreeHeads, Avail

\* A held run whose words do not change stays marked.
LEMMA StaysMarked ==
  ASSUME RunsMarked, TypeOK, NEW b \in runs,
         \A q \in Span(b[1], b[2]) : type'[q] = type[q] /\ slab'[q] = slab[q]
  PROVE  Marked(b)'
  <1>1. b[1] \in 0 .. N - 1 /\ b[2] \in 1 .. N /\ N \in Nat
    BY SlabAssumption DEF TypeOK, Page
  <1>2. Marked(b)
    BY DEF RunsMarked
  <1>3. /\ b[1] \in Span(b[1], b[2])
        /\ \A q \in Span(b[1] + 1, b[2] - 1) : q \in Span(b[1], b[2])
    BY <1>1 DEF Span
  <1> QED
    BY <1>2, <1>3 DEF Marked, Span

\* Runs do not overlap.
LEMMA RunsApart ==
  ASSUME TypeOK, RunsMarked, NEW b \in runs, NEW c \in runs,
         NEW q \in Span(b[1], b[2]), q \in Span(c[1], c[2])
  PROVE  b = c
  <1>a. N \in Nat
    BY SlabAssumption
  <1>1. \A x \in runs : /\ x = <<x[1], x[2]>> /\ x[1] \in 0 .. N - 1 /\ x[2] \in 1 .. N
                        /\ slab[x[1]] = N + x[2]
                        /\ \A r \in Span(x[1] + 1, x[2] - 1) : slab[r] = 2 * N + 1
    BY DEF TypeOK, Page, RunsMarked, Marked, Start, BUSY
  <1>2. b[1] = c[1]
    <2>1. CASE b[1] < c[1]
      <3>1. c[1] \in Span(b[1] + 1, b[2] - 1)
        BY <1>a, <1>1, <2>1 DEF Span
      <3>2. slab[c[1]] = 2 * N + 1 /\ slab[c[1]] = N + c[2]
        BY <1>1, <3>1
      <3> QED
        BY <1>a, <1>1, <3>2
    <2>2. CASE c[1] < b[1]
      <3>1. b[1] \in Span(c[1] + 1, c[2] - 1)
        BY <1>a, <1>1, <2>2 DEF Span
      <3>2. slab[b[1]] = 2 * N + 1 /\ slab[b[1]] = N + b[2]
        BY <1>1, <3>1
      <3> QED
        BY <1>a, <1>1, <3>2
    <2> QED
      BY <1>1, <2>1, <2>2
  <1>3. b[2] = c[2]
    BY <1>a, <1>1, <1>2
  <1> QED
    BY <1>1, <1>2, <1>3

\* ngx_slab_alloc() of more than half a page preserves the inductive invariant.
LEMMA AllocRunKeeps ==
  ASSUME IInv, NEW n \in 1 .. N, AllocRun(n)
  PROVE  IInv'
  <1> USE DEF IInv
  <1>a. N \in Nat \ {0}
    BY SlabAssumption
  <1>1. PICK p \in Fits(n) :
          /\ slab' = CarvedSlab(p, n)
          /\ next' = Carve(Links, p, n).next
          /\ prev' = Carve(Links, p, n).prev
          /\ pfree' = pfree - n
          /\ runs' = runs \union {<<p, n>>}
    BY DEF AllocRun
  <1>2. UNCHANGED <<type, map, total, used, chunks>>
    BY DEF AllocRun
  <1>3. p \in FreeHeads /\ n <= slab[p] /\ p \in Page /\ type[p] = PAGE
    <2>1. p \in FreeHeads /\ slab[p] >= n
      BY FitsFree
    <2> QED
      BY <2>1, <1>a DEF FreeHeads
  <1>4. Apart(FreeHeads, Avail) /\ \A s \in Slots : \A q \in Avail[s] : type[q] = s
    BY AvailApart
  <1>5. \A q \in Page : q # p => type'[q] = type[q]
    BY <1>2
  <1>6. /\ FreeMarked'
        /\ FreePageSet' = FreePageSet \ Span(p, n)
        /\ Span(p, n) \subseteq FreePageSet
        /\ slab' \in [Page -> 0 .. 2 * N + 1]
        /\ slab'[p] = Start(n) /\ \A q \in Span(p + 1, n - 1) : slab'[q] = BUSY
        /\ \A q \in Page \ FreePageSet : slab'[q] = slab[q]
    BY <1>1, <1>3, <1>5, CarvedWords
  <1>7. /\ Lists(Carve(Links, p, n), FreeHeads', Avail, {})
        /\ \A h \in FreeHeads' : slab'[h] > 1 /\ h + slab'[h] < N =>
             Carve(Links, p, n).prev[h + slab'[h] - 1] = h
    BY <1>1, <1>3, <1>4, <1>5, CarvedLinks
  <1>8. Carve(Links, p, n) = Links'
    BY <1>1 DEF Carve, Detach, Links
  <1>9. Avail' = Avail
    BY <1>2 DEF Avail
  <1>10. Lists(Links', FreeHeads', Avail', {}) /\ BackLinks'
    <2>1. Links'.prev = prev'
      BY DEF Links
    <2> QED
      BY <1>7, <1>8, <1>9, <2>1 DEF BackLinks
  <1>11. p + n <= N /\ FreePageSet \subseteq Page /\ p + n - 1 \in Span(p, n)
    <2>1. FreePageSet \subseteq Page
      BY FreePlaces
    <2>2. p + n - 1 \in Span(p, n)
      BY <1>a, <1>3 DEF Span, Page
    <2> QED
      BY <1>a, <1>3, <1>6, <2>1, <2>2 DEF Page
  <1>12. RunsMarked'
    <2>1. Marked(<<p, n>>)'
      <3>1. \A q \in Span(p, n) : type'[q] = PAGE
        BY <1>2, <1>6, FreePlaces
      <3> QED
        BY <1>6, <1>11, <3>1 DEF Marked, Span, Start
    <2>2. ASSUME NEW b \in runs PROVE Marked(b)'
      BY <1>2, <1>6, HeldPlaces, StaysMarked
    <2> QED
      BY <1>1, <2>1, <2>2 DEF RunsMarked
  <1>13. Covered'
    <2> SUFFICES ASSUME NEW q \in Page, type'[q] = PAGE
                 PROVE  q \in FreePageSet' \/ \E b \in runs' : q \in Span(b[1], b[2])
      BY DEF Covered, Span
    <2>1. q \in FreePageSet \/ \E b \in runs : q \in Span(b[1], b[2])
      BY <1>2 DEF Covered
    <2>2. CASE q \in Span(p, n)
      <3>1. <<p, n>> \in runs' /\ q \in Span(<<p, n>>[1], <<p, n>>[2])
        BY <1>1, <2>2
      <3> QED
        BY <3>1
    <2>3. CASE q \notin Span(p, n)
      BY <1>1, <1>6, <2>1, <2>3
    <2> QED
      BY <2>2, <2>3
  <1>14. Divided'
    BY <1>2 DEF Divided, HeldIn
  <1>15. Counted' /\ pfree' \in 0 .. N
    <2>1. FreePageSet' \union Span(p, n) = FreePageSet /\ FreePageSet' \in SUBSET Page
          /\ Span(p, n) \intersect FreePageSet' = {}
      BY <1>6, <1>11
    <2>2. Cardinality(FreePageSet) = Cardinality(FreePageSet') + n
      BY <1>3, <1>11, <2>1, CountSpan
    <2>3. Cardinality(FreePageSet') \in 0 .. N
      BY <2>1, PagesFinite
    <2>4. pfree' = Cardinality(FreePageSet')
      BY <1>a, <1>1, <2>2, <2>3 DEF Counted
    <2>5. \A s \in Slots : HeldOf(s)' = HeldOf(s) /\ PagesOf(s)' = PagesOf(s)
      BY <1>2 DEF HeldOf, PagesOf
    <2> QED
      BY <1>2, <2>3, <2>4, <2>5 DEF Counted
  <1>16. TypeOK'
    <2>1. next' \in [Node -> Node \union {NULL}] /\ prev' \in [Node -> Node \union {NULL}]
      BY <1>10 DEF Lists, LinkFields, Links
    <2>2. runs' \subseteq Page \X (1 .. N)
      BY <1>1, <1>3 DEF TypeOK
    <2> QED
      BY <1>2, <1>6, <1>15, <2>1, <2>2 DEF TypeOK
  <1> QED
    BY <1>6, <1>10, <1>12, <1>13, <1>14, <1>15, <1>16

\* The first page of a list that is not empty is the list's, not its head.
LEMMA FirstOfList ==
  ASSUME NEW l, NEW h \in ListHead, NEW S \in SUBSET Page, List(l, h, S), S # {}
  PROVE  l.next[h] \in S
  <1>1. PICK rank \in [Page -> Nat] : Ranked(l, S, rank)
    BY DEF List
  <1> DEFINE T == {rank[x] : x \in S}
  <1>2. T \in SUBSET Nat /\ T # {}
    OBVIOUS
  <1>3. PICK r \in T : \A y \in T : r <= y
    BY <1>2, Least
  <1>4. PICK x \in S : rank[x] = r
    BY <1>3
  <1>5. l.prev[x] \notin S
    <2> SUFFICES ASSUME l.prev[x] \in S PROVE FALSE
      OBVIOUS
    <2>1. rank[l.prev[x]] < rank[x] /\ rank[l.prev[x]] \in Nat /\ rank[x] \in Nat
      BY <1>1 DEF Ranked
    <2>2. rank[l.prev[x]] \in T
      OBVIOUS
    <2>3. rank[x] <= rank[l.prev[x]]
      BY <1>3, <1>4, <2>2
    <2> QED
      BY <2>1, <2>3
  <1>6. l.prev[x] = h /\ l.next[l.prev[x]] = x
    BY <1>5 DEF List, Neighbours
  <1> QED
    BY <1>6

\* The first page of a slot's list tells whether any page has a free chunk.
LEMMA ListedAvail ==
  ASSUME TypeOK, Lists(Links, FreeHeads, Avail, {}), NEW s \in Slots
  PROVE  /\ ListHasChunk(s) => next[s] \in Avail[s]
         /\ ~ ListHasChunk(s) => Avail[s] = {}
  <1>1. List(Links, s, Avail[s]) /\ Links.next = next
    BY DEF Lists, Links
  <1>2. Avail[s] \in SUBSET Page /\ s \in ListHead /\ s \notin Page
    BY NodesDiffer DEF Avail, ListHead
  <1>3. next[s] \in Avail[s] \union {s}
    BY <1>1 DEF List, Neighbours
  <1>4. Avail[s] # {} => next[s] \in Avail[s]
    BY <1>1, <1>2, FirstOfList
  <1>5. next[s] \in Avail[s] => next[s] # s /\ map[next[s]] # ChunksOf(s)
    BY <1>2 DEF Avail
  <1> QED
    BY <1>3, <1>4, <1>5 DEF ListHasChunk

\* A caller gets a chunk nobody has.
LEMMA ChunkTaken ==
  ASSUME TypeOK, Counted, NEW p \in Page, NEW c \in Nat, NEW s \in Slots,
         <<p, c, s>> \notin chunks, chunks' = chunks \union {<<p, c, s>>},
         used' = [used EXCEPT ![s] = @ + 1]
  PROVE  /\ IsFiniteSet(chunks') /\ chunks' \subseteq Page \X Nat \X Slots
         /\ used' \in [Slots -> Nat]
         /\ \A t \in Slots : used'[t] = Cardinality(HeldOf(t)')
         /\ HeldIn(p)' = HeldIn(p) \union {c}
         /\ \A q \in Page : q # p => HeldIn(q)' = HeldIn(q)
  <1> DEFINE b == <<p, c, s>>
  <1>1. IsFiniteSet(chunks')
    BY CountOne DEF Counted
  <1>2. HeldOf(s)' = HeldOf(s) \union {b} /\ b \notin HeldOf(s)
    BY DEF HeldOf
  <1>3. \A t \in Slots : t # s => HeldOf(t)' = HeldOf(t)
    BY DEF HeldOf
  <1>4. IsFiniteSet(HeldOf(s))
    <2>1. HeldOf(s) \in SUBSET chunks
      BY DEF HeldOf
    <2> QED
      BY <2>1, FS_Subset DEF Counted
  <1>5. Cardinality(HeldOf(s)') = Cardinality(HeldOf(s)) + 1
    BY <1>2, <1>4, CountOne
  <1>6. used' \in [Slots -> Nat] /\ \A t \in Slots : used'[t] = Cardinality(HeldOf(t)')
    BY <1>3, <1>5 DEF TypeOK, Counted
  <1>7. chunks' \subseteq Page \X Nat \X Slots
    BY DEF TypeOK
  <1>8. HeldIn(p)' = HeldIn(p) \union {c} /\ \A q \in Page : q # p => HeldIn(q)' = HeldIn(q)
    BY DEF HeldIn
  <1> QED
    BY <1>1, <1>6, <1>7, <1>8

\* A chunk comes back.
LEMMA ChunkReturned ==
  ASSUME TypeOK, Counted, NEW p \in Page, NEW c \in Nat, NEW s \in Slots,
         \A b \in chunks : b[1] = p => b[3] = s,
         <<p, c, s>> \in chunks, chunks' = chunks \ {<<p, c, s>>},
         used' = [used EXCEPT ![s] = @ - 1]
  PROVE  /\ IsFiniteSet(chunks') /\ chunks' \subseteq Page \X Nat \X Slots
         /\ used' \in [Slots -> Nat]
         /\ \A t \in Slots : used'[t] = Cardinality(HeldOf(t)')
         /\ HeldIn(p)' = HeldIn(p) \ {c}
         /\ \A q \in Page : q # p => HeldIn(q)' = HeldIn(q)
  <1> DEFINE b == <<p, c, s>>
  <1>1. IsFiniteSet(chunks')
    BY CountOne DEF Counted
  <1>2. HeldOf(s)' = HeldOf(s) \ {b} /\ b \in HeldOf(s)
    BY DEF HeldOf
  <1>3. \A t \in Slots : t # s => HeldOf(t)' = HeldOf(t)
    BY DEF HeldOf
  <1>4. IsFiniteSet(HeldOf(s))
    <2>1. HeldOf(s) \in SUBSET chunks
      BY DEF HeldOf
    <2> QED
      BY <2>1, FS_Subset DEF Counted
  <1>5. /\ Cardinality(HeldOf(s)') = Cardinality(HeldOf(s)) - 1
        /\ Cardinality(HeldOf(s)) \in Nat /\ Cardinality(HeldOf(s)) >= 1
    BY <1>2, <1>4, CountOne
  <1>6. used' \in [Slots -> Nat] /\ \A t \in Slots : used'[t] = Cardinality(HeldOf(t)')
    BY <1>3, <1>5 DEF TypeOK, Counted
  <1>7. chunks' \subseteq Page \X Nat \X Slots
    BY DEF TypeOK
  <1>8. HeldIn(p)' = HeldIn(p) \ {c}
    <2>1. ASSUME NEW x \in chunks, x[1] = p, x[2] = c PROVE x = b
      BY <2>1 DEF TypeOK
    <2>2. \A d \in HeldIn(p)' : d \in HeldIn(p)
      BY DEF HeldIn
    <2>3. c \notin HeldIn(p)'
      BY <2>1 DEF HeldIn
    <2>4. \A d \in HeldIn(p) : d # c => d \in HeldIn(p)'
      BY DEF HeldIn
    <2> QED
      BY <2>2, <2>3, <2>4
  <1>9. \A q \in Page : q # p => HeldIn(q)' = HeldIn(q)
    BY DEF HeldIn
  <1> QED
    BY <1>1, <1>6, <1>7, <1>8, <1>9

\* What the bitmap of a divided page has.
LEMMA DividedPage ==
  ASSUME TypeOK, Divided, NEW p \in Page, type[p] # PAGE
  PROVE  /\ type[p] \in Slots
         /\ map[p] \subseteq ChunksOf(type[p]) /\ ReservedOf(type[p]) \subseteq map[p]
         /\ HeldIn(p) \subseteq map[p] \ ReservedOf(type[p])
  <1>1. type[p] \in Slots
    BY DEF TypeOK
  <1>2. map[p] = ReservedOf(type[p]) \union HeldIn(p)
    BY DEF Divided
  <1>3. HeldIn(p) \subseteq ChunksOf(type[p]) \ ReservedOf(type[p])
    BY DEF Divided, HeldIn
  <1>4. ReservedOf(type[p]) \subseteq ChunksOf(type[p])
    BY <1>1, SlabAssumption DEF ReservedOf, ChunksOf
  <1> QED
    BY <1>1, <1>2, <1>3, <1>4

\* An action that only hands out or takes back chunks of divided pages.
LEMMA WordsKept ==
  ASSUME RunsMarked, FreeMarked, Covered, UNCHANGED <<slab, type, runs>>
  PROVE  /\ RunsMarked' /\ FreeMarked' /\ Covered'
         /\ FreeHeads' = FreeHeads /\ FreePageSet' = FreePageSet
  <1>1. FreeHeads' = FreeHeads
    BY DEF FreeHeads
  <1>2. FreePageSet' = FreePageSet
    BY <1>1 DEF FreePageSet, Span
  <1>3. RunsMarked'
    BY DEF RunsMarked, Marked, Span, Start
  <1>4. FreeMarked'
    BY <1>1 DEF FreeMarked, Span
  <1>c. Covered'
    BY <1>2 DEF Covered, Span
  <1> QED
    BY <1>1, <1>2, <1>3, <1>4, <1>c

\* ngx_slab_alloc() of a chunk of a listed page preserves it; a page that is full
\* now leaves its slot's list.
LEMMA AllocListedKeeps ==
  ASSUME IInv, NEW s \in Slots, AllocListed(s)
  PROVE  IInv'
  <1> USE DEF IInv
  <1>a. PAGE \notin Slots
    BY SlabAssumption
  <1>b. ListHasChunk(s)
    BY DEF AllocListed
  <1>2. PICK p \in Avail[s] : p = next[s]
    BY <1>b, ListedAvail
  <1>3. p \in Page /\ type[p] = s /\ map[p] # ChunksOf(s)
    BY DEF Avail
  <1>4. map[p] \subseteq ChunksOf(s) /\ ReservedOf(s) \subseteq map[p] /\ HeldIn(p) \subseteq map[p]
    BY <1>3, <1>a, DividedPage
  <1> DEFINE free == ChunksOf(s) \ map[p]
  <1>5. PICK c \in free : c = CHOOSE i \in free : \A j \in free : i <= j
    <2>1. ChunksOf(s) \in SUBSET Nat
      BY SlabAssumption DEF ChunksOf
    <2>2. free \in SUBSET Nat /\ free # {}
      BY <1>3, <1>4, <2>1
    <2> HIDE DEF free
    <2>3. \E i \in free : \A j \in free : i <= j
      BY <2>2, Least
    <2> QED
      BY <2>3
  <1>c. c \in ChunksOf(s) /\ c \notin map[p] /\ c \in Nat
    BY SlabAssumption DEF ChunksOf
  <1> DEFINE full == map[p] \union {c} = ChunksOf(s)
             l == IF full THEN Detach(Unlink(Links, p), {p}) ELSE Links
  <1>1. /\ map' = [map EXCEPT ![p] = @ \union {c}]
        /\ next' = l.next /\ prev' = l.prev
        /\ used' = [used EXCEPT ![s] = @ + 1]
        /\ chunks' = chunks \union {<<p, c, s>>}
        /\ UNCHANGED <<slab, type, pfree, total, runs>>
    BY <1>2, <1>5 DEF AllocListed
  <1>6. Apart(FreeHeads, Avail) /\ \A t \in Slots : \A q \in Avail[t] : q \in Page /\ type[q] = t
    BY AvailApart
  <1>7. /\ RunsMarked' /\ FreeMarked' /\ Covered'
        /\ FreeHeads' = FreeHeads /\ FreePageSet' = FreePageSet
    BY <1>1, WordsKept
  <1>8. <<p, c, s>> \notin chunks
    <2>1. <<p, c, s>> \in chunks => c \in HeldIn(p)
      BY DEF HeldIn
    <2> QED
      BY <1>4, <1>c, <2>1
  <1>9. /\ IsFiniteSet(chunks') /\ chunks' \subseteq Page \X Nat \X Slots
        /\ used' \in [Slots -> Nat]
        /\ \A t \in Slots : used'[t] = Cardinality(HeldOf(t)')
        /\ HeldIn(p)' = HeldIn(p) \union {c}
        /\ \A q \in Page : q # p => HeldIn(q)' = HeldIn(q)
    BY <1>1, <1>3, <1>c, <1>8, ChunkTaken
  <1>10. /\ map' \in [Page -> SUBSET Nat] /\ map'[p] = map[p] \union {c}
         /\ \A q \in Page : q # p => map'[q] = map[q]
    BY <1>1, <1>3, <1>c DEF TypeOK
  <1>11. Divided'
    <2>1. ASSUME NEW q \in Page, type'[q] # PAGE
          PROVE  map'[q] = ReservedOf(type'[q]) \union HeldIn(q)'
      BY <1>1, <1>9, <1>10, <2>1 DEF Divided
    <2>2. ASSUME NEW b \in chunks'
          PROVE  type'[b[1]] = b[3] /\ b[2] \in ChunksOf(b[3]) \ ReservedOf(b[3])
      BY <1>1, <1>3, <1>4, <1>c, <2>2 DEF Divided
    <2> QED
      BY <2>1, <2>2 DEF Divided, ReservedOf, ChunksOf
  <1>12. Lists(l, FreeHeads, Avail', {}) /\ SamePages(Links, l, Avail[s])
    <2>1. CASE full
      <3> DEFINE B == [Avail EXCEPT ![s] = @ \ {p}]
      <3>1. B = Avail'
        <4>1. Avail' = [t \in Slots |-> {q \in Page : type[q] = t /\ map'[q] # ChunksOf(t)}]
          BY <1>1 DEF Avail, ChunksOf
        <4>2. B = [t \in Slots |-> IF t = s THEN Avail[s] \ {p} ELSE Avail[t]]
          BY DEF Avail
        <4>3. ASSUME NEW t \in Slots
              PROVE  (IF t = s THEN Avail[s] \ {p} ELSE Avail[t])
                       = {q \in Page : type[q] = t /\ map'[q] # ChunksOf(t)}
          <5>1. Avail[t] = {q \in Page : type[q] = t /\ map[q] # ChunksOf(t)}
            BY DEF Avail
          <5>2. map'[p] = ChunksOf(s)
            BY <1>10, <2>1
          <5> QED
            BY <1>3, <1>10, <5>1, <5>2
        <4> QED
          BY <4>1, <4>2, <4>3
      <3>2. {} \in SUBSET Page
        OBVIOUS
      <3>3. /\ Lists(Unlink(Links, p), FreeHeads, B, {} \union {p})
            /\ Apart(FreeHeads, B)
            /\ SamePages(Links, Unlink(Links, p), Avail[s])
        BY <1>2, <1>6, <3>2, ListsUnlinkSlot
      <3>4. {p} \intersect FreeHeads = {} /\ \A t \in Slots : {p} \intersect B[t] = {}
        <4>1. p \notin FreeHeads
          BY <1>3, <1>a DEF FreeHeads
        <4>2. \A t \in Slots : p \notin B[t]
          BY <1>3, <1>6 DEF Avail
        <4> QED
          BY <4>1, <4>2
      <3> HIDE DEF B
      <3>5. {} \union {p} \in SUBSET Page /\ {p} \in SUBSET Page
        BY <1>3
      <3>6. /\ Lists(Detach(Unlink(Links, p), {p}), FreeHeads, B, ({} \union {p}) \ {p})
            /\ SamePages(Unlink(Links, p), Detach(Unlink(Links, p), {p}), {p})
        BY ONLY <3>3, <3>4, <3>5, ListsDetach
      <3>7. ({} \union {p}) \ {p} = {}
        OBVIOUS
      <3>8. Lists(l, FreeHeads, Avail', {})
        BY <2>1, <3>1, <3>6, <3>7
      <3>9. SamePages(Links, l, Avail[s])
        <4>1. l = Detach(Unlink(Links, p), {p})
          BY <2>1
        <4> HIDE DEF l
        <4> QED
          BY <3>3, <3>6, <4>1 DEF SamePages
      <3> QED
        BY <3>8, <3>9
    <2>2. CASE ~ full
      <3>1. Avail' = Avail
        <4>1. ASSUME NEW q \in Page, NEW t \in Slots, type[q] = t
              PROVE  map'[q] # ChunksOf(t) <=> map[q] # ChunksOf(t)
          BY <1>3, <1>10, <2>2, <4>1
        <4> QED
          BY <1>1, <4>1 DEF Avail, ChunksOf
      <3> QED
        BY <2>2, <3>1 DEF SamePages
    <2> QED
      BY <2>1, <2>2
  <1>13. l = Links'
    <2>1. next' = l.next /\ prev' = l.prev
      BY <1>1
    <2>2. l = [next |-> l.next, prev |-> l.prev]
      BY DEF Detach, Links
    <2> QED
      BY <2>1, <2>2 DEF Links
  <1> HIDE DEF l
  <1>14. BackLinks'
    <2> SUFFICES ASSUME NEW h \in FreeHeads, slab[h] > 1, h + slab[h] < N
                 PROVE  prev'[h + slab[h] - 1] = h
      BY <1>1, <1>7 DEF BackLinks
    <2> DEFINE e == h + slab[h] - 1
    <2>1. e \in Span(h, slab[h])
      BY SlabAssumption, FreePlaces DEF Span
    <2>2. e \in Page /\ type[e] = PAGE
      BY <2>1, FreePlaces
    <2>3. l.prev[e] = prev[e]
      BY <1>12, <1>a, <1>6, <2>2 DEF SamePages, Links
    <2>4. prev[e] = h
      BY DEF BackLinks
    <2> QED
      BY <1>1, <2>3, <2>4
  <1>15. Counted'
    BY <1>1, <1>7, <1>9 DEF Counted, PagesOf, Usable
  <1>16. TypeOK'
    <2>1. next' \in [Node -> Node \union {NULL}] /\ prev' \in [Node -> Node \union {NULL}]
      BY <1>12, <1>13 DEF Lists, LinkFields, Links
    <2> QED
      BY <1>1, <1>9, <1>10, <2>1 DEF TypeOK
  <1>17. Lists(Links', FreeHeads', Avail', {})
    BY <1>7, <1>12, <1>13
  <1> QED
    BY <1>7, <1>11, <1>14, <1>15, <1>16, <1>17

\* The pages of a slot are counted with the chunks a page has for callers.
LEMMA PagesCounted ==
  ASSUME TypeOK, Counted, NEW s \in Slots, NEW p \in Page, NEW k \in {-1, 1},
         k = 1 => p \notin PagesOf(s) /\ PagesOf(s)' = PagesOf(s) \union {p},
         k = -1 => p \in PagesOf(s) /\ PagesOf(s)' = PagesOf(s) \ {p},
         \A t \in Slots : t # s => PagesOf(t)' = PagesOf(t),
         total' = [total EXCEPT ![s] = IF k = 1 THEN @ + Usable(s) ELSE @ - Usable(s)]
  PROVE  /\ total' \in [Slots -> Nat]
         /\ \A t \in Slots : total'[t] = Usable(t) * Cardinality(PagesOf(t)')
  <1>1. \A t \in Slots : Usable(t) \in Nat
    BY SlabAssumption DEF Usable
  <1>2. IsFiniteSet(PagesOf(s)) /\ Cardinality(PagesOf(s)) \in Nat
    <2>1. PagesOf(s) \in SUBSET Page
      BY DEF PagesOf
    <2> QED
      BY <2>1, PagesFinite, SlabAssumption
  <1>3. /\ Cardinality(PagesOf(s)') = Cardinality(PagesOf(s)) + k
        /\ k = -1 => Cardinality(PagesOf(s)) >= 1
    <2>1. CASE k = 1
      BY <1>2, <2>1, CountOne
    <2>2. CASE k = -1
      BY <1>2, <2>2, CountOne
    <2> QED
      BY <2>1, <2>2
  <1>4. \A u, m \in Nat : /\ u * (m + 1) = u * m + u /\ u * m \in Nat
                          /\ m >= 1 => u * (m - 1) = u * m - u /\ u * (m - 1) \in Nat
    OBVIOUS
  <1>5. /\ total'[s] = Usable(s) * Cardinality(PagesOf(s)')
        /\ total'[s] \in Nat
    <2>1. total[s] = Usable(s) * Cardinality(PagesOf(s)) /\ total[s] \in Nat
      BY DEF Counted, TypeOK
    <2>2. total'[s] = IF k = 1 THEN total[s] + Usable(s) ELSE total[s] - Usable(s)
      BY DEF TypeOK
    <2>3. CASE k = 1
      BY <1>1, <1>2, <1>3, <1>4, <2>1, <2>2, <2>3
    <2>4. CASE k = -1
      <3>1. Cardinality(PagesOf(s)') = Cardinality(PagesOf(s)) - 1
        BY <1>2, <1>3, <2>4
      <3> QED
        BY <1>1, <1>2, <1>3, <1>4, <2>1, <2>2, <2>4, <3>1
    <2> QED
      BY <2>3, <2>4
  <1>6. \A t \in Slots : t # s => total'[t] = Usable(t) * Cardinality(PagesOf(t)')
    BY DEF TypeOK, Counted
  <1>7. total' \in [Slots -> Nat]
    BY <1>5 DEF TypeOK
  <1> QED
    BY <1>5, <1>6, <1>7

\* ngx_slab_alloc() of a chunk of a new page preserves it: the slot's list was
\* empty and the new page has another free chunk.
LEMMA AllocNewPageKeeps ==
  ASSUME IInv, NEW s \in Slots, AllocNewPage(s)
  PROVE  IInv'
  <1> USE DEF IInv
  <1>a. N \in Nat \ {0} /\ 1 \in 1 .. N /\ PAGE \notin Slots
    BY SlabAssumption
  <1>b. Reserved[s] \in Nat /\ Chunks[s] \in Nat /\ Reserved[s] + 2 <= Chunks[s]
    BY SlabAssumption
  <1>1. PICK p \in Fits(1) :
          /\ slab' = CarvedSlab(p, 1)
          /\ type' = [type EXCEPT ![p] = s]
          /\ map' = [map EXCEPT ![p] = 0 .. Reserved[s]]
          /\ next' = [Carve(Links, p, 1).next EXCEPT ![p] = s, ![s] = p]
          /\ prev' = [Carve(Links, p, 1).prev EXCEPT ![p] = s]
          /\ pfree' = pfree - 1
          /\ chunks' = chunks \union {<<p, Reserved[s], s>>}
    BY DEF AllocNewPage
  <1>2. /\ total' = [total EXCEPT ![s] = @ + Usable(s)]
        /\ used' = [used EXCEPT ![s] = @ + 1]
        /\ runs' = runs
        /\ Avail[s] = {}
    BY ListedAvail DEF AllocNewPage
  <1>3. p \in FreeHeads /\ 1 <= slab[p] /\ p \in Page /\ type[p] = PAGE
    <2>1. p \in FreeHeads /\ slab[p] >= 1
      BY <1>a, FitsFree
    <2> QED
      BY <2>1, <1>a DEF FreeHeads
  <1>4. Apart(FreeHeads, Avail) /\ \A t \in Slots : \A q \in Avail[t] : q \in Page /\ type[q] = t
    BY AvailApart
  <1>5. type'[p] = s /\ \A q \in Page : q # p => type'[q] = type[q]
    BY <1>1, <1>3 DEF TypeOK
  <1>6. /\ FreeMarked'
        /\ FreePageSet' = FreePageSet \ Span(p, 1)
        /\ Span(p, 1) \subseteq FreePageSet
        /\ slab' \in [Page -> 0 .. 2 * N + 1]
        /\ \A q \in Page \ FreePageSet : slab'[q] = slab[q]
    BY <1>1, <1>3, <1>5, <1>a, CarvedWords
  <1> DEFINE m == Carve(Links, p, 1)
  <1>7. /\ Lists(m, FreeHeads', Avail, {}) /\ Apart(FreeHeads', Avail)
        /\ \A h \in FreeHeads' : slab'[h] > 1 /\ h + slab'[h] < N =>
             m.prev[h + slab'[h] - 1] = h
    BY <1>1, <1>3, <1>4, <1>5, <1>a, CarvedLinks
  <1>8. Span(p, 1) = {p}
    BY <1>a, <1>3 DEF Span, Page
  <1>9. /\ p \notin FreeHeads' /\ \A t \in Slots : p \notin Avail[t]
        /\ FreePageSet \subseteq Page
    BY <1>a, <1>3, <1>4, <1>5, FreePlaces DEF FreeHeads
  <1>10. /\ map' \in [Page -> SUBSET Nat] /\ map'[p] = 0 .. Reserved[s]
         /\ \A q \in Page : q # p => map'[q] = map[q]
    BY <1>1, <1>3, <1>b DEF TypeOK
  <1>11. /\ 0 .. Reserved[s] = ReservedOf(s) \union {Reserved[s]} /\ 0 .. Reserved[s] # ChunksOf(s)
         /\ Reserved[s] \in ChunksOf(s) \ ReservedOf(s)
    <2>1. Chunks[s] - 1 \in ChunksOf(s) /\ Chunks[s] - 1 \notin 0 .. Reserved[s]
      BY <1>b DEF ChunksOf
    <2> QED
      BY <1>b, <2>1 DEF ReservedOf, ChunksOf
  <1>12. Avail' = [Avail EXCEPT ![s] = {p}]
    <2>1. Avail' = [t \in Slots |-> {q \in Page : type'[q] = t /\ map'[q] # ChunksOf(t)}]
      BY DEF Avail, ChunksOf
    <2>2. ASSUME NEW t \in Slots
          PROVE  {q \in Page : type'[q] = t /\ map'[q] # ChunksOf(t)}
                   = IF t = s THEN {p} ELSE Avail[t]
      <3>1. Avail[t] = {q \in Page : type[q] = t /\ map[q] # ChunksOf(t)}
        BY DEF Avail
      <3>2. CASE t = s
        <4>1. \A q \in Page : ~ (type[q] = s /\ map[q] # ChunksOf(s))
          BY <1>2, <3>1, <3>2
        <4> QED
          BY <1>3, <1>5, <1>10, <1>11, <3>2, <4>1
      <3>3. CASE t # s
        BY <1>5, <1>9, <1>10, <3>1, <3>3
      <3> QED
        BY <3>2, <3>3
    <2>3. [Avail EXCEPT ![s] = {p}] = [t \in Slots |-> IF t = s THEN {p} ELSE Avail[t]]
      BY DEF Avail
    <2> QED
      BY <2>1, <2>2, <2>3
  <1>13. Lists(Links', FreeHeads', Avail', {})
    <2>1. /\ Links'.next = [m.next EXCEPT ![p] = s, ![s] = p]
          /\ Links'.prev = [m.prev EXCEPT ![p] = s]
          /\ Links' = [next |-> Links'.next, prev |-> Links'.prev]
      BY <1>1 DEF Links
    <2> HIDE DEF m
    <2> QED
      BY <1>2, <1>3, <1>7, <1>9, <1>12, <2>1, ListsStart
  <1>14. BackLinks'
    <2> SUFFICES ASSUME NEW h \in FreeHeads', slab'[h] > 1, h + slab'[h] < N
                 PROVE  prev'[h + slab'[h] - 1] = h
      BY DEF BackLinks
    <2> DEFINE e == h + slab'[h] - 1
    <2>1. slab'[h] \in 1 .. N /\ h \in 0 .. N - 1
      BY DEF FreeHeads, Page
    <2>2. e \in Span(h, slab'[h])
      BY <1>a, <2>1 DEF Span
    <2>3. e \in FreePageSet'
      BY <2>2 DEF FreePageSet, Span
    <2>4. e \in Page /\ e # p
      BY <1>6, <1>8, <1>9, <2>3
    <2>5. prev'[e] = m.prev[e]
      <3>1. m.prev \in [Node -> Node \union {NULL}]
        BY <1>7 DEF Lists, LinkFields
      <3> QED
        BY <1>1, <2>4, <3>1, NodesDiffer
    <2> QED
      BY <1>7, <2>5
  <1>15. RunsMarked'
    <2>1. ASSUME NEW b \in runs PROVE Marked(b)'
      <3>1. \A q \in Span(b[1], b[2]) : q \in Page /\ q \notin FreePageSet
        BY HeldPlaces
      <3> QED
        BY <1>5, <1>6, <1>8, <3>1, StaysMarked
    <2> QED
      BY <1>2, <2>1 DEF RunsMarked
  <1>16. Covered'
    <2> SUFFICES ASSUME NEW q \in Page, type'[q] = PAGE
                 PROVE  q \in FreePageSet' \/ \E b \in runs' : q \in Span(b[1], b[2])
      BY DEF Covered, Span
    <2>1. q # p /\ type[q] = PAGE
      BY <1>5, <1>a
    <2> QED
      BY <1>2, <1>6, <1>8, <2>1 DEF Covered
  <1>17. <<p, Reserved[s], s>> \notin chunks /\ HeldIn(p) = {}
    <2>1. \A b \in chunks : b[1] # p
      BY <1>3, <1>a DEF Divided, TypeOK
    <2> QED
      BY <2>1 DEF HeldIn
  <1>18. /\ IsFiniteSet(chunks') /\ chunks' \subseteq Page \X Nat \X Slots
         /\ used' \in [Slots -> Nat]
         /\ \A t \in Slots : used'[t] = Cardinality(HeldOf(t)')
         /\ HeldIn(p)' = HeldIn(p) \union {Reserved[s]}
         /\ \A q \in Page : q # p => HeldIn(q)' = HeldIn(q)
    BY <1>1, <1>2, <1>3, <1>b, <1>17, ChunkTaken
  <1>19. Divided'
    <2>1. ASSUME NEW q \in Page, type'[q] # PAGE
          PROVE  map'[q] = ReservedOf(type'[q]) \union HeldIn(q)'
      <3>1. CASE q = p
        BY <1>5, <1>10, <1>11, <1>17, <1>18, <3>1
      <3>2. CASE q # p
        BY <1>5, <1>10, <1>18, <2>1, <3>2 DEF Divided
      <3> QED
        BY <3>1, <3>2
    <2>2. ASSUME NEW b \in chunks'
          PROVE  type'[b[1]] = b[3] /\ b[2] \in ChunksOf(b[3]) \ ReservedOf(b[3])
      <3>1. CASE b = <<p, Reserved[s], s>>
        BY <1>5, <1>11, <3>1
      <3>2. CASE b \in chunks
        <4>1. b[1] \in Page /\ b[1] # p
          BY <1>3, <1>a, <3>2 DEF Divided, TypeOK
        <4> QED
          BY <1>5, <3>2, <4>1 DEF Divided
      <3> QED
        BY <1>1, <3>1, <3>2
    <2> QED
      BY <2>1, <2>2 DEF Divided, ReservedOf, ChunksOf
  <1>20. /\ total' \in [Slots -> Nat]
         /\ \A t \in Slots : total'[t] = Usable(t) * Cardinality(PagesOf(t)')
    <2>1. p \notin PagesOf(s) /\ PagesOf(s)' = PagesOf(s) \union {p}
      BY <1>3, <1>5, <1>a DEF PagesOf
    <2>2. \A t \in Slots : t # s => PagesOf(t)' = PagesOf(t)
      BY <1>3, <1>5, <1>a DEF PagesOf
    <2>3. 1 \in {-1, 1} /\ 1 # -1
      OBVIOUS
    <2> QED
      BY <1>2, <1>3, <2>1, <2>2, <2>3, PagesCounted
  <1>21. pfree' = Cardinality(FreePageSet') /\ pfree' \in 0 .. N
    <2>1. FreePageSet' \union {p} = FreePageSet /\ FreePageSet' \in SUBSET Page
          /\ p \notin FreePageSet'
      BY <1>6, <1>8, <1>9
    <2>2. IsFiniteSet(FreePageSet') /\ Cardinality(FreePageSet') \in 0 .. N
      BY <2>1, PagesFinite
    <2>3. Cardinality(FreePageSet) = Cardinality(FreePageSet') + 1
      BY <2>1, <2>2, CountOne
    <2> QED
      BY <1>1, <1>a, <2>2, <2>3 DEF Counted
  <1>22. Counted'
    BY <1>18, <1>20, <1>21 DEF Counted, Usable
  <1>23. TypeOK'
    <2>1. next' \in [Node -> Node \union {NULL}] /\ prev' \in [Node -> Node \union {NULL}]
      BY <1>13 DEF Lists, LinkFields, Links
    <2>2. type' \in [Page -> Slots \union {PAGE}]
      BY <1>1 DEF TypeOK
    <2> QED
      BY <1>2, <1>6, <1>10, <1>18, <1>20, <1>21, <2>1, <2>2 DEF TypeOK
  <1> QED
    BY <1>6, <1>13, <1>14, <1>15, <1>16, <1>19, <1>22, <1>23

\* ngx_slab_free() of an undivided page preserves it.
LEMMA FreeRunKeeps ==
  ASSUME IInv, NEW b \in runs, FreeRun(b[1], b[2])
  PROVE  IInv'
  <1> USE DEF IInv
  <1>a. N \in Nat \ {0} /\ PAGE \notin Slots
    BY SlabAssumption
  <1>1. PICK p \in Page, n \in 1 .. N : b = <<p, n>>
    BY DEF TypeOK
  <1>2. /\ p + n <= N /\ slab[p] = N + n
        /\ \A q \in Span(p, n) : q \in Page /\ type[q] = PAGE /\ q \notin FreePageSet
        /\ p \in 0 .. N - 1 /\ n \in 1 .. N /\ p \in Span(p, n)
    <2>1. Marked(<<p, n>>)
      BY <1>1 DEF RunsMarked
    <2>2. p + n <= N /\ slab[p] = N + n /\ \A q \in Span(p, n) : type[q] = PAGE
      BY <2>1 DEF Marked, Start
    <2>3. \A q \in Span(p, n) : q \in Page /\ q \notin FreePageSet
      BY <1>1, HeldPlaces
    <2>4. p \in 0 .. N - 1 /\ n \in 1 .. N /\ p \in Span(p, n)
      BY <1>a, <1>1 DEF Page, Span
    <2> QED
      BY <2>2, <2>3, <2>4
  <1>3. /\ FreePages(Links, p, n)
        /\ runs' = runs \ {<<p, n>>}
        /\ UNCHANGED <<type, map, total, used, chunks>>
    <2>1. slab[p] - N = n
      BY <1>a, <1>2
    <2> QED
      BY <1>1, <2>1 DEF FreeRun
  <1>4. Apart(FreeHeads, Avail) /\ \A t \in Slots : \A q \in Avail[t] : q \in Page /\ type[q] = t
    BY AvailApart
  <1>5. type' = [q \in Page |-> IF q \in Span(p, n) THEN PAGE ELSE type[q]]
    BY <1>2, <1>3 DEF TypeOK
  <1>6. /\ \A s \in Slots : \A q \in Span(p, n) : q \notin Avail[s]
        /\ \A q \in Span(p + 1, n - 1) : q \in Span(p, n)
    BY <1>a, <1>2, <1>4 DEF Span
  <1> DEFINE B == [s \in Slots |-> Avail[s] \ {p}]
  <1>7. /\ FreeMarked' /\ BackLinks'
        /\ slab' \in [Page -> 0 .. 2 * N + 1]
        /\ FreePageSet' = FreePageSet \union Span(p, n)
        /\ pfree' = pfree + n
        /\ \A q \in Page : q \notin FreePageSet \union Span(p, n) => slab'[q] = slab[q]
        /\ Lists(Links', FreeHeads', B, {})
    <2>1. \A q \in FreePageSet \ FreeHeads : Links.prev[q] = prev[q]
      BY DEF Links
    <2>2. \A q \in Page : type[q] = PAGE /\ slab[q] <= N => q \in FreePageSet
      BY HeldPlaces
    <2>3. \A s \in Slots : \A q \in Span(p + 1, n - 1) : q \notin Avail[s]
      BY <1>6
    <2> QED
      BY <1>1, <1>2, <1>3, <1>4, <1>5, <2>1, <2>2, <2>3, FreePagesEffect
  <1>8. Avail' = B
    <2>1. Avail' = Avail
      BY <1>3 DEF Avail
    <2>2. ASSUME NEW s \in Slots PROVE Avail[s] \ {p} = Avail[s]
      BY <1>2, <1>6
    <2> QED
      BY <2>1, <2>2 DEF Avail
  <1>9. FreePageSet \subseteq Page /\ Span(p, n) \intersect FreePageSet = {}
    BY <1>2, FreePlaces
  <1>10. RunsMarked'
    <2>1. ASSUME NEW x \in runs, x # <<p, n>> PROVE Marked(x)'
      <3>1. \A q \in Span(x[1], x[2]) : q \in Page /\ q \notin FreePageSet /\ q \notin Span(p, n)
        BY <1>1, <2>1, HeldPlaces, RunsApart
      <3> QED
        BY <1>3, <1>7, <3>1, StaysMarked
    <2> QED
      BY <1>3, <2>1 DEF RunsMarked
  <1>11. Covered'
    <2> SUFFICES ASSUME NEW q \in Page, type'[q] = PAGE
                 PROVE  q \in FreePageSet' \/ \E x \in runs' : q \in Span(x[1], x[2])
      BY DEF Covered, Span
    <2>1. q \in FreePageSet \/ \E x \in runs : q \in Span(x[1], x[2])
      BY <1>3 DEF Covered
    <2> QED
      BY <1>3, <1>7, <2>1
  <1>12. Divided'
    BY <1>3 DEF Divided, HeldIn
  <1>13. Counted' /\ pfree' \in 0 .. N
    <2>1. Cardinality(FreePageSet') = Cardinality(FreePageSet) + n
      BY <1>1, <1>2, <1>7, <1>9, CountSpan
    <2>2. Cardinality(FreePageSet') \in 0 .. N
      <3>1. FreePageSet' \in SUBSET Page
        BY <1>2, <1>7, <1>9
      <3> QED
        BY <3>1, PagesFinite
    <2>3. pfree' = Cardinality(FreePageSet')
      BY <1>7, <2>1 DEF Counted
    <2>4. \A s \in Slots : HeldOf(s)' = HeldOf(s) /\ PagesOf(s)' = PagesOf(s)
      BY <1>3 DEF HeldOf, PagesOf
    <2> QED
      BY <1>3, <2>2, <2>3, <2>4 DEF Counted
  <1>14. TypeOK'
    <2>1. next' \in [Node -> Node \union {NULL}] /\ prev' \in [Node -> Node \union {NULL}]
      BY <1>7 DEF Lists, LinkFields, Links
    <2> QED
      BY <1>3, <1>7, <1>13, <2>1 DEF TypeOK
  <1> QED
    BY <1>7, <1>8, <1>10, <1>11, <1>12, <1>13, <1>14

\* ngx_slab_free() of a chunk preserves it: a full page is listed first, and an
\* empty one is taken from the list again and released.
LEMMA FreeChunkKeeps ==
  ASSUME IInv, NEW b \in chunks, FreeChunk(b[1], b[2], b[3])
  PROVE  IInv'
  <1> USE DEF IInv
  <1>a. N \in Nat \ {0} /\ PAGE \notin Slots /\ 1 \in 1 .. N
    BY SlabAssumption
  <1>1. PICK p \in Page, c \in Nat, s \in Slots : b = <<p, c, s>>
    BY DEF TypeOK
  <1>2. type[p] = s /\ c \in ChunksOf(s) \ ReservedOf(s) /\ <<p, c, s>> \in chunks
    BY <1>1 DEF Divided
  <1> DEFINE full == IF s = Exact THEN map[p] = ChunksOf(s) ELSE next[p] = NULL
             l == IF full THEN Push(Links, p, s) ELSE Links
             left == map[p] \ {c}
             empty == left \subseteq ReservedOf(s)
  <1>3. /\ c \in map[p]
        /\ IF empty
           THEN /\ FreePages(l, p, 1)
                /\ type' = [type EXCEPT ![p] = PAGE]
                /\ map' = [map EXCEPT ![p] = {}]
                /\ total' = [total EXCEPT ![s] = @ - Usable(s)]
           ELSE /\ map' = [map EXCEPT ![p] = left]
                /\ next' = l.next
                /\ prev' = l.prev
                /\ UNCHANGED <<slab, type, pfree, total>>
        /\ used' = [used EXCEPT ![s] = @ - 1]
        /\ chunks' = chunks \ {<<p, c, s>>}
        /\ runs' = runs
    BY <1>1, <1>2 DEF FreeChunk
  <1>4. /\ map[p] \subseteq ChunksOf(s) /\ ReservedOf(s) \subseteq map[p]
        /\ HeldIn(p) \subseteq map[p] \ ReservedOf(s)
        /\ map[p] = ReservedOf(s) \union HeldIn(p)
    BY <1>2, <1>a, DividedPage DEF Divided
  <1>5. Apart(FreeHeads, Avail) /\ \A t \in Slots : \A q \in Avail[t] : q \in Page /\ type[q] = t
    BY AvailApart
  <1>6. p \notin FreePageSet /\ FreePageSet \subseteq Page /\ FreeHeads \subseteq FreePageSet
    BY <1>2, <1>a, FreePlaces
  \* The page is in its slot's list at the end of the first step.
  <1>7. PICK A1 :
          /\ A1 = [Avail EXCEPT ![s] = @ \union {p}]
          /\ Lists(l, FreeHeads, A1, {}) /\ Apart(FreeHeads, A1)
          /\ SamePages(Links, l, Avail[s] \union {p})
    <2> DEFINE A == [Avail EXCEPT ![s] = @ \union {p}]
    <2>1. full <=> p \notin Avail[s]
      <3>1. p \in Avail[s] <=> map[p] # ChunksOf(s)
        BY <1>2 DEF Avail
      <3>2. p \in Avail[s] => next[p] # NULL
        <4>1. p \in Avail[s] => next[p] \in Avail[s] \union {s}
          BY DEF Lists, List, Neighbours, Links
        <4> QED
          BY <4>1, <1>5, NodesDiffer DEF ListHead
      <3>3. p \notin Avail[s] => next[p] = NULL
        <4>1. ASSUME p \notin Avail[s] PROVE \A t \in Slots : p \notin Avail[t]
          BY <1>2, <1>5, <4>1
        <4> QED
          BY <4>1, <1>6 DEF Lists, Links
      <3> QED
        BY <3>1, <3>2, <3>3
    <2>2. CASE full
      <3>1. p \notin FreeHeads /\ \A t \in Slots : p \notin Avail[t]
        BY <1>2, <1>5, <1>6, <2>1, <2>2
      <3>2. {} \in SUBSET Page
        OBVIOUS
      <3>3. /\ Lists(Push(Links, p, s), FreeHeads, A, {})
            /\ Apart(FreeHeads, A)
            /\ SamePages(Links, Push(Links, p, s), Avail[s] \union {p})
        BY <1>5, <3>1, <3>2, ListsPushSlot
      <3> QED
        BY <2>2, <3>3
    <2>3. CASE ~ full
      <3>1. A = Avail
        <4>1. p \in Avail[s]
          BY <2>1, <2>3
        <4>2. Avail[s] \union {p} = Avail[s]
          BY <4>1
        <4> QED
          BY <4>2 DEF Avail
      <3> QED
        BY <1>5, <2>3, <3>1 DEF SamePages
    <2> QED
      BY <2>2, <2>3
  <1>8. /\ \A t \in Slots : A1[t] = IF t = s THEN Avail[s] \union {p} ELSE Avail[t]
        /\ DOMAIN A1 = Slots
    BY <1>7 DEF Avail
  <1>9. /\ IsFiniteSet(chunks') /\ chunks' \subseteq Page \X Nat \X Slots
        /\ used' \in [Slots -> Nat]
        /\ \A t \in Slots : used'[t] = Cardinality(HeldOf(t)')
        /\ HeldIn(p)' = HeldIn(p) \ {c}
        /\ \A q \in Page : q # p => HeldIn(q)' = HeldIn(q)
    <2>1. \A x \in chunks : x[1] = p => x[3] = s
      BY <1>2 DEF Divided
    <2> QED
      BY <1>2, <1>3, <2>1, ChunkReturned
  <1>10. \A q \in FreePageSet : l.prev[q] = prev[q]
    <2>1. \A q \in FreePageSet : q \in Page /\ type[q] = PAGE
      BY FreePlaces
    <2> HIDE DEF l
    <2>2. \A q \in FreePageSet : q \notin Avail[s] \union {p}
      BY <1>a, <1>5, <1>6, <2>1
    <2> QED
      BY <1>7, <2>1, <2>2 DEF SamePages, Links
  <1> HIDE DEF full
  <1>11. CASE empty
    <2>1. /\ FreePages(l, p, 1)
          /\ type' = [type EXCEPT ![p] = PAGE]
          /\ map' = [map EXCEPT ![p] = {}]
          /\ total' = [total EXCEPT ![s] = @ - Usable(s)]
      BY <1>3, <1>11
    <2>2. Span(p, 1) = {p} /\ Span(p + 1, 1 - 1) = {} /\ p + 1 <= N
      BY <1>a DEF Span, Page
    <2>3. type' = [q \in Page |-> IF q \in Span(p, 1) THEN PAGE ELSE type[q]]
      BY <2>1, <2>2 DEF TypeOK
    <2> HIDE DEF l
    <2> DEFINE B == [t \in Slots |-> A1[t] \ {p}]
    <2>4. /\ FreeMarked' /\ BackLinks'
          /\ slab' \in [Page -> 0 .. 2 * N + 1]
          /\ FreePageSet' = FreePageSet \union Span(p, 1)
          /\ pfree' = pfree + 1
          /\ \A q \in Page : q \notin FreePageSet \union Span(p, 1) => slab'[q] = slab[q]
          /\ Lists(Links', FreeHeads', B, {})
      <3>1. \A t \in Slots : \A q \in A1[t] : type[q] = t
        BY <1>2, <1>5, <1>8
      <3>2. \A q \in FreePageSet \ FreeHeads : l.prev[q] = prev[q]
        BY <1>10
      <3>3. \A q \in Page : type[q] = PAGE /\ slab[q] <= N => q \in FreePageSet
        BY HeldPlaces
      <3>4. PICK n \in 1 .. N : n = 1
        BY <1>a
      <3>5. /\ FreePages(l, p, n) /\ p + n <= N
            /\ type' = [q \in Page |-> IF q \in Span(p, n) THEN PAGE ELSE type[q]]
            /\ \A q \in Span(p, n) : q \notin FreePageSet
            /\ \A t \in Slots : \A q \in Span(p + 1, n - 1) : q \notin A1[t]
        BY <1>6, <2>1, <2>2, <2>3, <3>4
      <3>6. /\ FreeMarked' /\ BackLinks'
            /\ slab' \in [Page -> 0 .. 2 * N + 1]
            /\ FreePageSet' = FreePageSet \union Span(p, n)
            /\ pfree' = pfree + n
            /\ \A q \in Page : q \notin FreePageSet \union Span(p, n) => slab'[q] = slab[q]
            /\ Lists(Links', FreeHeads', B, {})
        <4>1. TypeOK /\ FreeMarked /\ BackLinks /\ Apart(FreeHeads, A1)
              /\ Lists(l, FreeHeads, A1, {})
          BY <1>7
        <4> HIDE DEF B, IInv
        <4>2. FreeMarked' /\ BackLinks'
          BY ONLY <4>1, <3>1, <3>2, <3>3, <3>5, FreePagesEffect
        <4>3. slab' \in [Page -> 0 .. 2 * N + 1]
          BY ONLY <4>1, <3>1, <3>2, <3>3, <3>5, FreePagesEffect
        <4>4. FreePageSet' = FreePageSet \union Span(p, n)
          BY ONLY <4>1, <3>1, <3>2, <3>3, <3>5, FreePagesEffect
        <4>5. Lists(Links', FreeHeads', B, {})
          BY ONLY <4>1, <3>1, <3>2, <3>3, <3>5, FreePagesEffect DEF B
        <4>6. pfree' = pfree + n
          BY ONLY <4>1, <3>1, <3>2, <3>3, <3>5, FreePagesEffect
        <4>7. \A q \in Page : q \notin FreePageSet \union Span(p, n) => slab'[q] = slab[q]
          BY ONLY <4>1, <3>1, <3>2, <3>3, <3>5, FreePagesEffect
        <4> QED
          BY <4>2, <4>3, <4>4, <4>5, <4>6, <4>7
      <3> QED
        BY <3>4, <3>6
    <2>5. /\ \A q \in Page : q # p => type'[q] = type[q] /\ map'[q] = map[q]
          /\ type'[p] = PAGE
          /\ map' \in [Page -> SUBSET Nat] /\ type' \in [Page -> Slots \union {PAGE}]
      BY <2>1 DEF TypeOK
    <2>6. Avail' = B
      <3>1. Avail' = [t \in Slots |-> {q \in Page : type'[q] = t /\ map'[q] # ChunksOf(t)}]
        BY DEF Avail, ChunksOf
      <3>2. ASSUME NEW t \in Slots
            PROVE  {q \in Page : type'[q] = t /\ map'[q] # ChunksOf(t)} = A1[t] \ {p}
        <4>1. Avail[t] = {q \in Page : type[q] = t /\ map[q] # ChunksOf(t)}
          BY DEF Avail
        <4> QED
          BY <1>8, <1>a, <2>5, <4>1
      <3> QED
        BY <3>1, <3>2
    <2>7. RunsMarked'
      <3>1. ASSUME NEW x \in runs PROVE Marked(x)'
        <4>1. \A q \in Span(x[1], x[2]) : q \in Page /\ q \notin FreePageSet /\ q # p
          BY <1>2, <1>a, HeldPlaces DEF RunsMarked, Marked
        <4> QED
          BY <2>2, <2>4, <2>5, <4>1, StaysMarked
      <3> QED
        BY <1>3, <3>1 DEF RunsMarked
    <2>8. Covered'
      <3> SUFFICES ASSUME NEW q \in Page, type'[q] = PAGE
                   PROVE  q \in FreePageSet' \/ \E x \in runs' : q \in Span(x[1], x[2])
        BY DEF Covered, Span
      <3> QED
        BY <1>3, <2>2, <2>4, <2>5 DEF Covered
    <2>9. Divided'
      <3>1. HeldIn(p)' = {}
        BY <1>4, <1>9, <1>11
      <3>2. ASSUME NEW x \in chunks'
            PROVE  type'[x[1]] = x[3] /\ x[2] \in ChunksOf(x[3]) \ ReservedOf(x[3])
        <4>1. x \in chunks /\ x[1] \in Page
          BY <1>3, <1>9
        <4>2. x[1] # p
          BY <3>1 DEF HeldIn
        <4> QED
          BY <2>5, <4>1, <4>2 DEF Divided
      <3>3. ASSUME NEW q \in Page, type'[q] # PAGE
            PROVE  map'[q] = ReservedOf(type'[q]) \union HeldIn(q)'
        BY <1>9, <2>5, <3>3 DEF Divided
      <3> QED
        BY <3>2, <3>3 DEF Divided, ReservedOf, ChunksOf
    <2>10. /\ total' \in [Slots -> Nat]
           /\ \A t \in Slots : total'[t] = Usable(t) * Cardinality(PagesOf(t)')
      <3>1. p \in PagesOf(s) /\ PagesOf(s)' = PagesOf(s) \ {p}
        BY <1>2, <1>a, <2>5 DEF PagesOf
      <3>2. \A t \in Slots : t # s => PagesOf(t)' = PagesOf(t)
        BY <1>2, <1>a, <2>5 DEF PagesOf
      <3>3. -1 \in {-1, 1} /\ 1 # -1
        OBVIOUS
      <3> QED
        BY <2>1, <3>1, <3>2, <3>3, PagesCounted
    <2>11. pfree' = Cardinality(FreePageSet') /\ pfree' \in 0 .. N
      <3>1. FreePageSet' = FreePageSet \union {p} /\ FreePageSet' \in SUBSET Page
        BY <1>6, <2>2, <2>4
      <3>2. IsFiniteSet(FreePageSet)
        BY <1>6, PagesFinite
      <3>3. Cardinality(FreePageSet') = Cardinality(FreePageSet) + 1
        BY <1>6, <3>1, <3>2, CountOne
      <3>4. Cardinality(FreePageSet') \in 0 .. N
        BY <3>1, PagesFinite
      <3> QED
        BY <2>4, <3>3, <3>4 DEF Counted
    <2>12. Counted'
      BY <1>9, <2>10, <2>11 DEF Counted, Usable
    <2>13. TypeOK'
      <3>1. next' \in [Node -> Node \union {NULL}] /\ prev' \in [Node -> Node \union {NULL}]
        BY <2>4 DEF Lists, LinkFields, Links
      <3> QED
        BY <1>3, <1>9, <2>4, <2>5, <2>10, <2>11, <3>1 DEF TypeOK
    <2> QED
      BY <2>4, <2>6, <2>7, <2>8, <2>9, <2>12, <2>13
  <1>12. CASE ~ empty
    <2>1. /\ map' = [map EXCEPT ![p] = left]
          /\ next' = l.next
          /\ prev' = l.prev
          /\ UNCHANGED <<slab, type, pfree, total>>
      BY <1>3, <1>12
    <2>2. /\ RunsMarked' /\ FreeMarked' /\ Covered'
          /\ FreeHeads' = FreeHeads /\ FreePageSet' = FreePageSet
      BY <1>3, <2>1, WordsKept
    <2>3. /\ map' \in [Page -> SUBSET Nat] /\ map'[p] = left
          /\ \A q \in Page : q # p => map'[q] = map[q]
      BY <2>1 DEF TypeOK
    <2>4. Avail' = A1
      <3>1. Avail' = [t \in Slots |-> {q \in Page : type[q] = t /\ map'[q] # ChunksOf(t)}]
        BY <2>1 DEF Avail, ChunksOf
      <3>2. ASSUME NEW t \in Slots
            PROVE  {q \in Page : type[q] = t /\ map'[q] # ChunksOf(t)} = A1[t]
        <4>1. Avail[t] = {q \in Page : type[q] = t /\ map[q] # ChunksOf(t)}
          BY DEF Avail
        <4>2. left # ChunksOf(s)
          BY <1>2
        <4> QED
          BY <1>2, <1>8, <2>3, <4>1, <4>2
      <3>3. A1 = [t \in Slots |-> A1[t]]
        BY <1>7 DEF Avail
      <3> QED
        BY <3>1, <3>2, <3>3
    <2>5. l = Links'
      <3>1. l = [next |-> l.next, prev |-> l.prev]
        BY DEF Push, Links
      <3> QED
        BY <2>1, <3>1 DEF Links
    <2> HIDE DEF l
    <2>6. BackLinks'
      <3> SUFFICES ASSUME NEW h \in FreeHeads, slab[h] > 1, h + slab[h] < N
                   PROVE  prev'[h + slab[h] - 1] = h
        BY <2>1, <2>2 DEF BackLinks
      <3>1. h + slab[h] - 1 \in FreePageSet
        BY <1>a, FreePlaces DEF Span
      <3>2. prev[h + slab[h] - 1] = h
        BY DEF BackLinks
      <3> QED
        BY <1>10, <2>1, <3>1, <3>2
    <2>7. Divided'
      <3>1. ASSUME NEW q \in Page, type'[q] # PAGE
            PROVE  map'[q] = ReservedOf(type'[q]) \union HeldIn(q)'
        <4>1. CASE q = p
          BY <1>2, <1>4, <1>9, <2>1, <2>3, <4>1
        <4>2. CASE q # p
          BY <1>9, <2>1, <2>3, <3>1, <4>2 DEF Divided
        <4> QED
          BY <4>1, <4>2
      <3>2. ASSUME NEW x \in chunks'
            PROVE  type'[x[1]] = x[3] /\ x[2] \in ChunksOf(x[3]) \ ReservedOf(x[3])
        BY <1>3, <2>1 DEF Divided
      <3> QED
        BY <3>1, <3>2 DEF Divided, ReservedOf, ChunksOf
    <2>8. Counted'
      BY <1>9, <2>1, <2>2 DEF Counted, PagesOf, Usable
    <2>9. TypeOK'
      <3>1. next' \in [Node -> Node \union {NULL}] /\ prev' \in [Node -> Node \union {NULL}]
        BY <1>7, <2>5 DEF Lists, LinkFields, Links
      <3> QED
        BY <1>3, <1>9, <2>1, <2>3, <3>1 DEF TypeOK
    <2> QED
      BY <1>7, <2>2, <2>4, <2>5, <2>6, <2>7, <2>8, <2>9
  <1> QED
    BY <1>11, <1>12

\* ngx_slab_init() leaves one free run of all pages, and empty slot lists.
LEMMA InitInductive ==
  ASSUME Init
  PROVE  IInv
  <1> USE DEF Init
  <1>a. N \in Nat \ {0} /\ PAGE \notin Slots /\ 0 \in Page
    BY SlabAssumption DEF Page
  <1>1. FreeHeads = {0}
    BY <1>a DEF FreeHeads
  <1>2. FreePageSet = Page
    <2>1. FreePageSet = Span(0, N)
      BY <1>1, <1>a DEF FreePageSet
    <2> QED
      BY <1>a, <2>1 DEF Span, Page
  <1>3. \A s \in Slots : Avail[s] = {} /\ HeldOf(s) = {} /\ PagesOf(s) = {}
    BY <1>a DEF Avail, HeldOf, PagesOf
  <1>b. /\ 0 \in Node /\ FREE \in Node /\ Slots \subseteq Node /\ 0 # FREE /\ 0 \notin Slots
        /\ FREE \notin Slots
    BY <1>a, NodesDiffer, SlabAssumption DEF ListHead
  <1>4. TypeOK
    <2>1. slab \in [Page -> 0 .. 2 * N + 1]
      BY <1>a
    <2>2. next \in [Node -> Node \union {NULL}] /\ prev \in [Node -> Node \union {NULL}]
      BY <1>b
    <2> QED
      BY <1>a, <2>1, <2>2 DEF TypeOK
  <1>5. RunsMarked /\ Covered /\ BackLinks
    BY <1>a, <1>1, <1>2 DEF RunsMarked, Covered, BackLinks
  <1>6. FreeMarked
    <2>1. slab[0] = N /\ 0 + N \notin FreeHeads /\ \A q \in Span(0 + 1, N - 1) : q \in Page /\ q # 0
      BY <1>a, <1>1 DEF Span, Page
    <2> QED
      BY <1>a, <1>1, <2>1 DEF FreeMarked
  <1>7. Divided
    BY DEF Divided
  <1>8. Counted
    <2>1. Cardinality(Page) = N
      <3>1. Cardinality(0 .. N - 1) = (N - 1) - 0 + 1
        BY <1>a, FS_Interval
      <3> QED
        BY <1>a, <3>1 DEF Page
    <2>2. Cardinality({}) = 0 /\ IsFiniteSet({})
      BY FS_EmptySet
    <2>3. \A s \in Slots : Usable(s) * 0 = 0
      BY SlabAssumption DEF Usable
    <2> QED
      BY <1>2, <1>3, <2>1, <2>2, <2>3 DEF Counted
  <1>9. Lists(Links, FreeHeads, Avail, {})
    <2>1. Links \in LinkFields
      BY <1>4 DEF Links, LinkFields, TypeOK
    <2>2. List(Links, FREE, FreeHeads)
      <3>1. /\ next[FREE] = 0 /\ next[0] = FREE /\ prev[0] = FREE
        BY <1>b
      <3>2. Neighbours(Links, FREE, {0})
        BY <1>b, <3>1 DEF Neighbours, Links
      <3> DEFINE rank == [y \in Page |-> 0]
      <3>3. rank \in [Page -> Nat] /\ Ranked(Links, {0}, rank)
        BY <1>b, <3>1 DEF Ranked, Links
      <3> QED
        BY <1>1, <3>2, <3>3 DEF List
    <2>3. ASSUME NEW s \in Slots PROVE List(Links, s, Avail[s])
      <3>1. next[s] = s
        BY <1>b
      <3>2. Neighbours(Links, s, {})
        BY <3>1 DEF Neighbours, Links
      <3> DEFINE rank == [y \in Page |-> 0]
      <3>3. rank \in [Page -> Nat] /\ Ranked(Links, {}, rank)
        BY DEF Ranked
      <3> QED
        BY <1>3, <3>2, <3>3 DEF List
    <2>4. \A q \in Page \ {0} : next[q] = NULL
      BY NodesDiffer, <1>b DEF ListHead
    <2> QED
      BY <1>1, <2>1, <2>2, <2>3, <2>4 DEF Lists, Links
  <1> QED
    BY <1>4, <1>5, <1>6, <1>7, <1>8, <1>9 DEF IInv

\* Every step preserves it.
LEMMA NextInductive ==
  ASSUME IInv, [Next]_vars
  PROVE  IInv'
  <1>1. CASE Next
    <2>1. CASE \E n \in 1 .. N : AllocRun(n)
      BY <2>1, AllocRunKeeps
    <2>2. CASE \E s \in Slots : AllocListed(s) \/ AllocNewPage(s)
      BY <2>2, AllocListedKeeps, AllocNewPageKeeps
    <2>3. CASE \E b \in runs : FreeRun(b[1], b[2])
      BY <2>3, FreeRunKeeps
    <2>4. CASE \E b \in chunks : FreeChunk(b[1], b[2], b[3])
      BY <2>4, FreeChunkKeeps
    <2> QED
      BY <1>1, <2>1, <2>2, <2>3, <2>4 DEF Next
  <1>2. CASE UNCHANGED vars
    <2>1. /\ RunsMarked' /\ FreeMarked' /\ Covered'
          /\ FreeHeads' = FreeHeads /\ FreePageSet' = FreePageSet
      BY <1>2, WordsKept DEF IInv, vars
    <2>2. TypeOK' /\ BackLinks' /\ Divided' /\ Avail' = Avail /\ Links' = Links
      BY <1>2, <2>1 DEF IInv, vars, TypeOK, BackLinks, Divided, HeldIn, Avail, Links
    <2>3. Counted'
      BY <1>2, <2>1 DEF IInv, vars, Counted, HeldOf, PagesOf
    <2> QED
      BY <2>1, <2>2, <2>3 DEF IInv
  <1> QED
    BY <1>1, <1>2

-----------------------------------------------------------------------------
(***************************************************************************)
(* The theorems.                                                           *)
(***************************************************************************)

\* The inductive invariant holds after every sequence of ngx_slab_alloc() and
\* ngx_slab_free() calls.
THEOREM AlwaysInductive == Spec => []IInv
  <1>1. Init => IInv
    BY InitInductive
  <1>2. IInv /\ [Next]_vars => IInv'
    BY NextInductive
  <1> QED
    BY <1>1, <1>2, PTL DEF Spec

\* Words, links and counters stay in their range: the counters never go below 0
\* and the links never lead out of the pool.
THEOREM AlwaysTypeOK == Spec => []TypeOK
  <1>1. IInv => TypeOK
    BY DEF IInv
  <1> QED
    BY <1>1, AlwaysInductive, PTL

\* ngx_slab_alloc() never hands out memory that somebody holds, and never divides
\* a run under its holder.
THEOREM AlwaysNoOverlap == Spec => []NoOverlap
  <1>1. IInv => NoOverlap
    <2> SUFFICES ASSUME IInv PROVE NoOverlap
      OBVIOUS
    <2>1. ASSUME NEW b \in runs
          PROVE  /\ \A q \in Span(b[1], b[2]) : q \in Page /\ type[q] = PAGE
                 /\ slab[b[1]] = Start(b[2])
                 /\ \A q \in Span(b[1] + 1, b[2] - 1) : slab[q] = BUSY
      BY HeldPlaces DEF IInv, RunsMarked, Marked
    <2>2. ASSUME NEW b \in chunks
          PROVE  type[b[1]] = b[3] /\ b[2] \in map[b[1]] \ ReservedOf(b[3])
      <3>1. /\ b[1] \in Page /\ type[b[1]] = b[3] /\ b[3] # PAGE
            /\ b[2] \notin ReservedOf(b[3]) /\ b[2] \in HeldIn(b[1])
        BY SlabAssumption DEF IInv, TypeOK, Divided, HeldIn
      <3>2. map[b[1]] = ReservedOf(type[b[1]]) \union HeldIn(b[1])
        BY <3>1 DEF IInv, Divided
      <3> QED
        BY <3>1, <3>2
    <2>3. \A s \in Slots : used[s] = Cardinality({b \in chunks : b[3] = s})
      BY DEF IInv, Counted, HeldOf
    <2> QED
      BY <2>1, <2>2, <2>3 DEF NoOverlap
  <1> QED
    BY <1>1, AlwaysInductive, PTL

\* ngx_slab_free() loses no page and no chunk: every page is free, held or
\* divided, and pfree and the statistics of the slots say so.
THEOREM AlwaysNoLeak == Spec => []NoLeak
  <1>1. IInv => NoLeak
    BY DEF IInv, NoLeak, Covered, Divided, HeldIn, Counted, PagesOf
  <1> QED
    BY <1>1, AlwaysInductive, PTL

\* ngx_slab_free_pages() joins a released run with the free runs beside it, and
\* the links it finds them by are right.
THEOREM AlwaysFreeRunsJoined == Spec => []FreeRunsJoined
  <1>1. IInv => FreeRunsJoined
    <2> SUFFICES ASSUME IInv, NEW p \in FreeHeads
                 PROVE  /\ \A q \in Span(p + 1, slab[p] - 1) :
                             q \in Page /\ type[q] = PAGE /\ slab[q] = 0 /\ next[q] = NULL
                        /\ p + slab[p] \notin FreeHeads
                        /\ slab[p] > 1 /\ p + slab[p] < N => prev[p + slab[p] - 1] = p
                        /\ next[p] \in FreeHeads \union {FREE}
                        /\ prev[p] \in FreeHeads \union {FREE}
                        /\ next[prev[p]] = p
                        /\ next[p] # FREE => prev[next[p]] = p
      BY DEF FreeRunsJoined
    <2>1. /\ p + slab[p] \notin FreeHeads
          /\ slab[p] > 1 /\ p + slab[p] < N => prev[p + slab[p] - 1] = p
          /\ \A q \in Span(p + 1, slab[p] - 1) : type[q] = PAGE /\ slab[q] = 0
      BY DEF IInv, FreeMarked, BackLinks
    <2>2. ASSUME NEW q \in Span(p + 1, slab[p] - 1) PROVE q \in Page /\ next[q] = NULL
      <3>1. q \in Page
        <4>1. q \in Span(p, slab[p]) /\ Span(p, slab[p]) \subseteq Page
          BY FreePlaces, SlabAssumption DEF IInv, Span
        <4> QED
          BY <4>1
      <3>2. q \notin FreeHeads /\ \A s \in Slots : q \notin Avail[s]
        BY <2>1, SlabAssumption DEF FreeHeads, Avail
      <3> QED
        BY <3>1, <3>2 DEF IInv, Lists, Links
    <2>3. /\ next[p] \in FreeHeads \union {FREE} /\ prev[p] \in FreeHeads \union {FREE}
          /\ next[prev[p]] = p
          /\ next[p] # FREE => prev[next[p]] = p
      BY DEF IInv, Lists, List, Neighbours, Links
    <2> QED
      BY <2>1, <2>2, <2>3
  <1> QED
    BY <1>1, AlwaysInductive, PTL

-----------------------------------------------------------------------------
(***************************************************************************)
(* A request fails only for want of room.                                  *)
(***************************************************************************)

\* Along a list the rank increases, until the walk is back at the head.
LEMMA WalkClimbs ==
  ASSUME NEW h \in ListHead, NEW S \in SUBSET Page, List(Links, h, S),
         NEW rank \in [Page -> Nat], Ranked(Links, S, rank),
         NEW i \in 0 .. N, \A j \in 1 .. i : Walk(h)[j] \in S
  PROVE  \A j, k \in 1 .. i : j < k => rank[Walk(h)[j]] < rank[Walk(h)[k]]
  <1> DEFINE w == Walk(h)
             T == {k \in 0 .. i : \A j \in 1 .. k : j < k => rank[w[j]] < rank[w[k]]}
  <1>a. N \in Nat /\ i \in Nat /\ i <= N
    BY SlabAssumption
  <1>1. 0 \in T
    BY <1>a
  <1>2. ASSUME NEW k \in 0 .. i - 1, k \in T PROVE k + 1 \in T
    <2>1. k + 1 \in 1 .. i /\ k \in 0 .. N - 1
      BY <1>a
    <2>2. CASE k = 0
      BY <1>a, <2>1, <2>2
    <2>3. CASE k # 0
      <3>1. k \in 1 .. i /\ w[k] \in S /\ w[k + 1] \in S
        BY <1>a, <2>1, <2>3
      <3>2. w[k + 1] = next[w[k]]
        BY <2>1, WalkSteps
      <3>3. prev[w[k + 1]] = w[k]
        <4>1. next[w[k]] # h
          BY <3>1, <3>2, NodesDiffer
        <4> QED
          BY <3>1, <3>2, <4>1 DEF List, Neighbours, Links
      <3>4. rank[w[k]] < rank[w[k + 1]]
        BY <3>1, <3>3 DEF Ranked, Links
      <3> HIDE DEF w
      <3>5. ASSUME NEW j \in 1 .. k + 1, j < k + 1 PROVE rank[w[j]] < rank[w[k + 1]]
        <4>1. CASE j = k
          BY <3>4, <4>1
        <4>2. CASE j # k
          <5>1. j \in 1 .. k /\ j < k /\ j \in 1 .. i
            BY <1>a, <2>1, <3>5, <4>2
          <5>2. rank[w[j]] < rank[w[k]]
            BY <1>2, <5>1
          <5>3. w[j] \in Page /\ w[k] \in Page /\ w[k + 1] \in Page
            BY <3>1, <5>1 DEF w
          <5> QED
            BY <3>4, <5>2, <5>3
        <4> QED
          BY <4>1, <4>2
      <3>6. k + 1 \in 0 .. i
        BY <2>1
      <3> QED
        BY <3>5, <3>6
    <2> QED
      BY <2>2, <2>3
  <1> HIDE DEF T
  <1>3. 0 .. i \subseteq T
    BY <1>a, <1>1, <1>2, Upto
  <1> QED
    BY <1>a, <1>3 DEF T

\* A walk meets every page of its list before it is back at the head.
LEMMA WalkReaches ==
  ASSUME NEW h \in ListHead, NEW S \in SUBSET Page, List(Links, h, S), NEW x \in S
  PROVE  \E i \in 1 .. N : Walk(h)[i] = x /\ \A j \in 1 .. i : Walk(h)[j] \in S
  <1> DEFINE w == Walk(h)
             Met(y) == \E i \in 1 .. N : w[i] = y /\ \A j \in 1 .. i : w[j] \in S
  <1>a. N \in Nat \ {0}
    BY SlabAssumption
  <1>1. PICK rank \in [Page -> Nat] : Ranked(Links, S, rank)
    BY DEF List
  <1> SUFFICES ASSUME ~ Met(x) PROVE FALSE
    OBVIOUS
  <1> DEFINE T == {rank[y] : y \in {z \in S : ~ Met(z)}}
  <1>2. T \in SUBSET Nat /\ T # {}
    <2> HIDE DEF Met
    <2> QED
      OBVIOUS
  <1>3. PICK r \in T : \A t \in T : r <= t
    <2> HIDE DEF T
    <2> QED
      BY <1>2, Least
  <1>4. PICK y \in S : ~ Met(y) /\ rank[y] = r
    <2> HIDE DEF Met
    <2> QED
      OBVIOUS
  <1>5. /\ prev[y] \in S \union {h} /\ next[prev[y]] = y
    BY DEF List, Neighbours, Links
  <1>6. w[0] = h /\ \A i \in 0 .. N - 1 : w[i + 1] = next[w[i]]
    BY WalkSteps
  <1> HIDE DEF w
  <1>7. CASE prev[y] = h
    <2>1. w[0 + 1] = y /\ 1 \in 1 .. N
      BY <1>a, <1>5, <1>6, <1>7
    <2>2. w[1] = y /\ \A j \in 1 .. 1 : w[j] \in S
      BY <2>1
    <2> QED
      BY <1>4, <2>1, <2>2
  <1>8. CASE prev[y] \in S
    <2>1. rank[prev[y]] < rank[y] /\ rank[prev[y]] \in Nat /\ rank[y] \in Nat
      BY <1>1, <1>8 DEF Ranked, Links
    <2>2. Met(prev[y])
      <3> HIDE DEF Met
      <3>1. ~ Met(prev[y]) => rank[prev[y]] \in T
        BY <1>8
      <3> QED
        BY <1>3, <1>4, <2>1, <3>1
    <2>3. PICK i \in 1 .. N : w[i] = prev[y] /\ \A j \in 1 .. i : w[j] \in S
      BY <2>2
    <2>4. CASE i < N
      <3>1. i + 1 \in 1 .. N /\ w[i + 1] = y
        BY <1>a, <1>5, <1>6, <2>3, <2>4
      <3>2. \A j \in 1 .. i + 1 : w[j] \in S
        <4>1. \A j \in 1 .. i + 1 : j = i + 1 \/ j \in 1 .. i
          BY <1>a
        <4> QED
          BY <2>3, <3>1, <4>1
      <3> QED
        BY <1>4, <3>1, <3>2
    <2>5. CASE i = N
      \* N different pages have been met, and there are no more than N.
      <3>1. \A j \in 1 .. N : w[j] \in Page /\ w[j] # y
        <4> SUFFICES ASSUME NEW j \in 1 .. N, w[j] = y PROVE FALSE
          BY <2>3, <2>5
        <4>1. \A k \in 1 .. j : w[k] \in S
          BY <1>a, <2>3, <2>5
        <4> QED
          BY <1>4, <4>1
      <3> DEFINE f == [j \in 1 .. N |-> w[j]]
      <3>2. f \in [1 .. N -> Page \ {y}]
        BY <3>1
      <3>3. IsFiniteSet(1 .. N) /\ Cardinality(1 .. N) = N
        <4>1. IsFiniteSet(1 .. N) /\ Cardinality(1 .. N) = N - 1 + 1
          <5>1. 1 \in Int /\ N \in Int /\ ~ (1 > N)
            BY <1>a
          <5> QED
            BY ONLY <5>1, FS_Interval
        <4> QED
          BY <1>a, <4>1
      <3>4. IsFiniteSet(Page \ {y}) /\ Cardinality(Page \ {y}) < N
        <4>1. IsFiniteSet(Page) /\ Cardinality(Page) \in 0 .. N
          BY PagesFinite
        <4>2. IsFiniteSet(Page \ {y}) /\ Cardinality(Page \ {y}) = Cardinality(Page) - 1
          BY <4>1, CountOne
        <4> QED
          BY <1>a, <4>1, <4>2
      <3>5. PICK j \in 1 .. N, k \in 1 .. N : j # k /\ f[j] = f[k]
        <4> HIDE DEF f
        <4> QED
          BY <3>2, <3>3, <3>4, FS_PigeonHole
      <3>6. w[j] = w[k] /\ w[j] \in Page
        BY <3>1, <3>5
      <3>7. \A a, b \in 1 .. N : a < b => rank[w[a]] < rank[w[b]]
        <4>1. N \in 0 .. N /\ \A a \in 1 .. N : Walk(h)[a] \in S
          BY <1>a, <2>3, <2>5 DEF w
        <4> QED
          BY <1>1, <4>1, WalkClimbs DEF w
      <3>8. j < k \/ k < j
        BY <1>a, <3>5
      <3>9. rank[w[j]] \in Nat /\ ~ (rank[w[j]] < rank[w[j]])
        BY <3>6
      <3> QED
        BY <3>6, <3>7, <3>8, <3>9
    <2> QED
      BY <1>a, <2>4, <2>5
  <1> QED
    BY <1>5, <1>7, <1>8

\* Free pages in a row are in one free run.
LEMMA RoomInOneRun ==
  ASSUME TypeOK, FreeMarked, NEW n \in 1 .. N, NEW p \in Page, Span(p, n) \subseteq FreePageSet
  PROVE  \E h \in FreeHeads : slab[h] >= n
  <1>a. N \in Nat \ {0} /\ p \in 0 .. N - 1
    BY SlabAssumption DEF Page
  <1>1. /\ \A h \in FreeHeads : /\ h \in 0 .. N - 1 /\ slab[h] \in 1 .. N
                                /\ h + slab[h] \notin FreeHeads
        /\ \A q \in FreePageSet : \E h \in FreeHeads : q \in Span(h, slab[h])
        /\ \A h, k \in FreeHeads : \A q \in Span(h, slab[h]) : q \in Span(k, slab[k]) => h = k
    BY FreePlaces DEF FreeMarked
  <1>2. p \in FreePageSet
    BY <1>a DEF Span
  <1>3. PICK h \in FreeHeads : p \in Span(h, slab[h])
    BY <1>1, <1>2
  <1>4. h \in 0 .. N - 1 /\ slab[h] \in 1 .. N /\ h <= p /\ p < h + slab[h]
    BY <1>1, <1>3, <1>a DEF Span
  <1>5. ASSUME h + slab[h] < p + n PROVE FALSE
    <2> DEFINE q == h + slab[h]
    <2>1. q \in Span(p, n)
      BY <1>a, <1>4, <1>5 DEF Span
    <2>2. PICK k \in FreeHeads : q \in Span(k, slab[k])
      BY <1>1, <2>1
    <2>3. k \in 0 .. N - 1 /\ slab[k] \in 1 .. N /\ k # q
      BY <1>1, <2>2
    <2>4. q - 1 \in Span(k, slab[k]) /\ q - 1 \in Span(h, slab[h])
      BY <1>a, <1>4, <2>2, <2>3 DEF Span
    <2>5. k = h
      BY <1>1, <2>4
    <2> QED
      BY <1>a, <1>4, <2>2, <2>5 DEF Span
  <1> QED
    BY <1>a, <1>4, <1>5

\* A long enough free run is found, and only one place is.
LEMMA FitsFound ==
  ASSUME Lists(Links, FreeHeads, Avail, {}), TypeOK, FreeMarked,
         NEW n \in 1 .. N, NEW h \in FreeHeads, slab[h] >= n
  PROVE  Cardinality(Fits(n)) = 1
  <1> DEFINE w == Walk(FREE)
             J == {j \in 1 .. N : /\ Passed(w, n, j - 1) /\ w[j] \in Page /\ slab[w[j]] >= n}
  <1>a. N \in Nat \ {0} /\ FREE \in ListHead /\ FreeHeads \in SUBSET Page
    BY SlabAssumption DEF ListHead, FreeHeads
  <1>b. \A q \in Page : slab[q] \in Nat
    BY <1>a DEF TypeOK
  <1>1. PICK i \in 1 .. N : w[i] = h /\ \A j \in 1 .. i : w[j] \in FreeHeads
    BY <1>a, WalkReaches DEF Lists
  <1>2. Fits(n) = {w[j] : j \in J}
    BY DEF Fits
  <1> HIDE DEF w
  <1> DEFINE K == {j \in 1 .. i : slab[w[j]] >= n}
  <1>3. PICK m \in K : \A j \in K : m <= j
    <2>1. K \in SUBSET Nat /\ K # {}
      BY <1>1
    <2> HIDE DEF K
    <2> QED
      BY <2>1, Least
  <1>4. m \in J
    <2>1. m \in 1 .. N /\ m \in 1 .. i /\ slab[w[m]] >= n /\ w[m] \in Page
      BY <1>a, <1>1
    <2>2. ASSUME NEW j \in 1 .. m - 1 PROVE w[j] \in Page /\ slab[w[j]] < n
      <3>1. j \in 1 .. i /\ j < m
        BY <1>a, <2>1
      <3>2. w[j] \in Page /\ slab[w[j]] \in Nat
        BY <1>1, <1>a, <1>b, <3>1
      <3>3. ~ (slab[w[j]] >= n)
        BY <1>3, <3>1
      <3> QED
        BY <3>2, <3>3
    <2> QED
      BY <2>1, <2>2 DEF Passed
  <1>5. \A j \in J : j = m
    <2> SUFFICES ASSUME NEW j \in J, NEW k \in J, j < k PROVE FALSE
      BY <1>4, <1>a
    <2>1. j \in 1 .. k - 1
      OBVIOUS
    <2>2. slab[w[j]] < n /\ slab[w[j]] >= n /\ slab[w[j]] \in Nat
      BY <1>b, <2>1 DEF Passed
    <2> QED
      BY <2>2
  <1> HIDE DEF J
  <1>6. Fits(n) = {w[m]}
    BY <1>2, <1>4, <1>5
  <1> QED
    BY <1>6, FS_Singleton

\* A request finds room whenever there is some, and a slot's list has exactly
\* its pages with a free chunk.
THEOREM AlwaysRoomIsFound == Spec => []RoomIsFound
  <1>1. IInv => RoomIsFound
    <2> SUFFICES ASSUME IInv PROVE RoomIsFound
      OBVIOUS
    <2>a. N \in Nat \ {0}
      BY SlabAssumption
    <2>1. ASSUME NEW n \in 1 .. N, NEW p \in Page, Span(p, n) \subseteq FreePageSet
          PROVE  Cardinality(Fits(n)) = 1
      <3>1. \E h \in FreeHeads : slab[h] >= n
        BY <2>1, RoomInOneRun DEF IInv
      <3> QED
        BY <3>1, FitsFound DEF IInv
    <2>2. ASSUME NEW n \in 1 .. N, Cardinality(Fits(n)) = 1
          PROVE  \E p \in Page : Span(p, n) \subseteq FreePageSet
      <3>1. Fits(n) # {}
        BY <2>2, FS_EmptySet
      <3>2. PICK p \in Fits(n) : TRUE
        BY <3>1
      <3>3. p \in FreeHeads /\ slab[p] >= n
        BY FitsFree DEF IInv
      <3>4. Span(p, slab[p]) \subseteq FreePageSet /\ p \in 0 .. N - 1 /\ slab[p] \in 1 .. N
        BY <3>3, FreePlaces DEF IInv
      <3>5. Span(p, n) \subseteq Span(p, slab[p])
        BY <2>a, <3>3, <3>4 DEF Span
      <3> QED
        BY <3>4, <3>5 DEF Page
    <2>3. ASSUME NEW s \in Slots
          PROVE  OnSlotList(s) = {p \in Page : type[p] = s /\ map[p] # ChunksOf(s)}
      <3>1. List(Links, s, Avail[s]) /\ s \in ListHead /\ Avail[s] \in SUBSET Page /\ s \notin Page
        BY NodesDiffer DEF IInv, Lists, ListHead, Avail
      <3>2. \A i \in 0 .. N : Walk(s)[i] \in Avail[s] \union {s}
        BY <3>1, WalkStays
      <3>3. \A x \in Avail[s] : \E i \in 1 .. N : Walk(s)[i] = x
        BY <3>1, WalkReaches
      <3>4. \A i \in 1 .. N : i \in 0 .. N
        BY <2>a
      <3>5. OnSlotList(s) = Avail[s]
        BY <3>1, <3>2, <3>3, <3>4 DEF OnSlotList
      <3> QED
        BY <3>5 DEF Avail
    <2> QED
      BY <2>1, <2>2, <2>3 DEF RoomIsFound
  <1> QED
    BY <1>1, AlwaysInductive, PTL

-----------------------------------------------------------------------------
(***************************************************************************)
(* The calls keep the promises of Allocator.                               *)
(***************************************************************************)

\* A divided page has a chunk somebody holds: the last one that comes back takes
\* the page with it.
Occupied == \A p \in Page : type[p] # PAGE => HeldIn(p) # {}

RInv == IInv /\ Occupied

\* A chunk that is held lies in the bitmap of a page of its size, and nobody holds
\* the page.
LEMMA HeldChunk ==
  ASSUME IInv, NEW b \in chunks
  PROVE  /\ b[1] \in Page /\ b[2] \in Nat /\ b[3] \in Slots /\ b = <<b[1], b[2], b[3]>>
         /\ type[b[1]] = b[3] /\ b[3] # PAGE
         /\ b[2] \in HeldIn(b[1]) /\ b[2] \in ChunksOf(b[3]) \ ReservedOf(b[3])
  <1>1. /\ b[1] \in Page /\ b[2] \in Nat /\ b[3] \in Slots /\ b = <<b[1], b[2], b[3]>>
    BY DEF IInv, TypeOK
  <1>2. type[b[1]] = b[3] /\ b[2] \in ChunksOf(b[3]) \ ReservedOf(b[3])
    BY DEF IInv, Divided
  <1> QED
    BY <1>1, <1>2, SlabAssumption DEF HeldIn

\* What the abstract allocator says of a page, in the words of the pool.
LEMMA PageState ==
  ASSUME RInv, NEW p \in Page
  PROVE  /\ Promised!InRun(p) => type[p] = PAGE /\ p \notin FreePageSet
         /\ p \in FreePageSet => Promised!Vacant(p)
         /\ type[p] # PAGE => /\ ~ Promised!Vacant(p) /\ ~ Promised!InRun(p)
                              /\ \A b \in chunks : b[1] = p => b[3] = type[p]
  <1>1. ASSUME Promised!InRun(p) PROVE type[p] = PAGE /\ p \notin FreePageSet
    <2>1. PICK b \in runs : p \in Span(b[1], b[2])
      BY <1>1 DEF Promised!InRun, Span
    <2>2. type[p] = PAGE
      BY <2>1 DEF RInv, IInv, RunsMarked, Marked
    <2>3. p \notin FreePageSet
      BY <2>1, HeldPlaces DEF RInv, IInv
    <2> QED
      BY <2>2, <2>3
  <1>2. \A b \in chunks : b[1] = p => b[3] = type[p] /\ type[p] # PAGE
    BY HeldChunk DEF RInv
  <1>3. p \in FreePageSet => type[p] = PAGE
    BY FreePlaces DEF RInv, IInv
  <1>4. p \in FreePageSet => Promised!Vacant(p)
    BY <1>1, <1>2, <1>3 DEF Promised!Vacant
  <1>5. ASSUME type[p] # PAGE PROVE ~ Promised!Vacant(p)
    <2>1. PICK c \in HeldIn(p) : TRUE
      BY <1>5 DEF RInv, Occupied
    <2>2. \E b \in chunks : b[1] = p
      BY DEF HeldIn
    <2> QED
      BY <2>2 DEF Promised!Vacant
  <1> QED
    BY <1>1, <1>2, <1>4, <1>5

\* A full bitmap means that callers hold all the page has for them.
LEMMA FullPage ==
  ASSUME IInv, NEW s \in Slots, NEW p \in Page, type[p] = s, map[p] = ChunksOf(s)
  PROVE  Promised!Full(p, s)
  <1>1. s # PAGE /\ Reserved[s] \in Nat /\ Chunks[s] \in Nat
    BY SlabAssumption
  <1>2. ChunksOf(s) = ReservedOf(s) \union HeldIn(p)
    BY <1>1 DEF IInv, Divided
  <1>3. ASSUME NEW c \in Promised!ForCallers(s) PROVE <<p, c, s>> \in chunks
    <2>1. c \in ChunksOf(s) /\ c \notin ReservedOf(s)
      BY <1>1 DEF Promised!ForCallers, ChunksOf, ReservedOf
    <2>2. PICK b \in chunks : b[1] = p /\ b[2] = c
      BY <1>2, <2>1 DEF HeldIn
    <2>3. b = <<p, c, s>>
      BY <2>2, HeldChunk
    <2> QED
      BY <2>3
  <1> QED
    BY <1>3 DEF Promised!Full

\* Pages of free memory are handed out.
LEMMA AllocRunPromised ==
  ASSUME RInv, NEW n \in 1 .. N, AllocRun(n)
  PROVE  Promised!AllocRun(n) /\ Occupied'
  <1>a. N \in Nat \ {0}
    BY SlabAssumption
  <1>1. PICK p \in Fits(n) : runs' = runs \union {<<p, n>>}
    BY DEF AllocRun
  <1>2. UNCHANGED <<type, used, chunks>>
    BY DEF AllocRun
  <1>3. p \in FreeHeads /\ slab[p] >= n
    BY FitsFree DEF RInv, IInv
  <1>4. /\ Span(p, slab[p]) \subseteq FreePageSet /\ p \in 0 .. N - 1 /\ slab[p] \in 1 .. N
        /\ p + slab[p] <= N /\ FreePageSet \subseteq Page
    BY <1>3, FreePlaces DEF RInv, IInv, FreeMarked
  <1>5. p \in 0 .. N - n
    BY <1>a, <1>3, <1>4
  <1>6. \A q \in p .. p + n - 1 : q \in FreePageSet /\ q \in Page
    BY <1>a, <1>3, <1>4 DEF Span
  <1>7. \A q \in p .. p + n - 1 : Promised!Vacant(q)
    BY <1>6, PageState
  <1>8. Promised!AllocRun(n)
    BY <1>1, <1>2, <1>5, <1>7 DEF Promised!AllocRun
  <1>9. Occupied'
    BY <1>2 DEF RInv, Occupied, HeldIn
  <1> QED
    BY <1>8, <1>9

\* The first free chunk of a listed page is nobody's.
LEMMA AllocListedPromised ==
  ASSUME RInv, NEW s \in Slots, AllocListed(s)
  PROVE  Promised!AllocChunk(s) /\ Occupied'
  <1>a. PAGE \notin Slots /\ Reserved[s] \in Nat /\ Chunks[s] \in Nat
    BY SlabAssumption
  <1>1. PICK p \in Avail[s] : p = next[s]
    BY ListedAvail DEF RInv, IInv, AllocListed
  <1>2. p \in Page /\ type[p] = s /\ map[p] # ChunksOf(s)
    BY DEF Avail
  <1>3. map[p] \subseteq ChunksOf(s) /\ ReservedOf(s) \subseteq map[p] /\ HeldIn(p) \subseteq map[p]
    BY <1>2, <1>a, DividedPage DEF RInv, IInv
  <1> DEFINE free == ChunksOf(s) \ map[p]
  <1>4. PICK c \in free : c = CHOOSE i \in free : \A j \in free : i <= j
    <2>0. ChunksOf(s) \in SUBSET Nat
      BY <1>a DEF ChunksOf
    <2>1. free \in SUBSET Nat /\ free # {}
      BY <1>2, <1>3, <2>0
    <2> HIDE DEF free
    <2>2. \E i \in free : \A j \in free : i <= j
      BY <2>1, Least
    <2> QED
      BY <2>2
  <1>5. /\ used' = [used EXCEPT ![s] = @ + 1]
        /\ chunks' = chunks \union {<<p, c, s>>}
        /\ UNCHANGED <<type, runs>>
    BY <1>1, <1>4 DEF AllocListed
  <1>6. c \in Promised!ForCallers(s)
    BY <1>a, <1>3 DEF Promised!ForCallers, ChunksOf, ReservedOf
  <1>7. <<p, c, s>> \notin chunks
    <2>1. <<p, c, s>> \in chunks => c \in HeldIn(p)
      BY DEF HeldIn
    <2> QED
      BY <1>3, <2>1
  <1>8. Promised!Begun(p, s)
    BY <1>2, <1>a, PageState DEF Promised!Begun
  <1>9. p \in 0 .. N - 1
    BY <1>2 DEF Page
  <1>10. Promised!AllocChunk(s)
    BY <1>5, <1>6, <1>7, <1>8, <1>9 DEF Promised!AllocChunk
  <1>11. Occupied'
    BY <1>5 DEF RInv, Occupied, HeldIn
  <1> QED
    BY <1>10, <1>11

\* A page is divided only when the slot's others are full, and its first chunk
\* after the bitmap is nobody's.
LEMMA AllocNewPagePromised ==
  ASSUME RInv, NEW s \in Slots, AllocNewPage(s)
  PROVE  Promised!AllocChunk(s) /\ Occupied'
  <1>a. /\ N \in Nat \ {0} /\ 1 \in 1 .. N
        /\ Reserved[s] \in Nat /\ Chunks[s] \in Nat /\ Reserved[s] + 2 <= Chunks[s]
    BY SlabAssumption
  <1> DEFINE c == Reserved[s]
  <1>1. PICK p \in Fits(1) :
          type' = [type EXCEPT ![p] = s] /\ chunks' = chunks \union {<<p, c, s>>}
    BY DEF AllocNewPage
  <1>2. /\ used' = [used EXCEPT ![s] = @ + 1] /\ runs' = runs /\ ~ ListHasChunk(s)
    BY DEF AllocNewPage
  <1>3. Avail[s] = {}
    BY <1>2, ListedAvail DEF RInv, IInv
  <1>4. p \in FreeHeads /\ p \in FreePageSet /\ p \in Page
    <2>1. p \in FreeHeads
      BY <1>a, FitsFree DEF RInv, IInv
    <2> QED
      BY <2>1, FreePlaces DEF RInv, IInv
  <1>5. Promised!Vacant(p)
    BY <1>4, PageState
  <1>6. ASSUME NEW b \in chunks, b[3] = s PROVE Promised!Full(b[1], s)
    <2>1. b[1] \in Page /\ type[b[1]] = s
      BY <1>6, HeldChunk DEF RInv
    <2>2. map[b[1]] = ChunksOf(s)
      BY <1>3, <2>1 DEF Avail
    <2> QED
      BY <2>1, <2>2, FullPage DEF RInv
  <1>7. Promised!Fresh(p, s)
    BY <1>5, <1>6 DEF Promised!Fresh
  <1>8. <<p, c, s>> \notin chunks
    BY <1>5 DEF Promised!Vacant
  <1>9. p \in 0 .. N - 1 /\ c \in Promised!ForCallers(s)
    BY <1>a, <1>4 DEF Page, Promised!ForCallers
  <1>10. Promised!AllocChunk(s)
    BY <1>1, <1>2, <1>7, <1>8, <1>9 DEF Promised!AllocChunk
  <1>11. Occupied'
    <2>1. c \in HeldIn(p)'
      <3> DEFINE b == <<p, c, s>>
      <3>1. b \in chunks' /\ b[1] = p /\ b[2] = c
        BY <1>1
      <3> HIDE DEF b
      <3> QED
        BY <3>1 DEF HeldIn
    <2>3. \A q \in Page : HeldIn(q) # {} => HeldIn(q)' # {}
      BY <1>1 DEF HeldIn
    <2>2. \A q \in Page : q # p => type'[q] = type[q]
      BY <1>1 DEF RInv, IInv, TypeOK
    <2> QED
      BY <2>1, <2>2, <2>3 DEF RInv, Occupied
  <1> QED
    BY <1>10, <1>11

\* A caller gives back what it holds, and the page of its last chunk.
LEMMA FreeRunPromised ==
  ASSUME RInv, NEW b \in runs, FreeRun(b[1], b[2])
  PROVE  Promised!FreeRun(b) /\ Occupied'
  <1>1. b = <<b[1], b[2]>>
    BY DEF RInv, IInv, TypeOK
  <1>2. runs' = runs \ {b} /\ UNCHANGED <<type, used, chunks>>
    BY <1>1 DEF FreeRun
  <1> QED
    BY <1>2 DEF Promised!FreeRun, RInv, Occupied, HeldIn

LEMMA FreeChunkPromised ==
  ASSUME RInv, NEW b \in chunks, FreeChunk(b[1], b[2], b[3])
  PROVE  Promised!FreeChunk(b) /\ Occupied'
  <1>1. PICK p \in Page, c \in Nat, s \in Slots : b = <<p, c, s>>
    BY DEF RInv, IInv, TypeOK
  <1>2. type[p] = s /\ s # PAGE /\ c \in map[p]
    BY <1>1, HeldChunk DEF RInv, FreeChunk
  <1> DEFINE left == map[p] \ {c}
  <1>3. /\ used' = [used EXCEPT ![s] = @ - 1]
        /\ chunks' = chunks \ {b}
        /\ runs' = runs
        /\ \/ left \subseteq ReservedOf(s) /\ type' = [type EXCEPT ![p] = PAGE]
           \/ ~ (left \subseteq ReservedOf(s)) /\ type' = type
    BY <1>1, <1>2 DEF FreeChunk
  <1>4. Promised!FreeChunk(b)
    BY <1>1, <1>3 DEF Promised!FreeChunk
  <1>5. \A q \in Page : q # p => HeldIn(q)' = HeldIn(q)
    BY <1>1, <1>3 DEF HeldIn
  <1>6. CASE left \subseteq ReservedOf(s) /\ type' = [type EXCEPT ![p] = PAGE]
    <2>1. type'[p] = PAGE /\ \A q \in Page : q # p => type'[q] = type[q]
      BY <1>6 DEF RInv, IInv, TypeOK
    <2> QED
      BY <1>4, <1>5, <2>1 DEF RInv, Occupied
  <1>7. CASE ~ (left \subseteq ReservedOf(s)) /\ type' = type
    <2>1. map[p] = ReservedOf(s) \union HeldIn(p)
      BY <1>2 DEF RInv, IInv, Divided
    <2>2. PICK d \in left : d \notin ReservedOf(s)
      BY <1>7
    <2>3. PICK x \in chunks : x[1] = p /\ x[2] = d
      BY <2>1, <2>2 DEF HeldIn
    <2>4. x # b
      BY <1>1, <2>2, <2>3
    <2>5. HeldIn(p)' # {}
      BY <1>3, <2>3, <2>4 DEF HeldIn
    <2> QED
      BY <1>4, <1>5, <1>7, <2>5 DEF RInv, Occupied
  <1> QED
    BY <1>3, <1>6, <1>7

LEMMA StepPromised ==
  ASSUME RInv, [Next]_vars
  PROVE  Occupied' /\ [Promised!Next]_Promised!vars
  <1>1. ASSUME NEW n \in 1 .. N, AllocRun(n) PROVE Occupied' /\ Promised!Next
    BY <1>1, AllocRunPromised DEF Promised!Next
  <1>2. ASSUME NEW s \in Slots, AllocListed(s) \/ AllocNewPage(s)
        PROVE  Occupied' /\ Promised!Next
    BY <1>2, AllocListedPromised, AllocNewPagePromised DEF Promised!Next
  <1>3. ASSUME NEW b \in runs, FreeRun(b[1], b[2]) PROVE Occupied' /\ Promised!Next
    BY <1>3, FreeRunPromised DEF Promised!Next
  <1>4. ASSUME NEW b \in chunks, FreeChunk(b[1], b[2], b[3])
        PROVE  Occupied' /\ Promised!Next
    BY <1>4, FreeChunkPromised DEF Promised!Next
  <1>5. CASE UNCHANGED vars
    BY <1>5 DEF vars, Promised!vars, RInv, Occupied, HeldIn
  <1> QED
    BY <1>1, <1>2, <1>3, <1>4, <1>5 DEF Next

\* ngx_slab_alloc() and ngx_slab_free() implement an allocator: every call hands
\* out memory nobody holds, or takes back what its caller held, and a page is
\* divided only when the slot's others are full.
THEOREM Refinement == Spec => ImplementsAllocator
  <1>1. Init => Promised!Init
    BY DEF Init, Promised!Init
  <1>2. Init => Occupied
    BY DEF Init, Occupied
  <1>3. RInv /\ [Next]_vars => Occupied' /\ [Promised!Next]_Promised!vars
    BY StepPromised
  <1> QED
    BY <1>1, <1>2, <1>3, AlwaysInductive, PTL
    DEF Spec, RInv, ImplementsAllocator, Promised!Spec
=============================================================================
