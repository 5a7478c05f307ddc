----------------------------- MODULE SlabLists ------------------------------
(***************************************************************************)
(* Lemmas about the doubly linked lists of Slab, for any links.            *)
(***************************************************************************)
EXTENDS Slab, CommonLemmas

-----------------------------------------------------------------------------
(***************************************************************************)
(* Lists.  List(l, h, S): the links l join the head h and the pages of S   *)
(* into one circle.  Nobody reads the prev of a head.  The rank says that  *)
(* every page is reached from the head; it survives an unlink as it is.    *)
(***************************************************************************)
LinkFields == [next : [Node -> Node \union {NULL}], prev : [Node -> Node \union {NULL}]]
ListHead == Slots \union {FREE}

Neighbours(l, h, S) ==
  /\ l.next[h] \in S \union {h}
  /\ l.next[h] # h => l.prev[l.next[h]] = h
  /\ \A x \in S :
       /\ l.next[x] \in S \union {h} /\ l.prev[x] \in S \union {h}
       /\ l.next[l.prev[x]] = x
       /\ l.next[x] # h => l.prev[l.next[x]] = x

Ranked(l, S, rank) == \A x \in S : l.prev[x] \in S => rank[l.prev[x]] < rank[x]

List(l, h, S) ==
  /\ Neighbours(l, h, S)
  /\ \E rank \in [Page -> Nat] : Ranked(l, S, rank)

\* Two records of links agree outside a set of nodes.
SameOutside(l, m, P) ==
  \A x \in Node \ P : m.next[x] = l.next[x] /\ m.prev[x] = l.prev[x]

\* Pages, slots and FREE are different things.
LEMMA NodesDiffer ==
  /\ NULL \notin Node /\ ListHead \subseteq Node /\ Page \subseteq Node
  /\ \A h \in ListHead : h \notin Page
  BY SlabAssumption DEF Node, ListHead

\* A list depends on the links of its own nodes only.
LEMMA ListFrame ==
  ASSUME NEW l, NEW m, NEW h \in ListHead, NEW S \in SUBSET Page, List(l, h, S),
         m.next[h] = l.next[h],
         \A x \in S : m.next[x] = l.next[x] /\ m.prev[x] = l.prev[x]
  PROVE  List(m, h, S)
  <1>1. Neighbours(m, h, S)
    BY NodesDiffer DEF List, Neighbours
  <1>2. PICK rank \in [Page -> Nat] : Ranked(l, S, rank)
    BY DEF List
  <1>3. Ranked(m, S, rank)
    BY <1>2 DEF Ranked
  <1> QED
    BY <1>1, <1>3 DEF List

\* Unlink takes a page out of its list and touches no other.
LEMMA UnlinkList ==
  ASSUME NEW l \in LinkFields, NEW h \in ListHead, NEW S \in SUBSET Page,
         List(l, h, S), NEW x \in S
  PROVE  /\ Unlink(l, x) \in LinkFields
         /\ List(Unlink(l, x), h, S \ {x})
         /\ SameOutside(l, Unlink(l, x), S \union {h})
  <1> DEFINE m == Unlink(l, x)
  <1>1. /\ S \union {h} \subseteq Node /\ h \notin S /\ x \in Node
        /\ l.next \in [Node -> Node \union {NULL}] /\ l.prev \in [Node -> Node \union {NULL}]
        /\ l.next[x] \in S \union {h} /\ l.prev[x] \in S \union {h}
    BY NodesDiffer DEF List, Neighbours, LinkFields
  <1>2. /\ m.next = [l.next EXCEPT ![l.prev[x]] = l.next[x]]
        /\ m.prev = [l.prev EXCEPT ![l.next[x]] = l.prev[x]]
    BY DEF Unlink
  <1>3. m \in LinkFields
    BY <1>1 DEF Unlink, LinkFields
  <1> HIDE DEF m
  <1>4. /\ \A y \in Node : m.next[y] = IF y = l.prev[x] THEN l.next[x] ELSE l.next[y]
        /\ \A y \in Node : m.prev[y] = IF y = l.next[x] THEN l.prev[x] ELSE l.prev[y]
    BY <1>1, <1>2
  <1>5. SameOutside(l, m, S \union {h})
    BY <1>1, <1>4 DEF SameOutside
  <1>6. PICK rank \in [Page -> Nat] : Ranked(l, S, rank)
    BY DEF List
  <1>7. l.prev[x] # x /\ l.next[x] # x
    <2>1. l.prev[x] # x
      BY <1>6 DEF Ranked
    <2> QED
      BY <2>1, <1>1 DEF List, Neighbours
  <1>8. Neighbours(m, h, S \ {x})
    <2>1. m.next[h] \in (S \ {x}) \union {h}
      BY <1>1, <1>4, <1>7 DEF List, Neighbours
    <2>2. m.next[h] # h => m.prev[m.next[h]] = h
      BY <1>1, <1>4, <1>7, <2>1 DEF List, Neighbours
    <2>3. ASSUME NEW y \in S \ {x}
          PROVE  /\ m.next[y] \in (S \ {x}) \union {h} /\ m.prev[y] \in (S \ {x}) \union {h}
                 /\ m.next[m.prev[y]] = y
                 /\ m.next[y] # h => m.prev[m.next[y]] = y
      BY <1>1, <1>4, <1>7 DEF List, Neighbours
    <2> QED
      BY <2>1, <2>2, <2>3 DEF Neighbours
  <1>9. Ranked(m, S \ {x}, rank)
    <2> SUFFICES ASSUME NEW y \in S \ {x}, m.prev[y] \in S \ {x}
                 PROVE  rank[m.prev[y]] < rank[y]
      BY DEF Ranked
    <2>1. CASE y = l.next[x]
      <3>1. m.prev[y] = l.prev[x] /\ l.prev[y] = x
        BY <1>1, <1>4, <2>1, NodesDiffer DEF List, Neighbours
      <3>2. rank[l.prev[x]] < rank[x] /\ rank[x] < rank[y]
        BY <1>6, <3>1 DEF Ranked
      <3>3. rank[l.prev[x]] \in Nat /\ rank[x] \in Nat /\ rank[y] \in Nat
        BY <3>1
      <3> QED
        BY <3>1, <3>2, <3>3
    <2>2. CASE y # l.next[x]
      BY <1>1, <1>4, <1>6, <2>2 DEF Ranked
    <2> QED
      BY <2>1, <2>2
  <1> QED
    BY <1>3, <1>5, <1>8, <1>9 DEF List, m

\* Push puts a page first in a list and touches no other.
LEMMA PushList ==
  ASSUME NEW l \in LinkFields, NEW h \in ListHead, NEW S \in SUBSET Page,
         List(l, h, S), NEW x \in Page \ S
  PROVE  /\ Push(l, x, h) \in LinkFields
         /\ List(Push(l, x, h), h, S \union {x})
         /\ SameOutside(l, Push(l, x, h), S \union {h, x})
  <1> DEFINE m == Push(l, x, h)
  <1>1. /\ S \union {h} \subseteq Node /\ h \notin S /\ x \in Node /\ x # h
        /\ l.next \in [Node -> Node \union {NULL}] /\ l.prev \in [Node -> Node \union {NULL}]
        /\ l.next[h] \in S \union {h}
    BY NodesDiffer DEF List, Neighbours, LinkFields
  <1>2. /\ m.next = [l.next EXCEPT ![x] = l.next[h], ![h] = x]
        /\ m.prev = [l.prev EXCEPT ![x] = h, ![l.next[h]] = x]
    BY DEF Push
  <1>3. m \in LinkFields
    BY <1>1 DEF Push, LinkFields
  <1> HIDE DEF m
  <1>4. /\ \A y \in Node : m.next[y] = IF y = h THEN x
                                       ELSE IF y = x THEN l.next[h] ELSE l.next[y]
        /\ \A y \in Node : m.prev[y] = IF y = l.next[h] THEN x
                                       ELSE IF y = x THEN h ELSE l.prev[y]
    BY <1>1, <1>2
  <1>5. SameOutside(l, m, S \union {h, x})
    BY <1>1, <1>4 DEF SameOutside
  <1>6. Neighbours(m, h, S \union {x})
    <2>1. m.next[h] = x /\ m.prev[x] = h
      BY <1>1, <1>4
    <2>2. ASSUME NEW y \in S
          PROVE  /\ m.next[y] \in S \union {h} /\ m.prev[y] \in S \union {x, h}
                 /\ m.next[m.prev[y]] = y
                 /\ m.next[y] # h => m.prev[m.next[y]] = y
      BY <1>1, <1>4, NodesDiffer DEF List, Neighbours
    <2>3. /\ m.next[x] \in S \union {h}
          /\ m.next[x] # h => m.prev[m.next[x]] = x
      BY <1>1, <1>4
    <2> QED
      BY <2>1, <2>2, <2>3 DEF Neighbours
  <1>7. PICK rank \in [Page -> Nat] : Ranked(l, S, rank)
    BY DEF List
  <1> DEFINE up == [y \in Page |-> IF y = x THEN 0 ELSE rank[y] + 1]
  <1>8. up \in [Page -> Nat]
    OBVIOUS
  <1>9. Ranked(m, S \union {x}, up)
    <2> SUFFICES ASSUME NEW y \in S \union {x}, m.prev[y] \in S \union {x}
                 PROVE  up[m.prev[y]] < up[y]
      BY DEF Ranked
    <2>1. y # x
      BY <1>1, <1>4
    <2>2. CASE m.prev[y] = x
      BY <2>1, <2>2
    <2>3. CASE m.prev[y] # x
      <3>1. m.prev[y] = l.prev[y] /\ l.prev[y] \in S
        BY <1>1, <1>4, <2>1, <2>3
      <3>2. rank[l.prev[y]] < rank[y] /\ rank[y] \in Nat /\ rank[l.prev[y]] \in Nat
        BY <1>7, <2>1, <3>1 DEF Ranked
      <3> QED
        BY <2>1, <2>3, <3>1, <3>2
    <2> QED
      BY <2>2, <2>3
  <1> QED
    BY <1>3, <1>5, <1>6, <1>8, <1>9 DEF List, m

\* Detach makes pages nobody's.
LEMMA DetachLinks ==
  ASSUME NEW l \in LinkFields, NEW P \in SUBSET Page
  PROVE  /\ Detach(l, P) \in LinkFields
         /\ SameOutside(l, Detach(l, P), P)
         /\ \A x \in P : Detach(l, P).next[x] = NULL /\ Detach(l, P).prev[x] = NULL
  <1>1. /\ Detach(l, P).next = [x \in Node |-> IF x \in P THEN NULL ELSE l.next[x]]
        /\ Detach(l, P).prev = [x \in Node |-> IF x \in P THEN NULL ELSE l.prev[x]]
    BY DEF Detach
  <1> QED
    BY <1>1, NodesDiffer DEF LinkFields, SameOutside, Detach

\* The split of a free run puts its rest in its place of the list.
Replace(l, x, y, last) ==
  [next |-> [l.next EXCEPT ![y] = l.next[x], ![l.prev[x]] = y],
   prev |-> [l.prev EXCEPT ![last] = y, ![y] = l.prev[x], ![l.next[x]] = y]]

\* It unlinks the one and links the other, and sets the prev of the last page of
\* the rest, and touches no page of another list.
LEMMA ReplaceList ==
  ASSUME NEW l \in LinkFields, NEW h \in ListHead, NEW S \in SUBSET Page,
         List(l, h, S), NEW x \in S, NEW y \in Page \ S, NEW last \in Page \ S
  PROVE  /\ Replace(l, x, y, last) \in LinkFields
         /\ List(Replace(l, x, y, last), h, (S \ {x}) \union {y})
         /\ SameOutside(l, Replace(l, x, y, last), S \union {h, y, last})
  <1> DEFINE m == Replace(l, x, y, last)
  <1>1. /\ S \union {h} \subseteq Node /\ h \notin S /\ x \in Node
        /\ y \in Node /\ last \in Node /\ h # y /\ h # last
        /\ l.next \in [Node -> Node \union {NULL}] /\ l.prev \in [Node -> Node \union {NULL}]
        /\ l.next[x] \in S \union {h} /\ l.prev[x] \in S \union {h}
    BY NodesDiffer DEF List, Neighbours, LinkFields
  <1>2. /\ m.next = [l.next EXCEPT ![y] = l.next[x], ![l.prev[x]] = y]
        /\ m.prev = [l.prev EXCEPT ![last] = y, ![y] = l.prev[x], ![l.next[x]] = y]
    BY DEF Replace
  <1>3. m \in LinkFields
    BY <1>1 DEF Replace, LinkFields
  <1> HIDE DEF m
  <1>4. /\ \A z \in Node : m.next[z] = IF z = l.prev[x] THEN y
                                       ELSE IF z = y THEN l.next[x] ELSE l.next[z]
        /\ \A z \in Node : m.prev[z] = IF z = l.next[x] THEN y
                                       ELSE IF z = y THEN l.prev[x]
                                       ELSE IF z = last THEN y ELSE l.prev[z]
    BY <1>1, <1>2
  <1>5. SameOutside(l, m, S \union {h, y, last})
    BY <1>1, <1>4 DEF SameOutside
  <1>6. PICK rank \in [Page -> Nat] : Ranked(l, S, rank)
    BY DEF List
  <1>7. l.prev[x] # x /\ l.next[x] # x
    <2>1. l.prev[x] # x
      BY <1>6 DEF Ranked
    <2> QED
      BY <2>1, <1>1 DEF List, Neighbours
  <1>8. Neighbours(m, h, (S \ {x}) \union {y})
    <2>1. m.next[h] \in (S \ {x}) \union {y, h} /\ (m.next[h] # h => m.prev[m.next[h]] = h)
      <3>1. CASE l.prev[x] = h
        BY <1>1, <1>4, <1>7, <3>1
      <3>2. CASE l.prev[x] # h
        BY <1>1, <1>4, <1>7, <3>2 DEF List, Neighbours
      <3> QED
        BY <3>1, <3>2
    <2>2. ASSUME NEW z \in S \ {x}
          PROVE  /\ m.next[z] \in (S \ {x}) \union {y, h}
                 /\ m.prev[z] \in (S \ {x}) \union {y, h}
                 /\ m.next[m.prev[z]] = z
                 /\ m.next[z] # h => m.prev[m.next[z]] = z
      <3>1. /\ l.next[z] \in S \union {h} /\ l.prev[z] \in S \union {h}
            /\ l.next[l.prev[z]] = z
            /\ l.next[z] # h => l.prev[l.next[z]] = z
        BY DEF List, Neighbours
      <3>2. /\ l.next[l.prev[x]] = x
            /\ l.next[x] # h => l.prev[l.next[x]] = x
        BY DEF List, Neighbours
      <3>3. /\ m.next[z] \in (S \ {x}) \union {y, h}
            /\ m.next[z] # h => m.prev[m.next[z]] = z
        BY <1>1, <1>4, <1>7, <3>1, <3>2
      <3>4. /\ m.prev[z] \in (S \ {x}) \union {y, h}
            /\ m.next[m.prev[z]] = z
        BY <1>1, <1>4, <1>7, <3>1, <3>2
      <3> QED
        BY <3>3, <3>4
    <2>3. /\ m.next[y] \in (S \ {x}) \union {h} /\ m.prev[y] \in (S \ {x}) \union {h}
          /\ m.next[m.prev[y]] = y
          /\ m.next[y] # h => m.prev[m.next[y]] = y
      <3>1. l.next[x] # y /\ l.prev[x] # y
        BY <1>1
      <3> QED
        BY <1>1, <1>4, <1>7, <3>1
    <2> QED
      BY <2>1, <2>2, <2>3 DEF Neighbours
  <1> DEFINE to == [z \in Page |-> IF z = y THEN rank[x] ELSE rank[z]]
  <1>9. to \in [Page -> Nat]
    OBVIOUS
  <1>10. Ranked(m, (S \ {x}) \union {y}, to)
    <2> SUFFICES ASSUME NEW z \in (S \ {x}) \union {y}, m.prev[z] \in (S \ {x}) \union {y}
                 PROVE  to[m.prev[z]] < to[z]
      BY DEF Ranked
    <2>1. CASE z = y
      <3>1. m.prev[z] = l.prev[x] /\ l.prev[x] \in S
        BY <1>1, <1>4, <2>1
      <3> QED
        BY <1>6, <2>1, <3>1 DEF Ranked
    <2>2. CASE z = l.next[x]
      <3>1. m.prev[z] = y /\ l.prev[z] = x /\ z \in S
        BY <1>1, <1>4, <2>2, NodesDiffer DEF List, Neighbours
      <3> QED
        BY <1>6, <3>1 DEF Ranked
    <2>3. CASE z # y /\ z # l.next[x]
      <3>1. m.prev[z] = l.prev[z] /\ z \in S /\ l.prev[z] # y
        BY <1>1, <1>4, <2>3 DEF List, Neighbours
      <3> QED
        BY <1>6, <3>1 DEF Ranked
    <2> QED
      BY <2>1, <2>2, <2>3
  <1> QED
    BY <1>3, <1>5, <1>8, <1>9, <1>10 DEF List, m

-----------------------------------------------------------------------------
(***************************************************************************)
(* All lists of the pool: the free runs F and, for each slot s, the pages  *)
(* A[s].  Every other page has no next, but for those of E.                *)
(***************************************************************************)
Apart(F, A) ==
  /\ F \in SUBSET Page /\ A \in [Slots -> SUBSET Page]
  /\ \A s \in Slots : A[s] \intersect F = {}
  /\ \A s, t \in Slots : s # t => A[s] \intersect A[t] = {}

Lists(l, F, A, E) ==
  /\ l \in LinkFields
  /\ List(l, FREE, F)
  /\ \A s \in Slots : List(l, s, A[s])
  /\ \A q \in Page \ (F \union E) : (\A s \in Slots : q \notin A[s]) => l.next[q] = NULL

\* Links of the pages outside P are as they were.
SamePages(l, m, P) == \A q \in Page \ P : m.next[q] = l.next[q] /\ m.prev[q] = l.prev[q]

\* Taking a run out of the list of free runs.
LEMMA ListsUnlinkFree ==
  ASSUME NEW l, NEW F, NEW A, NEW E \in SUBSET Page, Apart(F, A), Lists(l, F, A, E),
         NEW x \in F
  PROVE  /\ Lists(Unlink(l, x), F \ {x}, A, E \union {x})
         /\ Apart(F \ {x}, A)
         /\ SamePages(l, Unlink(l, x), F)
  <1> DEFINE m == Unlink(l, x)
  <1>1. FREE \in ListHead /\ \A s \in Slots : s \in ListHead /\ s # FREE
    BY SlabAssumption DEF ListHead
  <1>2. m \in LinkFields /\ List(m, FREE, F \ {x}) /\ SameOutside(l, m, F \union {FREE})
    BY <1>1, UnlinkList DEF Lists, Apart
  <1> HIDE DEF m
  <1>3. SamePages(l, m, F)
    BY <1>2, NodesDiffer DEF SameOutside, SamePages, ListHead
  <1>4. ASSUME NEW s \in Slots PROVE List(m, s, A[s])
    <2>1. List(l, s, A[s]) /\ A[s] \in SUBSET Page /\ A[s] \intersect F = {}
      BY DEF Lists, Apart
    <2>2. m.next[s] = l.next[s]
      BY <1>1, <1>2, NodesDiffer DEF SameOutside, Apart
    <2>3. \A y \in A[s] : m.next[y] = l.next[y] /\ m.prev[y] = l.prev[y]
      BY <1>3, <2>1 DEF SamePages
    <2> QED
      BY <1>1, <2>1, <2>2, <2>3, ListFrame
  <1>5. \A q \in Page \ ((F \ {x}) \union (E \union {x})) :
          (\A s \in Slots : q \notin A[s]) => m.next[q] = NULL
    BY <1>3 DEF Lists, SamePages
  <1>6. Apart(F \ {x}, A)
    BY DEF Apart
  <1> QED
    BY <1>2, <1>3, <1>4, <1>5, <1>6 DEF Lists, m

\* Taking a page out of its slot's list.
LEMMA ListsUnlinkSlot ==
  ASSUME NEW l, NEW F, NEW A, NEW E \in SUBSET Page, Apart(F, A), Lists(l, F, A, E),
         NEW t \in Slots, NEW x \in A[t]
  PROVE  LET B == [A EXCEPT ![t] = @ \ {x}]
         IN /\ Lists(Unlink(l, x), F, B, E \union {x})
            /\ Apart(F, B)
            /\ SamePages(l, Unlink(l, x), A[t])
  <1> DEFINE m == Unlink(l, x)
             B == [A EXCEPT ![t] = @ \ {x}]
  <1>1. FREE \in ListHead /\ \A s \in Slots : s \in ListHead /\ s # FREE
    BY SlabAssumption DEF ListHead
  <1>2. m \in LinkFields /\ List(m, t, A[t] \ {x}) /\ SameOutside(l, m, A[t] \union {t})
    BY <1>1, UnlinkList DEF Lists, Apart
  <1> HIDE DEF m
  <1>3. SamePages(l, m, A[t])
    BY <1>1, <1>2, NodesDiffer DEF SameOutside, SamePages
  <1>4. B \in [Slots -> SUBSET Page] /\ B[t] = A[t] \ {x} /\ \A s \in Slots : s # t => B[s] = A[s]
    BY DEF Apart
  <1> HIDE DEF B
  <1>5. ASSUME NEW s \in Slots PROVE List(m, s, B[s])
    <2>1. CASE s = t
      BY <1>2, <1>4, <2>1
    <2>2. CASE s # t
      <3>1. List(l, s, A[s]) /\ A[s] \in SUBSET Page /\ A[s] \intersect A[t] = {}
        BY <2>2 DEF Lists, Apart
      <3>2. m.next[s] = l.next[s]
        BY <1>1, <1>2, <2>2, NodesDiffer DEF SameOutside, Apart
      <3>3. \A y \in A[s] : m.next[y] = l.next[y] /\ m.prev[y] = l.prev[y]
        BY <1>3, <3>1 DEF SamePages
      <3>4. List(m, s, A[s])
        BY <1>1, <3>1, <3>2, <3>3, ListFrame
      <3> QED
        BY <1>4, <2>2, <3>4
    <2> QED
      BY <2>1, <2>2
  <1>6. List(m, FREE, F)
    <2>1. List(l, FREE, F) /\ F \in SUBSET Page /\ A[t] \intersect F = {}
      BY DEF Lists, Apart
    <2>2. m.next[FREE] = l.next[FREE]
      BY <1>1, <1>2, NodesDiffer DEF SameOutside, Apart
    <2>3. \A y \in F : m.next[y] = l.next[y] /\ m.prev[y] = l.prev[y]
      BY <1>3, <2>1 DEF SamePages
    <2> QED
      BY <1>1, <2>1, <2>2, <2>3, ListFrame
  <1>7. ASSUME NEW q \in Page \ (F \union (E \union {x})), \A s \in Slots : q \notin B[s]
        PROVE  m.next[q] = NULL
    <2>1. \A s \in Slots : q \notin A[s]
      BY <1>4, <1>7
    <2> QED
      BY <1>3, <2>1 DEF Lists, SamePages
  <1>8. Apart(F, B)
    BY <1>4 DEF Apart
  <1> QED
    BY <1>2, <1>3, <1>5, <1>6, <1>7, <1>8 DEF Lists, m, B

\* Pages that are in no list may be detached.
LEMMA ListsDetach ==
  ASSUME NEW l, NEW F, NEW A, NEW E \in SUBSET Page, Apart(F, A), Lists(l, F, A, E),
         NEW P \in SUBSET Page, P \intersect F = {}, \A s \in Slots : P \intersect A[s] = {}
  PROVE  /\ Lists(Detach(l, P), F, A, E \ P)
         /\ SamePages(l, Detach(l, P), P)
  <1> DEFINE m == Detach(l, P)
  <1>1. FREE \in ListHead /\ \A s \in Slots : s \in ListHead
    BY DEF ListHead
  <1>2. /\ m \in LinkFields /\ SameOutside(l, m, P)
        /\ \A x \in P : m.next[x] = NULL
    BY DetachLinks DEF Lists
  <1> HIDE DEF m
  <1>3. SamePages(l, m, P) /\ \A h \in ListHead : m.next[h] = l.next[h]
    BY <1>2, NodesDiffer DEF SameOutside, SamePages
  <1>4. List(m, FREE, F)
    <2>1. \A y \in F : m.next[y] = l.next[y] /\ m.prev[y] = l.prev[y]
      BY <1>3 DEF SamePages, Apart
    <2> QED
      BY <1>1, <1>3, <2>1, ListFrame DEF Lists, Apart
  <1>5. ASSUME NEW s \in Slots PROVE List(m, s, A[s])
    <2>1. A[s] \in SUBSET Page
      BY DEF Apart
    <2>2. \A y \in A[s] : m.next[y] = l.next[y] /\ m.prev[y] = l.prev[y]
      BY <1>3, <2>1 DEF SamePages
    <2> QED
      BY <1>1, <1>3, <2>1, <2>2, ListFrame DEF Lists
  <1>6. \A q \in Page \ (F \union (E \ P)) :
          (\A s \in Slots : q \notin A[s]) => m.next[q] = NULL
    BY <1>2, <1>3 DEF Lists, SamePages
  <1> QED
    BY <1>2, <1>3, <1>4, <1>5, <1>6 DEF Lists, m

\* The prev of a page that is in no list may be set.
LEMMA ListsSetPrev ==
  ASSUME NEW l, NEW F, NEW A, NEW E \in SUBSET Page, Apart(F, A), Lists(l, F, A, E),
         NEW x \in Page, x \notin F, \A s \in Slots : x \notin A[s], NEW v \in Page
  PROVE  /\ Lists([l EXCEPT !.prev[x] = v], F, A, E)
         /\ [l EXCEPT !.prev[x] = v].prev[x] = v
         /\ [l EXCEPT !.prev[x] = v].next = l.next
         /\ SamePages(l, [l EXCEPT !.prev[x] = v], {x})
  <1> DEFINE m == [l EXCEPT !.prev[x] = v]
  <1>1. FREE \in ListHead /\ \A s \in Slots : s \in ListHead
    BY DEF ListHead
  <1>2. /\ m \in LinkFields /\ m.next = l.next /\ m.prev[x] = v
        /\ \A q \in Node : q # x => m.prev[q] = l.prev[q]
    BY NodesDiffer DEF Lists, LinkFields
  <1> HIDE DEF m
  <1>3. List(m, FREE, F)
    <2>1. \A y \in F : m.next[y] = l.next[y] /\ m.prev[y] = l.prev[y]
      BY <1>2, NodesDiffer DEF Apart
    <2> QED
      BY <1>1, <1>2, <2>1, ListFrame DEF Lists, Apart
  <1>4. ASSUME NEW s \in Slots PROVE List(m, s, A[s])
    <2>1. A[s] \in SUBSET Page
      BY DEF Apart
    <2>2. \A y \in A[s] : m.next[y] = l.next[y] /\ m.prev[y] = l.prev[y]
      BY <1>2, <2>1, NodesDiffer
    <2> QED
      BY <1>1, <1>2, <2>1, <2>2, ListFrame DEF Lists
  <1>5. SamePages(l, m, {x})
    BY <1>2, NodesDiffer DEF SamePages
  <1> QED
    BY <1>2, <1>3, <1>4, <1>5 DEF Lists, m

\* Putting a run first in the list of free runs.
LEMMA ListsPushFree ==
  ASSUME NEW l, NEW F, NEW A, NEW E \in SUBSET Page, Apart(F, A), Lists(l, F, A, E),
         NEW x \in Page, x \notin F, \A s \in Slots : x \notin A[s]
  PROVE  /\ Lists(Push(l, x, FREE), F \union {x}, A, E \ {x})
         /\ Apart(F \union {x}, A)
         /\ SamePages(l, Push(l, x, FREE), F \union {x})
  <1> DEFINE m == Push(l, x, FREE)
  <1>1. FREE \in ListHead /\ \A s \in Slots : s \in ListHead /\ s # FREE
    BY SlabAssumption DEF ListHead
  <1>2. /\ m \in LinkFields /\ List(m, FREE, F \union {x})
        /\ SameOutside(l, m, F \union {FREE, x})
    BY <1>1, PushList DEF Lists, Apart
  <1> HIDE DEF m
  <1>3. SamePages(l, m, F \union {x})
    BY <1>1, <1>2, NodesDiffer DEF SameOutside, SamePages
  <1>4. ASSUME NEW s \in Slots PROVE List(m, s, A[s])
    <2>1. List(l, s, A[s]) /\ A[s] \in SUBSET Page /\ A[s] \intersect (F \union {x}) = {}
      BY DEF Lists, Apart
    <2>2. m.next[s] = l.next[s]
      BY <1>1, <1>2, NodesDiffer DEF SameOutside, Apart
    <2>3. \A y \in A[s] : m.next[y] = l.next[y] /\ m.prev[y] = l.prev[y]
      BY <1>3, <2>1 DEF SamePages
    <2> QED
      BY <1>1, <2>1, <2>2, <2>3, ListFrame
  <1>5. \A q \in Page \ ((F \union {x}) \union (E \ {x})) :
          (\A s \in Slots : q \notin A[s]) => m.next[q] = NULL
    BY <1>3 DEF Lists, SamePages
  <1>6. Apart(F \union {x}, A)
    BY DEF Apart
  <1> QED
    BY <1>2, <1>3, <1>4, <1>5, <1>6 DEF Lists, m

\* Putting a page first in its slot's list.
LEMMA ListsPushSlot ==
  ASSUME NEW l, NEW F, NEW A, NEW E \in SUBSET Page, Apart(F, A), Lists(l, F, A, E),
         NEW t \in Slots, NEW x \in Page, x \notin F, \A s \in Slots : x \notin A[s]
  PROVE  LET B == [A EXCEPT ![t] = @ \union {x}]
         IN /\ Lists(Push(l, x, t), F, B, E)
            /\ Apart(F, B)
            /\ SamePages(l, Push(l, x, t), A[t] \union {x})
  <1> DEFINE m == Push(l, x, t)
             B == [A EXCEPT ![t] = @ \union {x}]
  <1>1. FREE \in ListHead /\ \A s \in Slots : s \in ListHead /\ s # FREE
    BY SlabAssumption DEF ListHead
  <1>2. /\ m \in LinkFields /\ List(m, t, A[t] \union {x})
        /\ SameOutside(l, m, A[t] \union {t, x})
    BY <1>1, PushList DEF Lists, Apart
  <1> HIDE DEF m
  <1>3. SamePages(l, m, A[t] \union {x})
    BY <1>1, <1>2, NodesDiffer DEF SameOutside, SamePages
  <1>4. /\ B \in [Slots -> SUBSET Page] /\ B[t] = A[t] \union {x}
        /\ \A s \in Slots : s # t => B[s] = A[s]
    BY DEF Apart
  <1> HIDE DEF B
  <1>5. ASSUME NEW s \in Slots PROVE List(m, s, B[s])
    <2>1. CASE s = t
      BY <1>2, <1>4, <2>1
    <2>2. CASE s # t
      <3>1. /\ List(l, s, A[s]) /\ A[s] \in SUBSET Page
            /\ A[s] \intersect (A[t] \union {x}) = {}
        BY <2>2 DEF Lists, Apart
      <3>2. m.next[s] = l.next[s]
        BY <1>1, <1>2, <2>2, NodesDiffer DEF SameOutside, Apart
      <3>3. \A y \in A[s] : m.next[y] = l.next[y] /\ m.prev[y] = l.prev[y]
        BY <1>3, <3>1 DEF SamePages
      <3>4. List(m, s, A[s])
        BY <1>1, <3>1, <3>2, <3>3, ListFrame
      <3> QED
        BY <1>4, <2>2, <3>4
    <2> QED
      BY <2>1, <2>2
  <1>6. List(m, FREE, F)
    <2>1. List(l, FREE, F) /\ F \in SUBSET Page /\ (A[t] \union {x}) \intersect F = {}
      BY DEF Lists, Apart
    <2>2. m.next[FREE] = l.next[FREE]
      BY <1>1, <1>2, NodesDiffer DEF SameOutside, Apart
    <2>3. \A y \in F : m.next[y] = l.next[y] /\ m.prev[y] = l.prev[y]
      BY <1>3, <2>1 DEF SamePages
    <2> QED
      BY <1>1, <2>1, <2>2, <2>3, ListFrame
  <1>7. ASSUME NEW q \in Page \ (F \union E), \A s \in Slots : q \notin B[s]
        PROVE  m.next[q] = NULL
    <2>1. q # x /\ \A s \in Slots : q \notin A[s]
      BY <1>4, <1>7
    <2> QED
      BY <1>3, <2>1 DEF Lists, SamePages
  <1>8. Apart(F, B)
    BY <1>4 DEF Apart
  <1> QED
    BY <1>2, <1>3, <1>5, <1>6, <1>7, <1>8 DEF Lists, m, B

\* Putting the rest of a split run in the run's place.
LEMMA ListsReplaceFree ==
  ASSUME NEW l, NEW F, NEW A, NEW E \in SUBSET Page, Apart(F, A), Lists(l, F, A, E),
         NEW x \in F,
         NEW y \in Page, y \notin F, \A s \in Slots : y \notin A[s],
         NEW last \in Page, last \notin F, \A s \in Slots : last \notin A[s],
         NEW m, m = Replace(l, x, y, last)
  PROVE  /\ Lists(m, (F \ {x}) \union {y}, A, (E \ {y}) \union {x})
         /\ Apart((F \ {x}) \union {y}, A)
         /\ SamePages(l, m, F \union {y, last})
         /\ last # y => m.prev[last] = y
  <1>1. FREE \in ListHead /\ \A s \in Slots : s \in ListHead /\ s # FREE
    BY SlabAssumption DEF ListHead
  <1>2. /\ m \in LinkFields /\ List(m, FREE, (F \ {x}) \union {y})
        /\ SameOutside(l, m, F \union {FREE, y, last})
    <2>1. l \in LinkFields /\ F \in SUBSET Page /\ List(l, FREE, F)
      BY DEF Lists, Apart
    <2>2. y \in Page \ F /\ last \in Page \ F
      OBVIOUS
    <2> QED
      BY <1>1, <2>1, <2>2, ReplaceList
  <1>7. last # y => m.prev[last] = y /\ m.next[last] = l.next[last]
    <2>1. /\ m.next = [l.next EXCEPT ![y] = l.next[x], ![l.prev[x]] = y]
          /\ m.prev = [l.prev EXCEPT ![last] = y, ![y] = l.prev[x], ![l.next[x]] = y]
      BY DEF Replace
    <2>2. /\ l.next \in [Node -> Node \union {NULL}] /\ l.prev \in [Node -> Node \union {NULL}]
          /\ last \in Node /\ l.prev[x] \in F \union {FREE} /\ l.next[x] \in F \union {FREE}
      BY NodesDiffer DEF Lists, List, Neighbours, LinkFields
    <2>3. l.prev[x] # last /\ l.next[x] # last
      BY <1>1, <2>2, NodesDiffer
    <2> QED
      BY <2>1, <2>2, <2>3
  <1>3. SamePages(l, m, F \union {y, last})
    BY <1>1, <1>2, NodesDiffer DEF SameOutside, SamePages
  <1>4. ASSUME NEW s \in Slots PROVE List(m, s, A[s])
    <2>1. /\ List(l, s, A[s]) /\ A[s] \in SUBSET Page
          /\ A[s] \intersect (F \union {y, last}) = {}
      BY DEF Lists, Apart
    <2>2. m.next[s] = l.next[s]
      BY <1>1, <1>2, NodesDiffer DEF SameOutside, Apart
    <2>3. \A z \in A[s] : m.next[z] = l.next[z] /\ m.prev[z] = l.prev[z]
      BY <1>3, <2>1 DEF SamePages
    <2> QED
      BY <1>1, <2>1, <2>2, <2>3, ListFrame
  <1>5. ASSUME NEW q \in Page \ (((F \ {x}) \union {y}) \union ((E \ {y}) \union {x})),
               \A s \in Slots : q \notin A[s]
        PROVE  m.next[q] = NULL
    <2>1. l.next[q] = NULL
      BY <1>5 DEF Lists
    <2>2. m.next[q] = l.next[q]
      BY <1>3, <1>5, <1>7 DEF SamePages
    <2> QED
      BY <2>1, <2>2
  <1>6. Apart((F \ {x}) \union {y}, A)
    BY DEF Apart
  <1> QED
    BY <1>2, <1>3, <1>4, <1>5, <1>6, <1>7 DEF Lists

\* A page that is in no list makes an empty slot's list of its own.
LEMMA ListsStart ==
  ASSUME NEW l, NEW F, NEW A, Apart(F, A), Lists(l, F, A, {}),
         NEW t \in Slots, A[t] = {}, NEW x \in Page, x \notin F, \A s \in Slots : x \notin A[s],
         NEW m, m.next = [l.next EXCEPT ![x] = t, ![t] = x], m.prev = [l.prev EXCEPT ![x] = t],
         m = [next |-> m.next, prev |-> m.prev]
  PROVE  LET B == [A EXCEPT ![t] = {x}]
         IN Lists(m, F, B, {}) /\ Apart(F, B)
  <1> DEFINE B == [A EXCEPT ![t] = {x}]
  <1>1. FREE \in ListHead /\ \A s \in Slots : s \in ListHead /\ s # FREE
    BY SlabAssumption DEF ListHead
  <1>2. /\ l.next \in [Node -> Node \union {NULL}] /\ l.prev \in [Node -> Node \union {NULL}]
        /\ x \in Node /\ t \in Node /\ x # t
    BY <1>1, NodesDiffer DEF Lists, LinkFields
  <1>3. /\ m.next[x] = t /\ m.next[t] = x /\ m.prev[x] = t
        /\ \A y \in Node : y # x /\ y # t => m.next[y] = l.next[y]
        /\ \A y \in Node : y # x => m.prev[y] = l.prev[y]
        /\ m \in LinkFields
    <2>1. /\ m.next[x] = t /\ m.next[t] = x /\ m.prev[x] = t
          /\ \A y \in Node : y # x /\ y # t => m.next[y] = l.next[y]
          /\ \A y \in Node : y # x => m.prev[y] = l.prev[y]
      BY <1>2
    <2>2. /\ m.next \in [Node -> Node \union {NULL}] /\ m.prev \in [Node -> Node \union {NULL}]
      BY <1>2
    <2>3. m \in LinkFields
      BY <2>2 DEF LinkFields
    <2> QED
      BY <2>1, <2>3
  <1>4. B \in [Slots -> SUBSET Page] /\ B[t] = {x} /\ \A s \in Slots : s # t => B[s] = A[s]
    BY DEF Apart
  <1> HIDE DEF B
  <1>5. List(m, FREE, F)
    <2>1. \A y \in F : m.next[y] = l.next[y] /\ m.prev[y] = l.prev[y]
      BY <1>1, <1>3, NodesDiffer DEF Apart
    <2>2. m.next[FREE] = l.next[FREE]
      BY <1>1, <1>3, NodesDiffer
    <2> QED
      BY <1>1, <2>1, <2>2, ListFrame DEF Lists, Apart
  <1>6. ASSUME NEW s \in Slots PROVE List(m, s, B[s])
    <2>1. CASE s # t
      <3>1. A[s] \in SUBSET Page
        BY DEF Apart
      <3>2. \A y \in A[s] : m.next[y] = l.next[y] /\ m.prev[y] = l.prev[y]
        BY <1>1, <1>3, <3>1, NodesDiffer
      <3>3. m.next[s] = l.next[s]
        BY <1>1, <1>3, <2>1, NodesDiffer
      <3>4. List(m, s, A[s])
        BY <1>1, <3>1, <3>2, <3>3, ListFrame DEF Lists
      <3> QED
        BY <1>4, <2>1, <3>4
    <2>2. CASE s = t
      <3>1. Neighbours(m, t, {x})
        BY <1>2, <1>3 DEF Neighbours
      <3> DEFINE rank == [y \in Page |-> 0]
      <3>2. rank \in [Page -> Nat]
        OBVIOUS
      <3>3. Ranked(m, {x}, rank)
        <4>1. m.prev[x] \notin {x}
          BY <1>2, <1>3
        <4> QED
          BY <4>1 DEF Ranked
      <3> QED
        BY <1>4, <2>2, <3>1, <3>2, <3>3 DEF List
    <2> QED
      BY <2>1, <2>2
  <1>7. ASSUME NEW q \in Page \ F, \A s \in Slots : q \notin B[s] PROVE m.next[q] = NULL
    <2>1. q # x /\ \A s \in Slots : q \notin A[s]
      BY <1>4, <1>7
    <2>2. q # t /\ q \in Node
      BY <1>1, NodesDiffer
    <2> QED
      BY <1>3, <2>1, <2>2 DEF Lists
  <1>8. Apart(F, B)
    BY <1>4 DEF Apart
  <1> QED
    BY <1>3, <1>5, <1>6, <1>7, <1>8 DEF Lists, B
=============================================================================
