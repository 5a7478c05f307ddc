--------------------------- MODULE FileCacheProofs ---------------------------
(***************************************************************************)
(* Proofs about FileCache, for every set of keys, nodes and locations, any *)
(* finite number of requests, and any number of files and of workers that  *)
(* die.                                                                    *)
(***************************************************************************)
EXTENDS FileCache, FiniteSetTheorems, SequenceTheorems, TLAPS

-----------------------------------------------------------------------------
(***************************************************************************)
(* The queue.  Removing an element, dropping the last, and moving          *)
(* to the front keep the elements once each.                               *)
(***************************************************************************)
Once(s, S) == s \in Seq(Node) /\ ToSet(s) = S /\ IsInjective(s)

\* A part of a sequence of nodes, the empty part behind its end included.
LEMMA SubSeqElements ==
  ASSUME NEW s \in Seq(Node), NEW m \in 1 .. Len(s) + 1, NEW n \in m - 1 .. Len(s)
  PROVE  /\ SubSeq(s, m, n) \in Seq(Node)
         /\ Len(SubSeq(s, m, n)) = n - m + 1
         /\ \A j \in 1 .. n - m + 1 : SubSeq(s, m, n)[j] = s[m + j - 1]
  <1>1. Len(s) \in Nat
    BY LenProperties
  <1>2. m \in Int /\ n \in Int /\ \A i \in m .. n : s[i] \in Node
    BY <1>1, ElementOfSeq
  <1> QED
    BY <1>1, <1>2, SubSeqProperties

\* RemoveAt shifts the elements behind the place.
LEMMA RemoveAtElements ==
  ASSUME NEW s \in Seq(Node), NEW i \in 1 .. Len(s)
  PROVE  /\ RemoveAt(s, i) \in Seq(Node)
         /\ Len(RemoveAt(s, i)) = Len(s) - 1
         /\ \A j \in 1 .. Len(s) - 1 :
              RemoveAt(s, i)[j] = IF j < i THEN s[j] ELSE s[j + 1]
  <1> DEFINE a == SubSeq(s, 1, i - 1)
             b == SubSeq(s, i + 1, Len(s))
  <1>1. Len(s) \in Nat
    BY LenProperties
  <1>2. a \in Seq(Node) /\ Len(a) = i - 1 /\ \A j \in 1 .. i - 1 : a[j] = s[j]
    BY <1>1, SubSeqElements
  <1>3. /\ b \in Seq(Node) /\ Len(b) = Len(s) - i
        /\ \A j \in 1 .. Len(s) - i : b[j] = s[i + j]
    BY <1>1, SubSeqElements
  <1> HIDE DEF a, b
  <1> DEFINE t == a \o b
  <1>4. /\ t \in Seq(Node) /\ Len(t) = Len(a) + Len(b)
        /\ \A j \in 1 .. Len(a) + Len(b) :
             t[j] = IF j <= Len(a) THEN a[j] ELSE b[j - Len(a)]
    BY <1>2, <1>3, ConcatProperties
  <1>5. t = RemoveAt(s, i)
    BY DEF RemoveAt, a, b
  <1> HIDE DEF t
  <1>6. Len(t) = Len(s) - 1
    BY <1>1, <1>2, <1>3, <1>4
  <1>7. ASSUME NEW j \in 1 .. Len(s) - 1
        PROVE  t[j] = IF j < i THEN s[j] ELSE s[j + 1]
    <2>1. CASE j < i
      BY <1>1, <1>2, <1>3, <1>4, <2>1
    <2>2. CASE j >= i
      <3>1. j - (i - 1) \in 1 .. Len(s) - i /\ i + (j - (i - 1)) = j + 1
        BY <1>1, <2>2
      <3>2. j \in 1 .. Len(a) + Len(b) /\ ~ (j <= Len(a)) /\ j - Len(a) = j - (i - 1)
        BY <1>1, <1>2, <1>3, <2>2
      <3>3. t[j] = b[j - (i - 1)]
        BY <1>4, <3>2
      <3> QED
        BY <1>1, <1>3, <2>2, <3>1, <3>3
    <2> QED
      BY <1>1, <2>1, <2>2
  <1> QED
    BY <1>4, <1>5, <1>6, <1>7

\* A queue without one place has the other elements once each,
LEMMA OnceRemoveAt ==
  ASSUME NEW S, NEW s, Once(s, S), NEW i \in 1 .. Len(s)
  PROVE  Once(RemoveAt(s, i), S \ {s[i]})
  <1> DEFINE t == RemoveAt(s, i)
  <1>1. s \in Seq(Node) /\ Len(s) \in Nat /\ DOMAIN s = 1 .. Len(s)
    BY LenProperties DEF Once
  <1>2. /\ t \in Seq(Node) /\ Len(t) = Len(s) - 1
        /\ \A j \in 1 .. Len(s) - 1 : t[j] = IF j < i THEN s[j] ELSE s[j + 1]
    BY <1>1, RemoveAtElements
  <1>3. DOMAIN t = 1 .. Len(s) - 1
    BY <1>2, LenProperties
  <1>4. \A p, q \in 1 .. Len(s) : s[p] = s[q] => p = q
    BY <1>1 DEF Once, IsInjective
  <1> HIDE DEF t
  <1>5. IsInjective(t)
    BY <1>1, <1>2, <1>3, <1>4 DEF IsInjective
  <1>6. ToSet(t) \subseteq S \ {s[i]}
    BY <1>1, <1>2, <1>3, <1>4, SMTT(30) DEF ToSet, Once
  <1>7. ASSUME NEW x \in S \ {s[i]} PROVE x \in ToSet(t)
    <2>1. PICK p \in 1 .. Len(s) : s[p] = x
      BY <1>1 DEF ToSet, Once
    <2>2. CASE p < i
      BY <1>1, <1>2, <1>3, <2>1, <2>2 DEF ToSet
    <2>3. CASE p > i
      <3>1. p - 1 \in 1 .. Len(s) - 1 /\ t[p - 1] = x
        BY <1>1, <1>2, <2>1, <2>3
      <3> QED
        BY <1>3, <3>1 DEF ToSet
    <2> QED
      BY <1>7, <2>1, <2>2, <2>3
  <1> QED
    BY <1>2, <1>5, <1>6, <1>7 DEF Once, t

\* the one without its end has all but the last,
LEMMA OnceFront ==
  ASSUME NEW S, NEW s, Once(s, S), s # <<>>
  PROVE  Once(Front(s), S \ {Last(s)})
  <1>1. s \in Seq(Node) /\ Len(s) \in Nat \ {0} /\ DOMAIN s = 1 .. Len(s)
    BY LenProperties, EmptySeq DEF Once
  <1> DEFINE t == Front(s)
  <1>2. /\ t \in Seq(Node) /\ Len(t) = Len(s) - 1
        /\ \A j \in 1 .. Len(s) - 1 : t[j] = s[j]
    BY <1>1, SubSeqProperties DEF Front
  <1>3. DOMAIN t = 1 .. Len(s) - 1
    BY <1>2, LenProperties
  <1>4. \A p, q \in 1 .. Len(s) : s[p] = s[q] => p = q
    BY <1>1 DEF Once, IsInjective
  <1> HIDE DEF t
  <1>5. IsInjective(t)
    BY <1>1, <1>2, <1>3, <1>4 DEF IsInjective
  <1>6. ToSet(t) = S \ {Last(s)}
    BY <1>1, <1>2, <1>3, <1>4 DEF ToSet, Once, Last
  <1> QED
    BY <1>2, <1>5, <1>6 DEF Once, t

\* and the one with a new node in front has that one more.
LEMMA OncePushed ==
  ASSUME NEW S, NEW s, Once(s, S), NEW n \in Node, n \notin S
  PROVE  Once(<<n>> \o s, S \union {n})
  <1>1. s \in Seq(Node) /\ Len(s) \in Nat /\ DOMAIN s = 1 .. Len(s)
    BY LenProperties DEF Once
  <1> DEFINE t == <<n>> \o s
  <1>2. /\ t \in Seq(Node) /\ Len(t) = Len(s) + 1
        /\ \A j \in 1 .. Len(s) + 1 : t[j] = IF j <= 1 THEN n ELSE s[j - 1]
    BY <1>1, ConcatProperties
  <1>3. DOMAIN t = 1 .. Len(s) + 1
    BY <1>2, LenProperties
  <1>4. \A p, q \in 1 .. Len(s) : s[p] = s[q] => p = q
    BY <1>1 DEF Once, IsInjective
  <1>5. \A p \in 1 .. Len(s) : s[p] \in S /\ s[p] # n
    BY <1>1 DEF ToSet, Once
  <1> HIDE DEF t
  <1>6. IsInjective(t)
    BY <1>1, <1>2, <1>3, <1>4, <1>5 DEF IsInjective
  <1>7. ToSet(t) \subseteq S \union {n}
    BY <1>1, <1>2, <1>3, <1>5 DEF ToSet
  <1>8. ASSUME NEW x \in S \union {n} PROVE x \in ToSet(t)
    <2>1. CASE x = n
      BY <1>1, <1>2, <1>3, <2>1 DEF ToSet
    <2>2. CASE x # n
      <3>1. PICK p \in 1 .. Len(s) : s[p] = x
        BY <1>1, <1>8, <2>2 DEF ToSet, Once
      <3>2. p + 1 \in 1 .. Len(s) + 1 /\ t[p + 1] = x
        BY <1>1, <1>2, <3>1
      <3> QED
        BY <1>3, <3>2 DEF ToSet
    <2> QED
      BY <2>1, <2>2
  <1> QED
    BY <1>2, <1>6, <1>7, <1>8 DEF Once, t

\* The rotation that ngx_http_file_cache_forced_expire() has made when it comes
\* to the element at place i.
LEMMA OnceRotated ==
  ASSUME NEW S, NEW s, Once(s, S), NEW i \in 1 .. Len(s)
  PROVE  LET t == SubSeq(s, i + 1, Len(s)) \o SubSeq(s, 1, i)
         IN Once(t, S) /\ t # <<>> /\ Last(t) = s[i]
  <1>1. s \in Seq(Node) /\ Len(s) \in Nat /\ DOMAIN s = 1 .. Len(s)
    BY LenProperties DEF Once
  <1> DEFINE a == SubSeq(s, i + 1, Len(s))
             b == SubSeq(s, 1, i)
             t == a \o b
             k == Len(s) - i
  <1>2. /\ i + 1 \in 1 .. Len(s) + 1 /\ Len(s) \in (i + 1) - 1 .. Len(s)
         /\ Len(s) - (i + 1) + 1 = k
         /\ \A j \in 1 .. k : (i + 1) + j - 1 = i + j
    BY <1>1
  <1>3. /\ a \in Seq(Node) /\ Len(a) = k
        /\ \A j \in 1 .. k : a[j] = s[i + j]
    <2>1. /\ a \in Seq(Node) /\ Len(a) = Len(s) - (i + 1) + 1
          /\ \A j \in 1 .. Len(s) - (i + 1) + 1 : a[j] = s[(i + 1) + j - 1]
      <3> HIDE DEF a, b, k
      <3>1. i + 1 \in 1 .. Len(s) + 1 /\ Len(s) \in (i + 1) - 1 .. Len(s)
        BY <1>2
      <3> QED
        BY <1>1, <3>1, SubSeqElements DEF a
    <2> QED
      BY <1>2, <2>1
  <1>4. b \in Seq(Node) /\ Len(b) = i /\ \A j \in 1 .. i : b[j] = s[j]
    BY <1>1, SubSeqElements
  <1> HIDE DEF a, b
  <1>5. /\ t \in Seq(Node) /\ Len(t) = Len(a) + Len(b)
        /\ \A j \in 1 .. Len(a) + Len(b) :
             t[j] = IF j <= Len(a) THEN a[j] ELSE b[j - Len(a)]
    BY <1>3, <1>4, ConcatProperties
  <1>6. t = SubSeq(s, i + 1, Len(s)) \o SubSeq(s, 1, i)
    BY DEF a, b
  <1> HIDE DEF t
  <1>7. /\ Len(t) = Len(s)
        /\ \A j \in 1 .. Len(s) : t[j] = IF j <= k THEN s[i + j] ELSE s[j - k]
    BY <1>1, <1>3, <1>4, <1>5
  <1>8. DOMAIN t = 1 .. Len(s)
    BY <1>5, <1>7, LenProperties
  <1>9. \A p, q \in 1 .. Len(s) : s[p] = s[q] => p = q
    BY <1>1 DEF Once, IsInjective
  <1>10. Last(t) = s[i]
    BY <1>1, <1>7 DEF Last
  <1>11. t # <<>>
    BY <1>1, <1>7, EmptySeq
  <1>12. t \in Seq(Node)
    BY <1>5
  <1>13. IsInjective(t)
    <2> SUFFICES ASSUME NEW p \in 1 .. Len(s), NEW q \in 1 .. Len(s), t[p] = t[q]
                 PROVE  p = q
      BY <1>8 DEF IsInjective
    <2> DEFINE from(x) == IF x <= k THEN i + x ELSE x - k
    <2>1. from(p) \in 1 .. Len(s) /\ from(q) \in 1 .. Len(s)
      BY <1>1
    <2>2. s[from(p)] = s[from(q)]
      BY <1>7
    <2>3. from(p) = from(q)
      BY <1>9, <2>1, <2>2
    <2> QED
      BY <1>1, <2>3
  <1>14. ToSet(t) \subseteq S
    BY <1>1, <1>7, <1>8, SMTT(30) DEF ToSet, Once
  <1>15. ASSUME NEW x \in S PROVE x \in ToSet(t)
    <2>1. PICK p \in 1 .. Len(s) : s[p] = x
      BY <1>1 DEF ToSet, Once
    <2>2. CASE p <= i
      <3>1. p + k \in 1 .. Len(s) /\ t[p + k] = x
        BY <1>1, <1>7, <2>1, <2>2
      <3> QED
        BY <1>8, <3>1 DEF ToSet
    <2>3. CASE p > i
      <3>1. p - i \in 1 .. Len(s) /\ t[p - i] = x
        BY <1>1, <1>7, <2>1, <2>3
      <3> QED
        BY <1>8, <3>1 DEF ToSet
    <2> QED
      BY <1>1, <2>1, <2>2, <2>3
  <1> QED
    BY <1>6, <1>10, <1>11, <1>12, <1>13, <1>14, <1>15 DEF Once

\* Without and ToFront of a node that is in the queue.
LEMMA OnceWithout ==
  ASSUME NEW S, Once(queue, S), NEW n \in S
  PROVE  Once(Without(n), S \ {n})
  <1>1. DOMAIN queue = 1 .. Len(queue)
    BY LenProperties DEF Once
  <1>2. \E i \in DOMAIN queue : queue[i] = n
    BY DEF Once, ToSet
  <1>3. Place(n) \in 1 .. Len(queue) /\ queue[Place(n)] = n
    BY <1>1, <1>2 DEF Place
  <1> QED
    BY <1>3, OnceRemoveAt DEF Without

\* Moving a node to the front keeps the queue's elements.
LEMMA OnceToFront ==
  ASSUME NEW S \in SUBSET Node, Once(queue, S), NEW n \in S
  PROVE  Once(ToFront(n), S)
  <1>1. Once(Without(n), S \ {n})
    BY OnceWithout
  <1>2. (S \ {n}) \union {n} = S /\ n \notin S \ {n} /\ n \in Node
    OBVIOUS
  <1>3. Once(<<n>> \o Without(n), (S \ {n}) \union {n})
    BY <1>1, <1>2, OncePushed
  <1> QED
    BY <1>2, <1>3 DEF ToFront

-----------------------------------------------------------------------------
(***************************************************************************)
(* The inductive invariant.                                                *)
(***************************************************************************)

\* The places where a request holds a node, and those where it has none yet.
Holding == {"exists", "open", "validate", "lock", "waiting", "upstream", "free"}
Seeking == {"forced", "unlink", "realloc"}

PcInv ==
  /\ \A r \in Requests :
       /\ pc[r] = "idle" => c[r] = NULL
       /\ pc[r] \in Seeking => c[r] # NULL /\ c[r].node = NULL
       /\ pc[r] \in Holding => c[r] # NULL /\ c[r].node # NULL
  /\ \A a \in Actors :
       /\ pc[a] = "unlink" => victim[a] # NULL
       /\ victim[a] # NULL => pc[a] \in {"unlink", "dead"}
  /\ pc[Manager] \in {"idle", "forced", "unlink"}

UsersInv ==
  /\ \A r \in Requests : Held(r) \in Nodes \union {NULL}
  /\ \A a \in Actors : victim[a] \in Nodes \union {NULL}
  /\ \A n \in Nodes :
       fcn[n].count = Cardinality(Holders(n)) + Cardinality(Deleters(n))

IInv == TypeOK /\ PcInv /\ UsersInv /\ Once(queue, Nodes) /\ UpdateOwned

\* The largest min_uses exists and bounds the counts of uses.
LEMMA MostType == Most \in Nat \ {0} /\ Most \in {l.min : l \in Locations}
  <1>1. \E m \in {l.min : l \in Locations} : \A l \in Locations : l.min <= m
    BY FileCacheAssumption
  <1>2. Most \in {l.min : l \in Locations}
    BY <1>1 DEF Most
  <1> QED
    BY <1>2, FileCacheAssumption

\* A new node and a new context have their types, and NULL is neither.
LEMMA FieldTypes ==
  /\ \A u \in 1 .. Most : Cap(u + 1) \in 1 .. Most
  /\ \A k \in Keys : NewNode(k) \in NodeFields
  /\ \A k \in Keys, l \in Locations : Context(k, l) \in Contexts
  /\ NULL \notin Node /\ NULL \notin NodeFields /\ NULL \notin Contexts
  BY MostType, FileCacheAssumption DEF Cap, NewNode, Context, NodeFields, Contexts

\* The changes of a node.
LEMMA NodeChanges ==
  ASSUME NEW v \in NodeFields, NEW k \in Nat, NEW b \in BOOLEAN, NEW d \in BOOLEAN
  PROVE  /\ [v EXCEPT !.count = k, !.deleting = b] \in NodeFields
         /\ [v EXCEPT !.count = k, !.deleting = b].count = k
         /\ [v EXCEPT !.count = k, !.deleting = b].updating = v.updating
         /\ [v EXCEPT !.uses = 1, !.exists = b] \in NodeFields
         /\ [v EXCEPT !.uses = 1, !.exists = b].count = v.count
         /\ [v EXCEPT !.uses = 1, !.exists = b].updating = v.updating
         /\ [v EXCEPT !.updating = b] \in NodeFields
         /\ [v EXCEPT !.updating = b].count = v.count
         /\ [v EXCEPT !.count = k, !.error = FALSE, !.updating = FALSE, !.exists = b]
              \in NodeFields
         /\ [v EXCEPT !.count = k, !.updating = b, !.error = d] \in NodeFields
  <1>1. [v EXCEPT !.count = k, !.deleting = b] \in NodeFields
    BY DEF NodeFields
  <1>2. 1 \in 1 .. Most
    BY MostType
  <1>3. [v EXCEPT !.uses = 1, !.exists = b] \in NodeFields
    BY <1>2 DEF NodeFields
  <1>4. [v EXCEPT !.updating = b] \in NodeFields
    BY DEF NodeFields
  <1>5. [v EXCEPT !.count = k, !.error = FALSE, !.updating = FALSE, !.exists = b]
              \in NodeFields
    BY DEF NodeFields
  <1>6. [v EXCEPT !.count = k, !.updating = b, !.error = d] \in NodeFields
    BY DEF NodeFields
  <1> QED
    BY <1>1, <1>3, <1>4, <1>5, <1>6 DEF NodeFields

\* The variables but for the queue keep their types.
Fields ==
  /\ fcn \in [Node -> NodeFields \union {NULL}]
  /\ cold \in BOOLEAN /\ unread \subseteq Keys
  /\ c \in [Requests -> Contexts \union {NULL}]
  /\ pc \in [Actors -> {"idle", "exists", "forced", "unlink", "realloc", "open",
                        "validate", "lock", "waiting", "upstream", "free", "dead"}]
  /\ victim \in [Actors -> Node \union {NULL}]

\* A request that may open the cache has a context with a node of the cache or
\* with none.
LEMMA OpeningType ==
  ASSUME IInv, NEW r \in Requests, NEW x \in Opening(r)
  PROVE  /\ x \in Contexts
         /\ IF pc[r] = "idle" THEN x.node = NULL
            ELSE pc[r] = "exists" /\ x = c[r] /\ x.node \in Nodes
  <1>1. CASE At(r, "idle")
    <2>1. PICK k \in Keys, l \in Locations : x = Context(k, l)
      BY <1>1 DEF Opening
    <2> QED
      BY <1>1, <2>1, FieldTypes DEF Context, At
  <1>2. CASE ~ At(r, "idle")
    BY <1>2, FieldTypes DEF Opening, At, IInv, TypeOK, PcInv, UsersInv, Held, Holding
  <1> QED
    BY <1>1, <1>2

\* A request in one of the places of Holding has a node of the cache.
LEMMA HoldsNode ==
  ASSUME IInv, NEW r \in Requests, pc[r] \in Holding
  PROVE  /\ c[r] \in Contexts /\ c[r] # NULL /\ c[r].node \in Nodes
         /\ fcn[c[r].node] \in NodeFields
  BY FieldTypes DEF IInv, TypeOK, PcInv, UsersInv, Held, Nodes

\* A context that has been declined keeps its node and what it owns.
LEMMA DeclinedType ==
  ASSUME NEW v \in Contexts
  PROVE  /\ Declined(v).c \in Contexts /\ Declined(v).c.node = v.node
         /\ Declined(v).c.updating = v.updating /\ Declined(v).c.current = v.current
         /\ Declined(v).pc \in {"open", "lock", "upstream"}
  BY DEF Declined, Contexts

\* A request that has found its node, and one that has got a new one, hold it
\* afterwards.
FoundBy(r, n, x, v, y) ==
  /\ x \in Opening(r) /\ n \in Nodes
  /\ IF pc[r] = "idle" THEN x.node = NULL /\ v.count = fcn[n].count + 1
     ELSE pc[r] = "exists" /\ x = c[r] /\ x.node = n /\ v.count = fcn[n].count
  /\ v \in NodeFields /\ v.updating = fcn[n].updating
  /\ y \in Contexts /\ y.node = n
  /\ y.updating = x.updating /\ y.current = x.current
  /\ fcn' = [fcn EXCEPT ![n] = v]
  /\ queue' = ToFront(n)
  /\ c' = [c EXCEPT ![r] = y]
  /\ \E to \in {"open", "lock", "upstream", "free"} : Go(r, to)
  /\ UNCHANGED <<cold, unread, victim>>

\* ngx_http_file_cache_exists(), having found a node, does what FoundBy says.
LEMMA FoundEffect ==
  ASSUME IInv, NEW r \in Requests, NEW n \in Node, NEW fresh \in BOOLEAN,
         ExistsFound(r, n, fresh)
  PROVE  \E x, v, y : FoundBy(r, n, x, v, y)
  <1> DEFINE first(x) == x.node = NULL
             v(x) == IF first(x) THEN [fcn[n] EXCEPT !.count = @ + 1, !.uses = Cap(@ + 1)]
                     ELSE fcn[n]
             renewed(x) == [v(x) EXCEPT !.error = FALSE, !.exists = FALSE]
             held(x) == [x EXCEPT !.node = n, !.cacheable = TRUE]
             out(x) == IF v(x).error
                       THEN IF fresh THEN [c |-> [held(x) EXCEPT !.error = TRUE], pc |-> "free"]
                            ELSE Declined(held(x))
                       ELSE IF v(x).exists THEN [c |-> held(x), pc |-> "open"]
                       ELSE IF v(x).uses >= held(x).min THEN [c |-> held(x), pc |-> "lock"]
                       ELSE [c |-> [held(x) EXCEPT !.cacheable = FALSE], pc |-> "upstream"]
             new(x) == IF v(x).error /\ ~ fresh THEN renewed(x) ELSE v(x)
  <1>1. PICK x \in Opening(r) :
          /\ IF first(x) THEN n \in Nodes /\ fcn[n].key = x.key ELSE n = x.node
          /\ fcn' = [fcn EXCEPT ![n] = new(x)]
          /\ queue' = ToFront(n)
          /\ c' = [c EXCEPT ![r] = out(x).c]
          /\ Go(r, out(x).pc)
          /\ UNCHANGED <<cold, unread, victim>>
    BY Zenon DEF ExistsFound
  <1>2. /\ x \in Contexts /\ n \in Nodes /\ fcn[n] \in NodeFields
        /\ IF pc[r] = "idle" THEN x.node = NULL
           ELSE pc[r] = "exists" /\ x = c[r] /\ x.node = n /\ x.node # NULL
    BY <1>1, OpeningType, FieldTypes DEF IInv, TypeOK, Nodes
  <1>3. /\ v(x) \in NodeFields /\ v(x).updating = fcn[n].updating
        /\ v(x).count = IF first(x) THEN fcn[n].count + 1 ELSE fcn[n].count
    <2>1. CASE first(x)
      <3>1. Cap(fcn[n].uses + 1) \in 1 .. Most /\ fcn[n].count + 1 \in Nat
        BY <1>2, FieldTypes DEF NodeFields
      <3>2. v(x) = [fcn[n] EXCEPT !.count = fcn[n].count + 1,
                                  !.uses = Cap(fcn[n].uses + 1)]
        BY <2>1
      <3> QED
        BY <1>2, <2>1, <3>1, <3>2 DEF NodeFields
    <2>2. CASE ~ first(x)
      BY <1>2, <2>2
    <2> QED
      BY <2>1, <2>2
  <1> HIDE DEF v
  <1>4. /\ new(x) \in NodeFields /\ new(x).updating = fcn[n].updating
        /\ new(x).count = v(x).count
    BY <1>3 DEF NodeFields
  <1>5. /\ held(x) \in Contexts /\ held(x).node = n
        /\ held(x).updating = x.updating /\ held(x).current = x.current
    BY <1>2 DEF Contexts, Nodes
  <1> HIDE DEF held, new
  <1>6. /\ out(x).c \in Contexts /\ out(x).c.node = n
        /\ out(x).c.updating = x.updating /\ out(x).c.current = x.current
        /\ out(x).pc \in {"open", "lock", "upstream", "free"}
    <2>1. CASE v(x).error /\ fresh
      BY <1>5, <2>1 DEF Contexts
    <2>2. CASE v(x).error /\ ~ fresh
      BY <1>5, <2>2, DeclinedType
    <2>3. CASE ~ v(x).error /\ v(x).exists
      BY <1>5, <2>3
    <2>4. CASE ~ v(x).error /\ ~ v(x).exists /\ v(x).uses >= held(x).min
      BY <1>5, <2>4
    <2>5. CASE ~ v(x).error /\ ~ v(x).exists /\ ~ (v(x).uses >= held(x).min)
      BY <1>5, <2>5 DEF Contexts
    <2> QED
      BY <2>1, <2>2, <2>3, <2>4, <2>5
  <1> HIDE DEF out
  <1>7. FoundBy(r, n, x, new(x), out(x).c)
    BY <1>1, <1>2, <1>3, <1>4, <1>6 DEF FoundBy
  <1> QED
    BY <1>7

InsertedBy(r, x, n, v, y) ==
  /\ x \in Contexts /\ x.node = NULL
  /\ n \in Room
  /\ v \in NodeFields /\ v.count = 1 /\ v.updating = FALSE
  /\ y \in Contexts /\ y.node = n
  /\ fcn' = [fcn EXCEPT ![n] = v]
  /\ queue' = <<n>> \o queue
  /\ c' = [c EXCEPT ![r] = y]
  /\ \E to \in {"open", "lock", "upstream"} : Go(r, to)
  /\ UNCHANGED <<cold, unread, victim>>

\* A request that gets a new node does what InsertedBy says.
LEMMA InsertEffect ==
  ASSUME IInv, NEW r \in Requests, NEW x \in Contexts, x.node = NULL,
         NEW n \in Room, Insert(r, x, n)
  PROVE  \E v, y : InsertedBy(r, x, n, v, y)
  <1> DEFINE held == [x EXCEPT !.node = n]
             v == [NewNode(x.key) EXCEPT !.count = 1]
             y == Declined(held).c
  <1>1. held \in Contexts /\ held.node = n
    BY DEF Contexts, Room
  <1>2. /\ y \in Contexts /\ y.node = n
        /\ Declined(held).pc \in {"open", "lock", "upstream"}
    <2> HIDE DEF held
    <2> QED
      BY <1>1, DeclinedType
  <1>3. v \in NodeFields /\ v.count = 1 /\ v.updating = FALSE
    BY FieldTypes DEF Contexts, NewNode, NodeFields
  <1>4. /\ fcn' = [fcn EXCEPT ![n] = v]
        /\ queue' = <<n>> \o queue
        /\ c' = [c EXCEPT ![r] = y]
        /\ Go(r, Declined(held).pc)
        /\ UNCHANGED <<cold, unread, victim>>
    BY Zenon DEF Insert
  <1>5. InsertedBy(r, x, n, v, y)
    <2> HIDE DEF v, y
    <2> QED
      BY <1>2, <1>3, <1>4 DEF InsertedBy
  <1> QED
    BY <1>5

-----------------------------------------------------------------------------
(***************************************************************************)
(* Types.                                                                  *)
(***************************************************************************)

\* The actors' places are those of TypeOK.
Places == {"idle", "exists", "forced", "unlink", "realloc", "open",
           "validate", "lock", "waiting", "upstream", "free", "dead"}

\* Finding a node keeps the types,
LEMMA FoundTypes ==
  ASSUME IInv, NEW r \in Requests, NEW n, NEW x, NEW v, NEW y, FoundBy(r, n, x, v, y)
  PROVE  Fields'
  BY DEF FoundBy, IInv, TypeOK, Fields, Go, Actors

\* and so does making one.
LEMMA InsertedTypes ==
  ASSUME IInv, NEW r \in Requests, NEW n, NEW x, NEW v, NEW y, InsertedBy(r, x, n, v, y)
  PROVE  Fields'
  BY DEF InsertedBy, IInv, TypeOK, Fields, Go, Actors

\* The queue names nodes of the cache only.
LEMMA QueueNodes ==
  ASSUME IInv, NEW i \in 1 .. Len(queue)
  PROVE  queue[i] \in Nodes /\ fcn[queue[i]] \in NodeFields
  <1>1. DOMAIN queue = 1 .. Len(queue)
    BY LenProperties DEF IInv, TypeOK
  <1>2. queue[i] \in Nodes
    BY <1>1 DEF IInv, Once, ToSet
  <1> QED
    BY <1>2 DEF IInv, TypeOK, Nodes

\* ngx_http_file_cache_delete() keeps the types.
LEMMA DeleteTypes ==
  ASSUME IInv, NEW a \in Actors, NEW n \in Nodes, NEW q, Delete(a, n, q),
         UNCHANGED <<cold, unread, c>>
  PROVE  Fields'
  <1>1. fcn[n] \in NodeFields /\ n \in Node
    BY DEF IInv, TypeOK, Nodes
  <1>2. After(a) \in Places
    BY DEF After, Places
  <1>3. CASE fcn[n].exists
    <2>1. [fcn[n] EXCEPT !.count = fcn[n].count + 1, !.deleting = TRUE] \in NodeFields
      BY <1>1, fcn[n].count + 1 \in Nat, NodeChanges, ZenonT(40) DEF NodeFields
    <2>2. fcn' = [fcn EXCEPT ![n] = [fcn[n] EXCEPT !.count = fcn[n].count + 1,
                                                   !.deleting = TRUE]]
      BY <1>1, <1>3 DEF Delete, IInv, TypeOK
    <2> QED
      BY <1>1, <1>3, <2>1, <2>2 DEF Delete, IInv, TypeOK, Fields, Go
  <1>4. CASE ~ fcn[n].exists
    BY <1>1, <1>2, <1>4 DEF Delete, IInv, TypeOK, Fields, Go, Places
  <1> QED
    BY <1>3, <1>4

-----------------------------------------------------------------------------
(***************************************************************************)
(* Counting the users of a node.                                           *)
(***************************************************************************)

\* The users of a node can be counted, for there are finitely many requests.
LEMMA UsersFinite ==
  ASSUME NEW n
  PROVE  /\ IsFiniteSet(Holders(n)) /\ IsFiniteSet(Deleters(n))
         /\ Cardinality(Holders(n)) \in Nat /\ Cardinality(Deleters(n)) \in Nat
  <1>1. IsFiniteSet(Requests) /\ IsFiniteSet(Actors)
    BY FileCacheAssumption, FS_AddElement DEF Actors
  <1>2. IsFiniteSet(Holders(n)) /\ IsFiniteSet(Deleters(n))
    BY <1>1, FS_Subset DEF Holders, Deleters
  <1> QED
    BY <1>2, FS_CardinalityType

\* A node is not free while a request holds it,
LEMMA HeldCounted ==
  ASSUME IInv, NEW r \in Requests, NEW n \in Nodes, c[r] # NULL, c[r].node = n
  PROVE  fcn[n].count >= 1 /\ (fcn[n].count = 1 => Holders(n) = {r} /\ Deleters(n) = {})
  <1>1. r \in Holders(n)
    BY DEF Holders, Held
  <1>2. /\ IsFiniteSet(Holders(n) \ {r})
        /\ Cardinality(Holders(n) \ {r}) = Cardinality(Holders(n)) - 1
        /\ Cardinality(Holders(n) \ {r}) \in Nat
    BY <1>1, UsersFinite, FS_RemoveElement, FS_CardinalityType
  <1>3. fcn[n].count = Cardinality(Holders(n)) + Cardinality(Deleters(n))
    BY DEF IInv, UsersInv
  <1>4. ASSUME fcn[n].count = 1
        PROVE  Holders(n) \ {r} = {} /\ Deleters(n) = {}
    <2>1. Cardinality(Holders(n) \ {r}) = 0 /\ Cardinality(Deleters(n)) = 0
      BY <1>2, <1>3, <1>4, UsersFinite
    <2> QED
      BY <1>2, <2>1, UsersFinite, FS_EmptySet
  <1> QED
    BY <1>1, <1>2, <1>3, <1>4, UsersFinite

\* nor while an actor deletes its file;
LEMMA VictimCounted ==
  ASSUME IInv, NEW a \in Actors, NEW n \in Nodes, victim[a] = n
  PROVE  fcn[n].count >= 1 /\ (fcn[n].count = 1 => Holders(n) = {} /\ Deleters(n) = {a})
  <1>1. a \in Deleters(n)
    BY DEF Deleters
  <1>2. /\ IsFiniteSet(Deleters(n) \ {a})
        /\ Cardinality(Deleters(n) \ {a}) = Cardinality(Deleters(n)) - 1
        /\ Cardinality(Deleters(n) \ {a}) \in Nat
    BY <1>1, UsersFinite, FS_RemoveElement, FS_CardinalityType
  <1>3. fcn[n].count = Cardinality(Holders(n)) + Cardinality(Deleters(n))
    BY DEF IInv, UsersInv
  <1>4. ASSUME fcn[n].count = 1
        PROVE  Deleters(n) \ {a} = {} /\ Holders(n) = {}
    <2>1. Cardinality(Deleters(n) \ {a}) = 0 /\ Cardinality(Holders(n)) = 0
      BY <1>2, <1>3, <1>4, UsersFinite
    <2> QED
      BY <1>2, <2>1, UsersFinite, FS_EmptySet
  <1> QED
    BY <1>1, <1>2, <1>3, <1>4, UsersFinite

\* and an unused node has no users.
LEMMA Unused ==
  ASSUME IInv, NEW n \in Nodes, fcn[n].count = 0
  PROVE  Holders(n) = {} /\ Deleters(n) = {}
  <1>1. Cardinality(Holders(n)) = 0 /\ Cardinality(Deleters(n)) = 0
    BY UsersFinite DEF IInv, UsersInv
  <1> QED
    BY <1>1, UsersFinite, FS_EmptySet

\* What ngx_http_file_cache_forced_expire() deletes, when there is an unused
\* node, is at the end of what the queue is then.
LEMMA ForcedDeletes ==
  ASSUME IInv, NEW a \in Actors, NEW i \in DOMAIN queue,
         Delete(a, queue[i], SubSeq(queue, i + 1, Len(queue)) \o SubSeq(queue, 1, i))
  PROVE  /\ queue[i] \in Nodes
         /\ \E q : /\ Once(q, Nodes) /\ q # <<>> /\ Last(q) = queue[i]
                   /\ Delete(a, queue[i], q)
  <1>1. i \in 1 .. Len(queue)
    BY LenProperties DEF IInv, TypeOK
  <1>2. queue[i] \in Nodes
    BY <1>1, QueueNodes
  <1> DEFINE q == SubSeq(queue, i + 1, Len(queue)) \o SubSeq(queue, 1, i)
  <1>3. Once(q, Nodes) /\ q # <<>> /\ Last(q) = queue[i]
    BY <1>1, OnceRotated DEF IInv
  <1> QED
    BY <1>2, <1>3

\* The end of the queue, which the manager looks at, is a node of the cache.
LEMMA LastNode ==
  ASSUME IInv, queue # <<>>
  PROVE  Last(queue) \in Nodes
  <1>1. Len(queue) \in Nat \ {0}
    BY EmptySeq DEF IInv, TypeOK
  <1> QED
    BY <1>1, QueueNodes DEF Last

\* Every step keeps the types of the variables.
LEMMA FieldsNext == IInv /\ [Next]_vars => Fields'
  <1> SUFFICES ASSUME IInv, [Next]_vars PROVE Fields'
    OBVIOUS
  <1> USE DEF Go, At, Fields
  <1>0. Fields /\ Manager \in Actors /\ Requests \subseteq Actors
    BY DEF IInv, TypeOK, Actors
  <1>1. ASSUME NEW r \in Requests, NEW n \in Node, NEW fresh \in BOOLEAN,
               ExistsFound(r, n, fresh)
        PROVE  Fields'
    BY <1>1, FoundEffect, FoundTypes
  <1>2. ASSUME NEW r \in Requests, ExistsNew(r) PROVE Fields'
    <2>1. PICK x \in Opening(r) :
            /\ x.node = NULL
            /\ \/ \E n \in Room : Insert(r, x, n)
               \/ /\ c' = [c EXCEPT ![r] = x]
                  /\ Go(r, "forced")
                  /\ UNCHANGED <<shared, victim>>
      BY <1>2 DEF ExistsNew
    <2>2. x \in Contexts
      BY OpeningType
    <2>3. CASE \E n \in Room : Insert(r, x, n)
      BY <2>1, <2>2, <2>3, InsertEffect, InsertedTypes
    <2>4. CASE ~ \E n \in Room : Insert(r, x, n)
      BY <1>0, <2>1, <2>2, <2>4 DEF shared
    <2> QED
      BY <2>3, <2>4
  <1>3. ASSUME NEW r \in Requests, Realloc(r) PROVE Fields'
    <2>1. c[r] \in Contexts /\ c[r].node = NULL
      BY <1>3, FieldTypes DEF Realloc, IInv, TypeOK, PcInv, Seeking
    <2>2. CASE \E n \in Room : Insert(r, c[r], n)
      BY <2>1, <2>2, InsertEffect, InsertedTypes
    <2>3. CASE ~ \E n \in Room : Insert(r, c[r], n)
      BY <1>0, <1>3, <2>3 DEF Realloc, shared
    <2> QED
      BY <2>2, <2>3
  <1>4. ASSUME NEW r \in Requests, OpenFile(r) PROVE Fields'
    <2>1. c[r] \in Contexts /\ c[r].node \in Node /\ fcn[c[r].node] \in NodeFields
      BY <1>4, HoldsNode DEF OpenFile, Holding, Nodes
    <2>2. [c[r] EXCEPT !.cacheable = TRUE] \in Contexts
      BY <2>1 DEF Contexts
    <2>3. [fcn[c[r].node] EXCEPT !.uses = 1, !.exists = TRUE] \in NodeFields
      BY <2>1, NodeChanges
    <2>4. /\ c' \in [Requests -> Contexts \union {NULL}]
          /\ pc' \in [Actors -> Places]
      BY <1>0, <1>4, <2>2 DEF OpenFile, Places
    <2>5. fcn' \in [Node -> NodeFields \union {NULL}]
      BY <1>0, <1>4, <2>1, <2>3 DEF OpenFile
    <2> QED
      BY <1>0, <1>4, <2>4, <2>5 DEF OpenFile, Places
  <1>5. ASSUME NEW r \in Requests, Validate(r) PROVE Fields'
    <2>1. c[r] \in Contexts /\ c[r].node \in Node /\ fcn[c[r].node] \in NodeFields
      BY <1>5, HoldsNode DEF Validate, Holding, Nodes
    <2>2. [c[r] EXCEPT !.updating = TRUE, !.current = TRUE] \in Contexts
      BY <2>1 DEF Contexts
    <2>3. [fcn[c[r].node] EXCEPT !.updating = TRUE] \in NodeFields
      BY <2>1, NodeChanges
    <2>4. /\ fcn' \in [Node -> NodeFields \union {NULL}]
          /\ pc' \in [Actors -> Places]
      BY <1>0, <1>5, <2>1, <2>3 DEF Validate, Places
    <2>5. c' \in [Requests -> Contexts \union {NULL}]
      <3>1. [c EXCEPT ![r] = [c[r] EXCEPT !.updating = TRUE, !.current = TRUE]]
              = [c EXCEPT ![r].updating = TRUE, ![r].current = TRUE]
        BY <1>0
      <3> QED
        BY <1>0, <1>5, <2>2, <3>1 DEF Validate
    <2> QED
      BY <1>0, <1>5, <2>4, <2>5 DEF Validate, Places
  <1>6. ASSUME NEW r \in Requests, Lock(r) PROVE Fields'
    <2>1. c[r] \in Contexts /\ c[r].node \in Node /\ fcn[c[r].node] \in NodeFields
      BY <1>6, HoldsNode DEF Lock, Holding, Nodes
    <2>2. [fcn[c[r].node] EXCEPT !.updating = TRUE] \in NodeFields
      BY <2>1, NodeChanges
    <2>3. Overtaken(c[r].node) \in [Requests -> Contexts \union {NULL}]
      BY <1>0, ZenonT(40) DEF Overtaken, Contexts
    <2>4. Overtaken(c[r].node)[r] \in Contexts
      BY <2>1, FieldTypes DEF Overtaken, Contexts
    <2>5. [Overtaken(c[r].node)[r] EXCEPT !.updating = TRUE, !.current = TRUE] \in Contexts
      BY <2>4 DEF Contexts
    <2>6. [c[r] EXCEPT !.cacheable = FALSE] \in Contexts
      BY <2>1 DEF Contexts
    <2>7. /\ fcn' \in [Node -> NodeFields \union {NULL}]
          /\ pc' \in [Actors -> Places]
      BY <1>0, <1>6, <2>1, <2>2 DEF Lock, Places
    <2>8. c' \in [Requests -> Contexts \union {NULL}]
      BY <1>0, <1>6, <2>3, <2>5, <2>6 DEF Lock
    <2> QED
      BY <1>0, <1>6, <2>7, <2>8 DEF Lock, Places
  <1>7. ASSUME NEW r \in Requests, LockWait(r) PROVE Fields'
    <2>1. c[r] \in Contexts
      BY <1>7, HoldsNode DEF LockWait, Holding
    <2>2. [c[r] EXCEPT !.lock = "timedout"] \in Contexts
      BY <2>1 DEF Contexts
    <2> QED
      BY <1>0, <1>7, <2>2 DEF LockWait, shared
  <1>8. ASSUME NEW r \in Requests, NEW ok \in BOOLEAN, Update(r, ok) PROVE Fields'
    <2> DEFINE n == c[r].node
               e == fcn[n].exists \/ ok
               k == fcn[n].count - 1
    <2>1. n \in Nodes /\ n \in Node /\ fcn[n] \in NodeFields /\ c[r] # NULL
      BY <1>8, HoldsNode DEF Update, Holding, Nodes
    <2>2. k \in Nat /\ e \in BOOLEAN
      <3>1. fcn[n].count >= 1 /\ fcn[n].count \in Nat
        BY <2>1, HeldCounted DEF NodeFields
      <3> QED
        BY <2>1, <3>1 DEF NodeFields
    <2> DEFINE v == [fcn[n] EXCEPT !.count = @ - 1, !.error = FALSE,
                                   !.updating = FALSE, !.exists = @ \/ ok]
    <2>3. v \in NodeFields
      <3>1. fcn[n].count - 1 \in Nat /\ (fcn[n].exists \/ ok) \in BOOLEAN
        BY <2>2
      <3> QED
        BY <2>1, <3>1, NodeChanges
    <2>4. fcn' = [fcn EXCEPT ![n] = v]
      BY <1>8 DEF Update
    <2>5. /\ c' = [c EXCEPT ![r] = NULL] /\ pc' = [pc EXCEPT ![r] = "idle"]
          /\ UNCHANGED <<cold, unread, victim>>
      BY <1>8 DEF Update
    <2> HIDE DEF v
    <2> QED
      BY <1>0, <2>1, <2>3, <2>4, <2>5
  <1>9. ASSUME NEW r \in Requests, NEW error \in BOOLEAN, Free(r, error) PROVE Fields'
    <2>1. pc[r] \in Holding
      BY <1>9 DEF Free, Holding
    <2> DEFINE n == c[r].node
               v == [fcn[n] EXCEPT !.count = @ - 1,
                                   !.updating = @ /\ ~ (c[r].updating /\ c[r].current),
                                   !.error = @ \/ error]
    <2>2. /\ n \in Nodes /\ n \in Node /\ fcn[n] \in NodeFields
          /\ c[r] \in Contexts /\ c[r] # NULL
      BY <2>1, HoldsNode DEF Nodes
    <2>3. v \in NodeFields
      <3>1. fcn[n].count - 1 \in Nat /\ (fcn[n].error \/ error) \in BOOLEAN
        <4>1. fcn[n].count >= 1 /\ fcn[n].count \in Nat
          BY <2>2, HeldCounted DEF NodeFields
        <4> QED
          BY <2>2, <4>1 DEF NodeFields
      <3>2. (fcn[n].updating /\ ~ (c[r].updating /\ c[r].current)) \in BOOLEAN
        BY <2>2 DEF NodeFields
      <3> QED
        BY <2>2, <3>1, <3>2, NodeChanges
    <2>4. fcn' = [fcn EXCEPT ![n] = v] \/ fcn' = [fcn EXCEPT ![n] = NULL]
      BY <1>9 DEF Free
    <2>5. /\ c' = [c EXCEPT ![r] = NULL] /\ pc' = [pc EXCEPT ![r] = "idle"]
          /\ UNCHANGED <<cold, unread, victim>>
      BY <1>9 DEF Free
    <2> HIDE DEF v
    <2> QED
      BY <1>0, <2>2, <2>3, <2>4, <2>5
  <1>10. ASSUME NEW r \in Requests, Crash(r) PROVE Fields'
    <2> DEFINE y == [Context(c[r].key, [min |-> Most, lock |-> "off"]) EXCEPT
                       !.node = c[r].node, !.updating = c[r].updating,
                       !.current = c[r].current]
    <2>1. c[r] \in Contexts
      BY <1>0, <1>10, FieldTypes DEF Crash, IInv, PcInv, Holding, Seeking
    <2>2. y \in Contexts
      BY <2>1, MostType DEF Context, Contexts
    <2>3. c' = [c EXCEPT ![r] = NULL] \/ c' = [c EXCEPT ![r] = y]
      BY <1>0, <1>10 DEF Crash
    <2>4. /\ pc' = [pc EXCEPT ![r] = "dead"]
          /\ UNCHANGED <<fcn, cold, unread, victim>>
      BY <1>10 DEF Crash, shared
    <2> HIDE DEF y
    <2> QED
      BY <1>0, <2>2, <2>3, <2>4
  <1>11. ASSUME NEW a \in Actors, ForcedExpire(a) PROVE Fields'
    <2>1. CASE \E i \in DOMAIN queue :
                 Delete(a, queue[i],
                        SubSeq(queue, i + 1, Len(queue)) \o SubSeq(queue, 1, i))
      <3>1. UNCHANGED <<cold, unread, c>>
        BY <1>11 DEF ForcedExpire
      <3> QED
        BY <2>1, <3>1, ForcedDeletes, DeleteTypes
    <2>2. CASE Go(a, After(a)) /\ UNCHANGED <<fcn, queue, victim>>
      BY <1>0, <1>11, <2>2 DEF ForcedExpire, After
    <2> QED
      BY <1>11, <2>1, <2>2 DEF ForcedExpire
  <1>12. ASSUME NEW a \in Actors, Finish(a) PROVE Fields'
    <2>1. victim[a] \in Nodes /\ victim[a] \in Node /\ fcn[victim[a]] \in NodeFields
      BY <1>12 DEF Finish, IInv, TypeOK, PcInv, UsersInv, Nodes
    <2>2. fcn[victim[a]].count - 1 \in Nat
      BY <2>1, VictimCounted DEF NodeFields
    <2>3. [fcn[victim[a]] EXCEPT !.count = fcn[victim[a]].count - 1,
                                 !.deleting = FALSE] \in NodeFields
      BY <2>1, <2>2, NodeChanges
    <2>4. fcn' \in [Node -> NodeFields \union {NULL}]
      BY <1>0, <1>12, <2>1, <2>3 DEF Finish
    <2> QED
      BY <1>0, <1>12, <2>4 DEF Finish, After
  <1>13. ASSUME Expire PROVE Fields'
    <2>1. Last(queue) \in Nodes
      BY <1>13, LastNode DEF Expire
    <2>2. CASE Delete(Manager, Last(queue), queue)
      BY <1>0, <1>13, <2>1, <2>2, DeleteTypes DEF Expire
    <2>3. CASE ~ Delete(Manager, Last(queue), queue)
      BY <1>0, <1>13, <2>3 DEF Expire
    <2> QED
      BY <2>2, <2>3
  <1>14. ASSUME ManagerCheck PROVE Fields'
    BY <1>0, <1>14 DEF ManagerCheck, shared
  <1>15. ASSUME NEW k \in Keys, LoaderAdd(k) PROVE Fields'
    <2>1. [NewNode(k) EXCEPT !.exists = TRUE] \in NodeFields
      BY FieldTypes DEF NodeFields, NewNode
    <2> QED
      BY <1>0, <1>15, <2>1 DEF LoaderAdd, Room
  <1>16. ASSUME LoaderDone PROVE Fields'
    BY <1>0, <1>16 DEF LoaderDone
  <1>17. CASE UNCHANGED vars
    BY <1>0, <1>17 DEF vars, shared
  <1> QED
    BY <1>1, <1>2, <1>3, <1>4, <1>5, <1>6, <1>7, <1>8, <1>9, <1>10, <1>11, <1>12,
       <1>13, <1>14, <1>15, <1>16, <1>17 DEF Next, RequestStep

-----------------------------------------------------------------------------
(***************************************************************************)
(* The count of a node is the number of its users, and the queue has the   *)
(* nodes once each.  What a step does to both is one of seven things.      *)
(***************************************************************************)
RefsInv == UsersInv /\ Once(queue, Nodes)

\* How a new value of one node changes the set of nodes.
LEMMA NodesKept ==
  ASSUME IInv, NEW n \in Nodes, NEW v \in NodeFields, fcn' = [fcn EXCEPT ![n] = v]
  PROVE  Nodes' = Nodes /\ fcn'[n] = v /\ \A m \in Nodes : m # n => fcn'[m] = fcn[m]
  BY FieldTypes DEF IInv, TypeOK, Nodes

\* A place without a node that gets one,
LEMMA NodesGrown ==
  ASSUME IInv, NEW n \in Room, NEW v \in NodeFields, fcn' = [fcn EXCEPT ![n] = v]
  PROVE  /\ n \in Node /\ n \notin Nodes
         /\ Nodes' = Nodes \union {n} /\ fcn'[n] = v
         /\ \A m \in Nodes : m # n => fcn'[m] = fcn[m]
  BY FieldTypes DEF IInv, TypeOK, Nodes, Room

\* and a node that is freed.
LEMMA NodesShrunk ==
  ASSUME IInv, NEW n \in Nodes, fcn' = [fcn EXCEPT ![n] = NULL]
  PROVE  Nodes' = Nodes \ {n} /\ \A m \in Nodes : m # n => fcn'[m] = fcn[m]
  BY DEF IInv, TypeOK, Nodes

\* No user comes or goes.
Quiet ==
  /\ Nodes' = Nodes
  /\ \A n \in Nodes : fcn'[n].count = fcn[n].count
  /\ \A r \in Requests : Held(r)' = Held(r)
  /\ UNCHANGED <<queue, victim>>

\* Where no user comes or goes, the counts stay right.
LEMMA QuietKeeps ==
  ASSUME IInv, Quiet
  PROVE  RefsInv'
  <1>1. \A n : Holders(n)' = Holders(n) /\ Deleters(n)' = Deleters(n)
    BY DEF Quiet, Holders, Deleters
  <1> QED
    BY <1>1 DEF Quiet, IInv, RefsInv, UsersInv

\* Request r comes to hold node n, old or new.
Takes(r, n) ==
  /\ n \in Node
  /\ Held(r) = NULL /\ Held(r)' = n
  /\ \A q \in Requests \ {r} : Held(q)' = Held(q)
  /\ victim' = victim
  /\ Nodes' = Nodes \union {n}
  /\ \A m \in Nodes \ {n} : fcn'[m].count = fcn[m].count
  /\ fcn'[n].count = IF n \in Nodes THEN fcn[n].count + 1 ELSE 1

\* A count raised by the request that takes the node is right.
LEMMA TakesKeeps ==
  ASSUME IInv, NEW r \in Requests, NEW n, Takes(r, n)
  PROVE  UsersInv'
  <1>1. n \in Node /\ n # NULL /\ r \notin Holders(n)
    BY FieldTypes DEF Takes, Holders
  <1>2. Holders(n)' = Holders(n) \union {r}
    BY DEF Takes, Holders
  <1>3. \A m \in Node \ {n} : Holders(m)' = Holders(m)
    BY FieldTypes DEF Takes, Holders
  <1>4. \A m : Deleters(m)' = Deleters(m)
    BY DEF Takes, Deleters
  <1>5. Cardinality(Holders(n)') = Cardinality(Holders(n)) + 1
    BY <1>1, <1>2, UsersFinite, FS_AddElement
  <1>6. ASSUME n \notin Nodes PROVE Holders(n) = {} /\ Deleters(n) = {}
    BY <1>1, <1>6 DEF IInv, UsersInv, Holders, Deleters
  <1>7. n \notin Nodes => Cardinality(Holders(n)) = 0 /\ Cardinality(Deleters(n)) = 0
    BY <1>6, FS_EmptySet
  <1>8. fcn'[n].count = Cardinality(Holders(n)') + Cardinality(Deleters(n)')
    <2>1. CASE n \in Nodes
      <3>1. fcn[n].count = Cardinality(Holders(n)) + Cardinality(Deleters(n))
        BY <2>1 DEF IInv, UsersInv
      <3> QED
        BY <1>4, <1>5, <2>1, <3>1, UsersFinite DEF Takes
    <2>2. CASE n \notin Nodes
      BY <1>4, <1>5, <1>7, <2>2 DEF Takes
    <2> QED
      BY <2>1, <2>2
  <1>9. \A m \in Nodes \ {n} :
          fcn'[m].count = Cardinality(Holders(m)') + Cardinality(Deleters(m)')
    BY <1>3, <1>4 DEF Takes, IInv, UsersInv, Nodes
  <1>10. /\ \A q \in Requests : Held(q)' \in Nodes' \union {NULL}
         /\ \A a \in Actors : victim'[a] \in Nodes' \union {NULL}
    BY DEF Takes, IInv, UsersInv
  <1> QED
    BY <1>8, <1>9, <1>10 DEF Takes, UsersInv

\* Request r lets go of node n, which goes when r was its last user.
LetsGo(r, n) ==
  /\ n \in Nodes
  /\ Held(r) = n /\ Held(r)' = NULL
  /\ \A q \in Requests \ {r} : Held(q)' = Held(q)
  /\ victim' = victim
  /\ \A m \in Nodes \ {n} : fcn'[m].count = fcn[m].count
  /\ \/ Nodes' = Nodes /\ fcn'[n].count = fcn[n].count - 1
     \/ Nodes' = Nodes \ {n} /\ fcn[n].count = 1

\* A count lowered by the request that lets go of the node is right, and a node
\* that is freed then has no other user.
LEMMA LetsGoKeeps ==
  ASSUME IInv, NEW r \in Requests, NEW n, LetsGo(r, n)
  PROVE  UsersInv'
  <1>1. n \in Nodes /\ n \in Node /\ n # NULL /\ r \in Holders(n)
    BY FieldTypes DEF LetsGo, Holders, Nodes
  <1>2. Holders(n)' = Holders(n) \ {r}
    BY <1>1 DEF LetsGo, Holders
  <1>3. \A m \in Node \ {n} : Holders(m)' = Holders(m)
    BY FieldTypes DEF LetsGo, Holders
  <1>4. \A m : Deleters(m)' = Deleters(m)
    BY DEF LetsGo, Deleters
  <1>5. Cardinality(Holders(n)') = Cardinality(Holders(n)) - 1
    BY <1>1, <1>2, UsersFinite, FS_RemoveElement
  <1>6. fcn[n].count = Cardinality(Holders(n)) + Cardinality(Deleters(n))
    BY <1>1 DEF IInv, UsersInv
  <1>7. \A m \in Nodes \ {n} :
          fcn'[m].count = Cardinality(Holders(m)') + Cardinality(Deleters(m)')
    BY <1>3, <1>4 DEF LetsGo, IInv, UsersInv, Nodes
  <1>8. CASE Nodes' = Nodes /\ fcn'[n].count = fcn[n].count - 1
    <2>1. fcn'[n].count = Cardinality(Holders(n)') + Cardinality(Deleters(n)')
      BY <1>4, <1>5, <1>6, <1>8, UsersFinite
    <2> QED
      BY <1>7, <1>8, <2>1 DEF LetsGo, IInv, UsersInv
  <1>9. CASE Nodes' = Nodes \ {n} /\ fcn[n].count = 1
    <2>1. Holders(n) = {r} /\ Deleters(n) = {}
      <3>1. c[r] # NULL /\ c[r].node = n
        BY <1>1 DEF Holders, Held
      <3> QED
        BY <1>1, <1>9, <3>1, HeldCounted
    <2>2. /\ \A q \in Requests : Held(q)' \in Nodes' \union {NULL}
          /\ \A a \in Actors : victim'[a] \in Nodes' \union {NULL}
      BY <1>9, <2>1 DEF LetsGo, IInv, UsersInv, Holders, Deleters
    <2> QED
      BY <1>7, <1>9, <2>2 DEF UsersInv
  <1> QED
    BY <1>8, <1>9 DEF LetsGo

\* Actor a begins to delete the file of node n, and has deleted it.
Marks(a, n) ==
  /\ n \in Nodes
  /\ victim[a] = NULL /\ victim' = [victim EXCEPT ![a] = n]
  /\ Nodes' = Nodes /\ c' = c
  /\ \A m \in Nodes \ {n} : fcn'[m].count = fcn[m].count
  /\ fcn'[n].count = fcn[n].count + 1

\* The deletion of a file is counted while it lasts,
LEMMA MarksKeeps ==
  ASSUME IInv, NEW a \in Actors, NEW n, Marks(a, n)
  PROVE  UsersInv'
  <1>1. n \in Nodes /\ n \in Node /\ n # NULL /\ a \notin Deleters(n)
    BY FieldTypes DEF Marks, Deleters, Nodes
  <1>2. Deleters(n)' = Deleters(n) \union {a}
    BY DEF Marks, Deleters, IInv, TypeOK
  <1>3. \A m \in Node \ {n} : Deleters(m)' = Deleters(m)
    BY FieldTypes DEF Marks, Deleters, IInv, TypeOK
  <1>4. \A m : Holders(m)' = Holders(m)
    BY DEF Marks, Holders, Held
  <1>5. Cardinality(Deleters(n)') = Cardinality(Deleters(n)) + 1
    BY <1>1, <1>2, UsersFinite, FS_AddElement
  <1>6. fcn'[n].count = Cardinality(Holders(n)') + Cardinality(Deleters(n)')
    <2>1. fcn[n].count = Cardinality(Holders(n)) + Cardinality(Deleters(n))
      BY <1>1 DEF IInv, UsersInv
    <2> QED
      BY <1>4, <1>5, <2>1, UsersFinite DEF Marks
  <1>7. \A m \in Nodes \ {n} :
          fcn'[m].count = Cardinality(Holders(m)') + Cardinality(Deleters(m)')
    BY <1>3, <1>4 DEF Marks, IInv, UsersInv, Nodes
  <1>8. /\ \A q \in Requests : Held(q)' \in Nodes' \union {NULL}
        /\ \A b \in Actors : victim'[b] \in Nodes' \union {NULL}
    BY <1>1 DEF Marks, IInv, UsersInv, TypeOK, Held
  <1> QED
    BY <1>6, <1>7, <1>8 DEF Marks, UsersInv

Unmarks(a, n) ==
  /\ n \in Nodes
  /\ victim[a] = n /\ victim' = [victim EXCEPT ![a] = NULL]
  /\ c' = c
  /\ \A m \in Nodes \ {n} : fcn'[m].count = fcn[m].count
  /\ \/ Nodes' = Nodes /\ fcn'[n].count = fcn[n].count - 1
     \/ Nodes' = Nodes \ {n} /\ fcn[n].count = 1

\* and the node it frees afterwards has no user.
LEMMA UnmarksKeeps ==
  ASSUME IInv, NEW a \in Actors, NEW n, Unmarks(a, n)
  PROVE  UsersInv'
  <1>1. n \in Nodes /\ n \in Node /\ n # NULL /\ a \in Deleters(n)
    BY FieldTypes DEF Unmarks, Deleters, Nodes
  <1>2. Deleters(n)' = Deleters(n) \ {a}
    BY <1>1 DEF Unmarks, Deleters, IInv, TypeOK
  <1>3. \A m \in Node \ {n} : Deleters(m)' = Deleters(m)
    BY FieldTypes DEF Unmarks, Deleters, IInv, TypeOK
  <1>4. \A m : Holders(m)' = Holders(m)
    BY DEF Unmarks, Holders, Held
  <1>5. Cardinality(Deleters(n)') = Cardinality(Deleters(n)) - 1
    BY <1>1, <1>2, UsersFinite, FS_RemoveElement
  <1>6. fcn[n].count = Cardinality(Holders(n)) + Cardinality(Deleters(n))
    BY <1>1 DEF IInv, UsersInv
  <1>7. \A m \in Nodes \ {n} :
          fcn'[m].count = Cardinality(Holders(m)') + Cardinality(Deleters(m)')
    BY <1>3, <1>4 DEF Unmarks, IInv, UsersInv, Nodes
  <1>8. CASE Nodes' = Nodes /\ fcn'[n].count = fcn[n].count - 1
    <2>1. fcn'[n].count = Cardinality(Holders(n)') + Cardinality(Deleters(n)')
      BY <1>4, <1>5, <1>6, <1>8, UsersFinite
    <2>2. /\ \A q \in Requests : Held(q)' \in Nodes' \union {NULL}
          /\ \A b \in Actors : victim'[b] \in Nodes' \union {NULL}
      BY <1>8 DEF Unmarks, IInv, UsersInv, TypeOK, Held
    <2> QED
      BY <1>7, <1>8, <2>1, <2>2 DEF UsersInv
  <1>9. CASE Nodes' = Nodes \ {n} /\ fcn[n].count = 1
    <2>1. Deleters(n) = {a} /\ Holders(n) = {}
      BY <1>1, <1>9, VictimCounted DEF Unmarks
    <2>2. /\ \A q \in Requests : Held(q)' \in Nodes' \union {NULL}
          /\ \A b \in Actors : victim'[b] \in Nodes' \union {NULL}
      BY <1>9, <2>1 DEF Unmarks, IInv, UsersInv, TypeOK, Holders, Deleters, Held
    <2> QED
      BY <1>7, <1>9, <2>2 DEF UsersInv
  <1> QED
    BY <1>8, <1>9 DEF Unmarks

\* A node nobody uses is freed, or is made.
Drops(n) ==
  /\ n \in Nodes /\ fcn[n].count = 0
  /\ Nodes' = Nodes \ {n}
  /\ \A m \in Nodes \ {n} : fcn'[m].count = fcn[m].count
  /\ UNCHANGED <<c, victim>>

\* Freeing a node with a count of zero takes it from nobody,
LEMMA DropsKeeps ==
  ASSUME IInv, NEW n, Drops(n)
  PROVE  UsersInv'
  <1>1. Holders(n) = {} /\ Deleters(n) = {}
    BY Unused DEF Drops
  <1>2. \A m : Holders(m)' = Holders(m) /\ Deleters(m)' = Deleters(m)
    BY DEF Drops, Holders, Deleters, Held
  <1>3. \A m \in Nodes' :
          fcn'[m].count = Cardinality(Holders(m)') + Cardinality(Deleters(m)')
    BY <1>2 DEF Drops, IInv, UsersInv
  <1>4. /\ \A q \in Requests : Held(q)' \in Nodes' \union {NULL}
        /\ \A a \in Actors : victim'[a] \in Nodes' \union {NULL}
    BY <1>1 DEF Drops, IInv, UsersInv, Holders, Deleters, Held
  <1> QED
    BY <1>3, <1>4 DEF UsersInv

Adds(n) ==
  /\ n \in Node /\ n \notin Nodes
  /\ Nodes' = Nodes \union {n}
  /\ \A m \in Nodes : fcn'[m].count = fcn[m].count
  /\ fcn'[n].count = 0
  /\ UNCHANGED <<c, victim>>

\* and nobody has used a node that is new.
LEMMA AddsKeeps ==
  ASSUME IInv, NEW n, Adds(n)
  PROVE  UsersInv'
  <1>1. Holders(n) = {} /\ Deleters(n) = {}
    BY FieldTypes DEF Adds, IInv, UsersInv, Holders, Deleters
  <1>2. \A m : Holders(m)' = Holders(m) /\ Deleters(m)' = Deleters(m)
    BY DEF Adds, Holders, Deleters, Held
  <1>3. fcn'[n].count = Cardinality(Holders(n)') + Cardinality(Deleters(n)')
    BY <1>1, <1>2, FS_EmptySet DEF Adds
  <1>4. \A m \in Nodes :
          fcn'[m].count = Cardinality(Holders(m)') + Cardinality(Deleters(m)')
    BY <1>2 DEF Adds, IInv, UsersInv
  <1>5. /\ \A q \in Requests : Held(q)' \in Nodes' \union {NULL}
        /\ \A a \in Actors : victim'[a] \in Nodes' \union {NULL}
    BY DEF Adds, IInv, UsersInv, Held
  <1> QED
    BY <1>3, <1>4, <1>5 DEF Adds, UsersInv

\* Finding a node counts its request once, at its first search only.
LEMMA FoundRefs ==
  ASSUME IInv, NEW r \in Requests, NEW n, NEW x, NEW v, NEW y, FoundBy(r, n, x, v, y)
  PROVE  RefsInv'
  <1>1. /\ Nodes' = Nodes /\ fcn'[n] = v
        /\ \A m \in Nodes : m # n => fcn'[m] = fcn[m]
    BY NodesKept DEF FoundBy
  <1>2. n \in Nodes /\ n \in Node /\ fcn[n] \in NodeFields /\ n # NULL
    BY FieldTypes DEF FoundBy, Nodes, IInv, TypeOK
  <1>3. Once(queue', Nodes)
    BY <1>2, OnceToFront DEF FoundBy, IInv, Nodes
  <1>4. Held(r)' = n /\ \A q \in Requests \ {r} : Held(q)' = Held(q)
    BY FieldTypes DEF FoundBy, Held, IInv, TypeOK
  <1>5. CASE pc[r] = "idle"
    <2>1. Held(r) = NULL
      BY <1>5 DEF IInv, PcInv, Held
    <2>2. Takes(r, n)
      BY <1>1, <1>2, <1>4, <1>5, <2>1 DEF Takes, FoundBy
    <2> QED
      BY <1>1, <1>3, <2>2, TakesKeeps DEF RefsInv
  <1>6. CASE pc[r] # "idle"
    <2>1. Held(r) = n
      BY <1>2, <1>6, FieldTypes DEF FoundBy, Held, IInv, PcInv, Holding
    <2>2. \A q \in Requests : Held(q)' = Held(q)
      BY <1>4, <2>1
    <2>3. \A m \in Nodes : fcn'[m].count = fcn[m].count
      BY <1>1, <1>6 DEF FoundBy
    <2>4. UsersInv'
      <3>1. \A m : Holders(m)' = Holders(m) /\ Deleters(m)' = Deleters(m)
        BY <2>2 DEF FoundBy, Holders, Deleters
      <3> QED
        BY <1>1, <2>2, <2>3, <3>1 DEF FoundBy, IInv, UsersInv
    <2> QED
      BY <1>1, <1>3, <2>4 DEF RefsInv
  <1> QED
    BY <1>5, <1>6

\* A new node is counted for the request that has made it.
LEMMA InsertedRefs ==
  ASSUME IInv, NEW r \in Requests, NEW n, NEW x, NEW v, NEW y, InsertedBy(r, x, n, v, y),
         Held(r) = NULL
  PROVE  RefsInv'
  <1>1. /\ n \in Node /\ n \notin Nodes
        /\ Nodes' = Nodes \union {n} /\ fcn'[n] = v
        /\ \A m \in Nodes : m # n => fcn'[m] = fcn[m]
    BY NodesGrown DEF InsertedBy
  <1>2. Once(queue', Nodes')
    BY <1>1, OncePushed DEF InsertedBy, IInv
  <1>3. Held(r)' = n /\ \A q \in Requests \ {r} : Held(q)' = Held(q)
    BY FieldTypes DEF InsertedBy, Held, IInv, TypeOK
  <1>4. Takes(r, n)
    BY <1>1, <1>3 DEF Takes, InsertedBy
  <1> QED
    BY <1>2, <1>4, TakesKeeps DEF RefsInv

\* ngx_http_file_cache_delete() frees or marks a node nobody uses.
LEMMA DeleteRefs ==
  ASSUME IInv, NEW a \in Actors, NEW n \in Nodes, fcn[n].count = 0, pc[a] # "unlink",
         pc[a] # "dead", NEW q, Once(q, Nodes), q # <<>>, Last(q) = n,
         Delete(a, n, q), c' = c
  PROVE  RefsInv'
  <1>1. fcn[n] \in NodeFields /\ n \in Node /\ victim[a] = NULL
    BY DEF IInv, TypeOK, Nodes, PcInv
  <1>2. CASE fcn[n].exists
    <2> DEFINE v == [fcn[n] EXCEPT !.count = fcn[n].count + 1, !.deleting = TRUE]
    <2>1. v \in NodeFields /\ v.count = fcn[n].count + 1
      <3>1. fcn[n].count + 1 \in Nat
        BY <1>1 DEF NodeFields
      <3> QED
        BY <1>1, <3>1, NodeChanges, ZenonT(40)
    <2>2. fcn' = [fcn EXCEPT ![n] = v] /\ queue' = q /\ victim' = [victim EXCEPT ![a] = n]
      BY <1>1, <1>2 DEF Delete, IInv, TypeOK
    <2> HIDE DEF v
    <2>3. /\ Nodes' = Nodes /\ fcn'[n] = v
          /\ \A m \in Nodes : m # n => fcn'[m] = fcn[m]
      BY <2>1, <2>2, NodesKept
    <2>4. Marks(a, n)
      BY <1>1, <2>1, <2>2, <2>3 DEF Marks
    <2> QED
      BY <2>2, <2>3, <2>4, MarksKeeps DEF RefsInv
  <1>3. CASE ~ fcn[n].exists
    <2>1. fcn' = [fcn EXCEPT ![n] = NULL] /\ queue' = Front(q) /\ victim' = victim
      BY <1>3 DEF Delete
    <2>2. Nodes' = Nodes \ {n} /\ \A m \in Nodes : m # n => fcn'[m] = fcn[m]
      BY <2>1, NodesShrunk
    <2>3. Once(queue', Nodes')
      BY <2>1, <2>2, OnceFront
    <2>4. Drops(n)
      BY <2>1, <2>2 DEF Drops
    <2> QED
      BY <2>3, <2>4, DropsKeeps DEF RefsInv
  <1> QED
    BY <1>2, <1>3

\* Moving a node to the front changes no count.
LEMMA MovedRefs ==
  ASSUME IInv, NEW n \in Nodes, queue' = ToFront(n), UNCHANGED <<fcn, c, victim>>
  PROVE  RefsInv'
  <1>1. Nodes' = Nodes /\ Once(queue', Nodes)
    BY OnceToFront DEF IInv, Nodes
  <1>2. \A m : Holders(m)' = Holders(m) /\ Deleters(m)' = Deleters(m)
    BY DEF Holders, Deleters, Held
  <1> QED
    BY <1>1, <1>2 DEF IInv, RefsInv, UsersInv, Held

\* A request that changes its node's mark but holds on to it.
LEMMA MarkQuiet ==
  ASSUME IInv, NEW n \in Nodes, NEW v \in NodeFields, v.count = fcn[n].count,
         fcn' = fcn \/ fcn' = [fcn EXCEPT ![n] = v],
         \A r \in Requests : Held(r)' = Held(r), UNCHANGED <<queue, victim>>
  PROVE  Quiet
  <1>1. CASE fcn' = fcn
    BY <1>1 DEF Quiet, Nodes
  <1>2. CASE fcn' = [fcn EXCEPT ![n] = v]
    BY <1>2, NodesKept DEF Quiet
  <1> QED
    BY <1>1, <1>2

\* ngx_http_file_cache_lock() changes no context's node.
LEMMA LockContexts ==
  ASSUME IInv, NEW r \in Requests, Lock(r), NEW q \in Requests
  PROVE  /\ c'[q] = NULL <=> c[q] = NULL
         /\ c[q] # NULL => c'[q] \in Contexts /\ c'[q].node = c[q].node
  <1> DEFINE n == c[r].node
             y == [c[r] EXCEPT !.cacheable = FALSE]
             o == Overtaken(n)
             z == [o[r] EXCEPT !.updating = TRUE, !.current = TRUE]
  <1>1. c[r] \in Contexts /\ c[r] # NULL /\ c \in [Requests -> Contexts \union {NULL}]
    BY HoldsNode DEF Lock, At, Holding, IInv, TypeOK
  <1>2. y \in Contexts /\ y.node = n
    BY <1>1 DEF Contexts
  <1>3. /\ o \in [Requests -> Contexts \union {NULL}]
        /\ o[q] = NULL <=> c[q] = NULL
        /\ c[q] # NULL => o[q] \in Contexts /\ o[q].node = c[q].node
    BY <1>1, FieldTypes, ZenonT(40) DEF Overtaken, Contexts
  <1>4. o[r] \in Contexts /\ o[r].node = n
    BY <1>1, FieldTypes DEF Overtaken, Contexts
  <1> HIDE DEF o
  <1>5. z \in Contexts /\ z.node = n
    BY <1>4 DEF Contexts
  <1>6. c' = c \/ c' = [c EXCEPT ![r] = y] \/ c' = [o EXCEPT ![r] = z]
    BY <1>1 DEF Lock, o
  <1> HIDE DEF y, z
  <1> QED
    BY <1>1, <1>2, <1>3, <1>5, <1>6, FieldTypes

\* Every step keeps the counts and the queue.
LEMMA RefsNext == IInv /\ [Next]_vars => RefsInv'
  <1> SUFFICES ASSUME IInv, [Next]_vars PROVE RefsInv'
    OBVIOUS
  <1> USE DEF Go, At
  <1>0. /\ Manager \in Actors /\ Requests \subseteq Actors
        /\ c \in [Requests -> Contexts \union {NULL}]
        /\ fcn \in [Node -> NodeFields \union {NULL}]
    BY DEF IInv, TypeOK, Actors
  <1>1. ASSUME NEW r \in Requests, NEW n \in Node, NEW fresh \in BOOLEAN,
               ExistsFound(r, n, fresh)
        PROVE  RefsInv'
    BY <1>1, FoundEffect, FoundRefs
  <1>2. ASSUME NEW r \in Requests, ExistsNew(r) PROVE RefsInv'
    <2>1. PICK x \in Opening(r) :
            /\ x.node = NULL
            /\ \/ \E n \in Room : Insert(r, x, n)
               \/ /\ c' = [c EXCEPT ![r] = x]
                  /\ Go(r, "forced")
                  /\ UNCHANGED <<shared, victim>>
      BY <1>2 DEF ExistsNew
    <2>2. x \in Contexts /\ Held(r) = NULL
      BY <2>1, OpeningType, FieldTypes DEF IInv, PcInv, Held, Nodes
    <2>3. CASE \E n \in Room : Insert(r, x, n)
      BY <2>1, <2>2, <2>3, InsertEffect, InsertedRefs
    <2>4. CASE ~ \E n \in Room : Insert(r, x, n)
      <3>1. Held(r)' = NULL /\ \A q \in Requests \ {r} : Held(q)' = Held(q)
        BY <1>0, <2>1, <2>4 DEF Held
      <3>2. Quiet
        BY <2>1, <2>2, <2>4, <3>1 DEF Quiet, shared, Nodes
      <3> QED
        BY <3>2, QuietKeeps
    <2> QED
      BY <2>3, <2>4
  <1>3. ASSUME NEW r \in Requests, Realloc(r) PROVE RefsInv'
    <2>1. c[r] \in Contexts /\ c[r].node = NULL /\ Held(r) = NULL
      BY <1>0, <1>3 DEF Realloc, IInv, PcInv, Seeking, Held
    <2>2. CASE \E n \in Room : Insert(r, c[r], n)
      BY <2>1, <2>2, InsertEffect, InsertedRefs
    <2>3. CASE ~ \E n \in Room : Insert(r, c[r], n)
      <3>1. c' = [c EXCEPT ![r] = NULL] /\ UNCHANGED <<shared, victim>>
        BY <1>3, <2>3 DEF Realloc
      <3>2. Quiet
        BY <1>0, <2>1, <3>1 DEF Quiet, shared, Nodes, Held
      <3> QED
        BY <3>2, QuietKeeps
    <2> QED
      BY <2>2, <2>3
  <1>4. ASSUME NEW r \in Requests, OpenFile(r) PROVE RefsInv'
    <2>1. /\ c[r] \in Contexts /\ c[r] # NULL /\ c[r].node \in Nodes
          /\ fcn[c[r].node] \in NodeFields
      BY <1>4, HoldsNode DEF OpenFile, Holding
    <2> DEFINE v == [fcn[c[r].node] EXCEPT !.uses = 1, !.exists = TRUE]
               y == [c[r] EXCEPT !.cacheable = TRUE]
    <2>2. v \in NodeFields /\ v.count = fcn[c[r].node].count
      BY <2>1, NodeChanges
    <2>3. fcn' = fcn \/ fcn' = [fcn EXCEPT ![c[r].node] = v]
      BY <1>0, <1>4, <2>1 DEF OpenFile, Nodes
    <2>4. c' = c \/ c' = [c EXCEPT ![r] = y]
      BY <1>0, <1>4 DEF OpenFile
    <2>5. y \in Contexts /\ y.node = c[r].node
      BY <2>1 DEF Contexts
    <2> HIDE DEF y
    <2>6. \A q \in Requests : Held(q)' = Held(q)
      BY <1>0, <2>1, <2>4, <2>5, FieldTypes DEF Held
    <2>7. UNCHANGED <<queue, victim>>
      BY <1>4 DEF OpenFile
    <2> HIDE DEF v
    <2> QED
      BY <2>1, <2>2, <2>3, <2>6, <2>7, MarkQuiet, QuietKeeps
  <1>5. ASSUME NEW r \in Requests, Validate(r) PROVE RefsInv'
    <2>1. /\ c[r] \in Contexts /\ c[r] # NULL /\ c[r].node \in Nodes
          /\ fcn[c[r].node] \in NodeFields
      BY <1>5, HoldsNode DEF Validate, Holding
    <2> DEFINE v == [fcn[c[r].node] EXCEPT !.updating = TRUE]
               y == [c[r] EXCEPT !.updating = TRUE, !.current = TRUE]
    <2>2. v \in NodeFields /\ v.count = fcn[c[r].node].count
      BY <2>1, NodeChanges
    <2>3. fcn' = fcn \/ fcn' = [fcn EXCEPT ![c[r].node] = v]
      BY <1>0, <1>5, <2>1 DEF Validate, Nodes
    <2>4. c' = c \/ c' = [c EXCEPT ![r] = y]
      BY <1>0, <1>5 DEF Validate
    <2>5. y \in Contexts /\ y.node = c[r].node
      BY <2>1 DEF Contexts
    <2> HIDE DEF y
    <2>6. \A q \in Requests : Held(q)' = Held(q)
      BY <1>0, <2>1, <2>4, <2>5, FieldTypes DEF Held
    <2>7. UNCHANGED <<queue, victim>>
      BY <1>5 DEF Validate
    <2> HIDE DEF v
    <2> QED
      BY <2>1, <2>2, <2>3, <2>6, <2>7, MarkQuiet, QuietKeeps
  <1>6. ASSUME NEW r \in Requests, Lock(r) PROVE RefsInv'
    <2>1. /\ c[r] \in Contexts /\ c[r] # NULL /\ c[r].node \in Nodes
          /\ fcn[c[r].node] \in NodeFields
      BY <1>6, HoldsNode DEF Lock, Holding
    <2> DEFINE v == [fcn[c[r].node] EXCEPT !.updating = TRUE]
    <2>2. v \in NodeFields /\ v.count = fcn[c[r].node].count
      BY <2>1, NodeChanges
    <2>3. fcn' = fcn \/ fcn' = [fcn EXCEPT ![c[r].node] = v]
      BY <1>0, <1>6, <2>1 DEF Lock, Nodes
    <2>4. \A q \in Requests : c'[q] = NULL <=> c[q] = NULL
      BY LockContexts, <1>6
    <2>5. \A q \in Requests : c[q] # NULL => c'[q].node = c[q].node
      BY LockContexts, <1>6
    <2>6. \A q \in Requests : Held(q)' = Held(q)
      BY <2>4, <2>5 DEF Held
    <2>7. UNCHANGED <<queue, victim>>
      BY <1>6 DEF Lock
    <2> HIDE DEF v
    <2> QED
      BY <2>1, <2>2, <2>3, <2>6, <2>7, MarkQuiet, QuietKeeps
  <1>7. ASSUME NEW r \in Requests, LockWait(r) PROVE RefsInv'
    <2>1. c[r] \in Contexts /\ c[r] # NULL
      BY <1>7, HoldsNode DEF LockWait, Holding
    <2> DEFINE y == [c[r] EXCEPT !.lock = "timedout"]
    <2>2. y \in Contexts /\ y.node = c[r].node
      BY <2>1 DEF Contexts
    <2>3. (c' = c \/ c' = [c EXCEPT ![r] = y]) /\ UNCHANGED <<shared, victim>>
      BY <1>0, <1>7 DEF LockWait
    <2> HIDE DEF y
    <2>4. \A q \in Requests : Held(q)' = Held(q)
      BY <1>0, <2>1, <2>2, <2>3, FieldTypes DEF Held
    <2>5. Quiet
      BY <2>3, <2>4 DEF Quiet, shared, Nodes
    <2> QED
      BY <2>5, QuietKeeps
  <1>8. ASSUME NEW r \in Requests, NEW ok \in BOOLEAN, Update(r, ok) PROVE RefsInv'
    <2> DEFINE n == c[r].node
               v == [fcn[n] EXCEPT !.count = @ - 1, !.error = FALSE,
                                   !.updating = FALSE, !.exists = @ \/ ok]
    <2>1. n \in Nodes /\ fcn[n] \in NodeFields /\ c[r] # NULL
      BY <1>8, HoldsNode DEF Update, Holding
    <2>2. v \in NodeFields /\ v.count = fcn[n].count - 1
      <3>1. fcn[n].count >= 1 /\ fcn[n].count \in Nat
        BY <2>1, HeldCounted DEF NodeFields
      <3>2. fcn[n].count - 1 \in Nat /\ (fcn[n].exists \/ ok) \in BOOLEAN
        BY <2>1, <3>1 DEF NodeFields
      <3>3. v \in NodeFields
        BY <2>1, <3>2, NodeChanges
      <3> QED
        BY <2>1, <3>3 DEF NodeFields
    <2>3. fcn' = [fcn EXCEPT ![n] = v]
      BY <1>8 DEF Update
    <2>4. c' = [c EXCEPT ![r] = NULL] /\ UNCHANGED <<queue, victim>>
      BY <1>8 DEF Update
    <2> HIDE DEF v
    <2>5. /\ Nodes' = Nodes /\ fcn'[n] = v
          /\ \A m \in Nodes : m # n => fcn'[m] = fcn[m]
      BY <2>1, <2>2, <2>3, NodesKept
    <2>6. LetsGo(r, n)
      BY <1>0, <2>1, <2>2, <2>4, <2>5 DEF LetsGo, Held
    <2> QED
      BY <2>4, <2>5, <2>6, LetsGoKeeps DEF RefsInv, IInv
  <1>9. ASSUME NEW r \in Requests, NEW error \in BOOLEAN, Free(r, error) PROVE RefsInv'
    <2> DEFINE n == c[r].node
               v == [fcn[n] EXCEPT !.count = @ - 1,
                                   !.updating = @ /\ ~ (c[r].updating /\ c[r].current),
                                   !.error = @ \/ error]
    <2>1. /\ n \in Nodes /\ n \in Node /\ fcn[n] \in NodeFields
          /\ c[r] \in Contexts /\ c[r] # NULL
      <3>1. pc[r] \in Holding
        BY <1>9 DEF Free, Holding
      <3> QED
        BY <3>1, HoldsNode DEF Nodes
    <2>2. v \in NodeFields /\ v.count = fcn[n].count - 1 /\ fcn[n].count >= 1
      <3>1. fcn[n].count >= 1 /\ fcn[n].count \in Nat
        BY <2>1, HeldCounted DEF NodeFields
      <3>2. fcn[n].count - 1 \in Nat /\ (fcn[n].error \/ error) \in BOOLEAN
        BY <2>1, <3>1 DEF NodeFields
      <3>3. (fcn[n].updating /\ ~ (c[r].updating /\ c[r].current)) \in BOOLEAN
        BY <2>1 DEF NodeFields
      <3>4. v \in NodeFields
        BY <2>1, <3>2, <3>3, NodeChanges
      <3> QED
        BY <2>1, <3>1, <3>4 DEF NodeFields
    <2>3. \/ fcn' = [fcn EXCEPT ![n] = NULL] /\ queue' = Without(n) /\ v.count = 0
          \/ fcn' = [fcn EXCEPT ![n] = v] /\ queue' = queue
      BY <1>9 DEF Free
    <2>4. c' = [c EXCEPT ![r] = NULL] /\ victim' = victim
      BY <1>9 DEF Free
    <2> HIDE DEF v
    <2>5. /\ Held(r) = n /\ Held(r)' = NULL
          /\ \A q \in Requests \ {r} : Held(q)' = Held(q)
      BY <1>0, <2>1, <2>4 DEF Held
    <2>6. CASE fcn' = [fcn EXCEPT ![n] = v] /\ queue' = queue
      <3>1. /\ Nodes' = Nodes /\ fcn'[n] = v
            /\ \A m \in Nodes : m # n => fcn'[m] = fcn[m]
        BY <2>1, <2>2, <2>6, NodesKept
      <3>2. LetsGo(r, n)
        BY <2>1, <2>2, <2>4, <2>5, <3>1 DEF LetsGo
      <3> QED
        BY <2>6, <3>1, <3>2, LetsGoKeeps DEF RefsInv, IInv
    <2>7. CASE fcn' = [fcn EXCEPT ![n] = NULL] /\ queue' = Without(n) /\ v.count = 0
      <3>1. Nodes' = Nodes \ {n} /\ \A m \in Nodes : m # n => fcn'[m] = fcn[m]
        BY <2>1, <2>7, NodesShrunk
      <3>2. fcn[n].count = 1
        BY <2>1, <2>2, <2>7 DEF NodeFields
      <3>3. LetsGo(r, n)
        BY <2>1, <2>4, <2>5, <3>1, <3>2 DEF LetsGo
      <3>4. Once(queue', Nodes')
        BY <2>1, <2>7, <3>1, OnceWithout DEF IInv
      <3> QED
        BY <3>3, <3>4, LetsGoKeeps DEF RefsInv
    <2> QED
      BY <2>3, <2>6, <2>7
  <1>10. ASSUME NEW r \in Requests, Crash(r) PROVE RefsInv'
    <2> DEFINE y == [Context(c[r].key, [min |-> Most, lock |-> "off"]) EXCEPT
                       !.node = c[r].node, !.updating = c[r].updating,
                       !.current = c[r].current]
    <2>1. c[r] \in Contexts /\ c[r] # NULL
      BY <1>0, <1>10, FieldTypes DEF Crash, IInv, TypeOK, PcInv, Holding, Seeking
    <2>2. y \in Contexts /\ y.node = c[r].node /\ y # NULL
      <3>1. y \in Contexts
        BY <2>1, MostType DEF Context, Contexts
      <3>2. y.node = c[r].node
        BY DEF Context
      <3> QED
        BY <3>1, <3>2, FieldTypes
    <2>3. c' = [c EXCEPT ![r] = IF c[r].node = NULL THEN NULL ELSE y]
      BY <1>0, <1>10 DEF Crash
    <2>4. UNCHANGED <<shared, victim>>
      BY <1>10 DEF Crash
    <2> HIDE DEF y
    <2>5. \A q \in Requests : Held(q)' = Held(q)
      BY <1>0, <2>1, <2>2, <2>3 DEF Held
    <2>6. Quiet
      BY <2>4, <2>5 DEF Quiet, shared, Nodes
    <2> QED
      BY <2>6, QuietKeeps
  <1>11. ASSUME NEW a \in Actors, ForcedExpire(a) PROVE RefsInv'
    <2>1. UNCHANGED <<cold, unread, c>> /\ pc[a] = "forced"
      BY <1>11 DEF ForcedExpire
    <2>2. CASE Go(a, After(a)) /\ UNCHANGED <<fcn, queue, victim>>
      <3>1. Quiet
        BY <2>1, <2>2 DEF Quiet, Nodes, Held
      <3> QED
        BY <3>1, QuietKeeps
    <2>3. ASSUME NEW i \in DOMAIN queue, fcn[queue[i]].count = 0,
                 Delete(a, queue[i],
                        SubSeq(queue, i + 1, Len(queue)) \o SubSeq(queue, 1, i))
          PROVE  RefsInv'
      BY <2>1, <2>3, ForcedDeletes, DeleteRefs
    <2> QED
      BY <1>11, <2>2, <2>3 DEF ForcedExpire
  <1>12. ASSUME NEW a \in Actors, Finish(a) PROVE RefsInv'
    <2> DEFINE n == victim[a]
               v == [fcn[n] EXCEPT !.count = fcn[n].count - 1, !.deleting = FALSE]
    <2>1. n \in Nodes /\ n \in Node /\ fcn[n] \in NodeFields
      BY <1>12 DEF Finish, IInv, TypeOK, PcInv, UsersInv, Nodes
    <2>2. fcn[n].count - 1 \in Nat /\ fcn[n].count >= 1
      BY <2>1, VictimCounted DEF NodeFields
    <2>3. victim' = [victim EXCEPT ![a] = NULL] /\ c' = c
      BY <1>12 DEF Finish
    <2>4. CASE fcn[n].count = 1
      <3>1. fcn' = [fcn EXCEPT ![n] = NULL] /\ queue' = Without(n)
        BY <1>12, <2>4 DEF Finish
      <3>2. Nodes' = Nodes \ {n} /\ \A m \in Nodes : m # n => fcn'[m] = fcn[m]
        BY <2>1, <3>1, NodesShrunk
      <3>3. Unmarks(a, n)
        BY <2>1, <2>3, <2>4, <3>2 DEF Unmarks
      <3>4. Once(queue', Nodes')
        BY <2>1, <3>1, <3>2, OnceWithout DEF IInv
      <3> QED
        BY <3>3, <3>4, UnmarksKeeps DEF RefsInv
    <2>5. CASE fcn[n].count # 1
      <3>1. v \in NodeFields /\ v.count = fcn[n].count - 1
        BY <2>1, <2>2, NodeChanges
      <3>2. fcn' = [fcn EXCEPT ![n] = v] /\ queue' = queue
        BY <1>0, <1>12, <2>1, <2>5 DEF Finish
      <3> HIDE DEF v
      <3>3. /\ Nodes' = Nodes /\ fcn'[n] = v
            /\ \A m \in Nodes : m # n => fcn'[m] = fcn[m]
        BY <2>1, <3>1, <3>2, NodesKept
      <3>4. Unmarks(a, n)
        BY <2>1, <2>3, <3>1, <3>3 DEF Unmarks
      <3> QED
        BY <3>2, <3>3, <3>4, UnmarksKeeps DEF RefsInv, IInv
    <2> QED
      BY <2>4, <2>5
  <1>13. ASSUME Expire PROVE RefsInv'
    <2>1. Last(queue) \in Nodes /\ queue # <<>> /\ pc[Manager] = "idle" /\ c' = c
      BY <1>13, LastNode DEF Expire
    <2>2. CASE fcn[Last(queue)].count = 0 /\ Delete(Manager, Last(queue), queue)
      BY <1>0, <2>1, <2>2, DeleteRefs DEF IInv
    <2>3. CASE queue' = ToFront(Last(queue)) /\ UNCHANGED <<fcn, pc, victim>>
      BY <2>1, <2>3, MovedRefs
    <2> QED
      BY <1>13, <2>2, <2>3 DEF Expire
  <1>14. ASSUME ManagerCheck \/ LoaderDone \/ UNCHANGED vars PROVE RefsInv'
    <2>1. Quiet
      BY <1>14 DEF ManagerCheck, LoaderDone, vars, shared, Quiet, Nodes, Held
    <2> QED
      BY <2>1, QuietKeeps
  <1>15. ASSUME NEW k \in Keys, LoaderAdd(k) PROVE RefsInv'
    <2>1. UNCHANGED <<cold, c, pc, victim>>
      BY <1>15 DEF LoaderAdd
    <2>2. ASSUME NEW n \in Nodes, queue' = ToFront(n), fcn' = fcn PROVE RefsInv'
      BY <2>1, <2>2, MovedRefs
    <2>3. ASSUME NEW n \in Room, fcn' = [fcn EXCEPT ![n] = [NewNode(k) EXCEPT !.exists = TRUE]],
                 queue' = <<n>> \o queue
          PROVE  RefsInv'
      <3> DEFINE v == [NewNode(k) EXCEPT !.exists = TRUE]
      <3>1. v \in NodeFields /\ v.count = 0
        BY FieldTypes DEF NodeFields, NewNode
      <3> HIDE DEF v
      <3>2. /\ n \in Node /\ n \notin Nodes
            /\ Nodes' = Nodes \union {n} /\ fcn'[n] = v
            /\ \A m \in Nodes : m # n => fcn'[m] = fcn[m]
        BY <2>3, <3>1, NodesGrown DEF v
      <3>3. Adds(n)
        BY <2>1, <3>1, <3>2 DEF Adds
      <3>4. Once(queue', Nodes')
        BY <2>3, <3>2, OncePushed DEF IInv
      <3> QED
        BY <3>3, <3>4, AddsKeeps DEF RefsInv
    <2>4. ASSUME UNCHANGED <<fcn, queue>> PROVE RefsInv'
      <3>1. Quiet
        BY <2>1, <2>4 DEF Quiet, Nodes, Held
      <3> QED
        BY <3>1, QuietKeeps
    <2> QED
      BY <1>15, <2>2, <2>3, <2>4 DEF LoaderAdd
  <1> QED
    BY <1>1, <1>2, <1>3, <1>4, <1>5, <1>6, <1>7, <1>8, <1>9, <1>10, <1>11, <1>12,
       <1>13, <1>14, <1>15 DEF Next, RequestStep

-----------------------------------------------------------------------------
(***************************************************************************)
(* The places of the actors.                                               *)
(***************************************************************************)
RequestAt(p, x) ==
  /\ p = "idle" => x = NULL
  /\ p \in Seeking => x # NULL /\ x.node = NULL
  /\ p \in Holding => x # NULL /\ x.node # NULL

DeleterAt(p, v) ==
  /\ p = "unlink" => v # NULL
  /\ v # NULL => p \in {"unlink", "dead"}

\* Only actor a goes on, and what it has then fits its place.
LEMMA PlacesKept ==
  ASSUME IInv, NEW a \in Actors, NEW to, Go(a, to),
         \A q \in Requests \ {a} :
           (c'[q] = NULL <=> c[q] = NULL) /\ (c[q] # NULL => c'[q].node = c[q].node),
         \A b \in Actors \ {a} : victim'[b] = victim[b],
         a \in Requests => RequestAt(to, c'[a]),
         DeleterAt(to, victim'[a]),
         a = Manager => to \in {"idle", "forced", "unlink"}
  PROVE  PcInv'
  <1>1. pc \in [Actors -> Places] /\ Manager \in Actors /\ Requests \subseteq Actors
    BY DEF IInv, TypeOK, Actors, Places
  <1>2. pc'[a] = to /\ \A b \in Actors \ {a} : pc'[b] = pc[b]
    BY <1>1 DEF Go
  <1>3. ASSUME NEW r \in Requests PROVE RequestAt(pc'[r], c'[r])
    <2>1. CASE r = a
      BY <1>2, <2>1
    <2>2. CASE r # a
      BY <1>1, <1>2, <2>2 DEF RequestAt, IInv, PcInv
    <2> QED
      BY <2>1, <2>2
  <1>4. ASSUME NEW b \in Actors PROVE DeleterAt(pc'[b], victim'[b])
    <2>1. CASE b = a
      BY <1>2, <2>1
    <2>2. CASE b # a
      BY <1>1, <1>2, <2>2 DEF DeleterAt, IInv, PcInv
    <2> QED
      BY <2>1, <2>2
  <1>5. pc'[Manager] \in {"idle", "forced", "unlink"}
    BY <1>1, <1>2 DEF IInv, PcInv
  <1> QED
    BY <1>3, <1>4, <1>5 DEF PcInv, RequestAt, DeleterAt

\* A request that deletes nothing goes on with context y.
LEMMA RequestPlaces ==
  ASSUME IInv, NEW r \in Requests, NEW to, NEW y, Go(r, to),
         c' = [c EXCEPT ![r] = y], victim' = victim, RequestAt(to, y),
         pc[r] \notin {"unlink", "dead"}, to # "unlink"
  PROVE  PcInv'
  <1>1. r \in Actors /\ r # Manager
    BY FileCacheAssumption DEF Actors
  <1>2. victim[r] = NULL
    BY <1>1 DEF IInv, PcInv
  <1>3. c'[r] = y /\ \A q \in Requests \ {r} : c'[q] = c[q]
    BY DEF IInv, TypeOK
  <1>4. DeleterAt(to, victim'[r])
    BY <1>2 DEF DeleterAt
  <1> QED
    BY <1>1, <1>3, <1>4, PlacesKept

\* No place, context or victim changes.
LEMMA SamePlaces ==
  ASSUME IInv, UNCHANGED <<c, pc, victim>>
  PROVE  PcInv'
  BY DEF IInv, PcInv

\* An actor that deletes a node waits for the system call or is done.
LEMMA DeletePlaces ==
  ASSUME IInv, NEW a \in Actors, NEW n \in Nodes, NEW q, Delete(a, n, q), c' = c,
         pc[a] \in {"forced", "idle"}, a \in Requests => pc[a] = "forced"
  PROVE  PcInv'
  <1>1. n # NULL /\ victim[a] = NULL
    BY FieldTypes DEF Nodes, IInv, PcInv
  <1>2. ASSUME a \in Requests PROVE c[a] # NULL /\ c[a].node = NULL
    BY <1>2, FileCacheAssumption DEF IInv, PcInv, Seeking
  <1>3. CASE fcn[n].exists
    <2>1. /\ Go(a, "unlink") /\ victim'[a] = n
          /\ \A b \in Actors \ {a} : victim'[b] = victim[b]
      BY <1>3 DEF Delete, IInv, TypeOK
    <2>2. DeleterAt("unlink", victim'[a])
      BY <1>1, <2>1 DEF DeleterAt
    <2>3. a \in Requests => RequestAt("unlink", c'[a])
      BY <1>2 DEF RequestAt, Seeking, Holding
    <2> QED
      BY <2>1, <2>2, <2>3, PlacesKept
  <1>4. CASE ~ fcn[n].exists
    <2>1. Go(a, After(a)) /\ victim' = victim
      BY <1>4 DEF Delete
    <2>2. DeleterAt(After(a), victim'[a])
      BY <1>1, <2>1 DEF DeleterAt, After
    <2>3. a \in Requests => RequestAt(After(a), c'[a])
      BY <1>2 DEF RequestAt, Seeking, Holding, After
    <2>4. a = Manager => After(a) \in {"idle", "forced", "unlink"}
      BY FileCacheAssumption DEF After
    <2> QED
      BY <2>1, <2>2, <2>3, <2>4, PlacesKept
  <1> QED
    BY <1>3, <1>4

\* Every step keeps what is known of the places.
LEMMA PcNext == IInv /\ [Next]_vars => PcInv'
  <1> SUFFICES ASSUME IInv, [Next]_vars PROVE PcInv'
    OBVIOUS
  <1> USE DEF At
  <1>0. /\ Manager \in Actors /\ Requests \subseteq Actors /\ Manager \notin Requests
        /\ c \in [Requests -> Contexts \union {NULL}]
    BY FileCacheAssumption DEF IInv, TypeOK, Actors
  <1>1. ASSUME NEW r \in Requests, NEW n \in Node, NEW fresh \in BOOLEAN,
               ExistsFound(r, n, fresh)
        PROVE  PcInv'
    <2>1. PICK x, v, y : FoundBy(r, n, x, v, y)
      BY <1>1, FoundEffect
    <2>2. PICK to \in {"open", "lock", "upstream", "free"} : Go(r, to)
      BY <2>1 DEF FoundBy
    <2>3. /\ pc[r] \in {"idle", "exists"} /\ y # NULL /\ y.node # NULL
          /\ c' = [c EXCEPT ![r] = y] /\ victim' = victim
      BY <2>1, FieldTypes DEF FoundBy, Nodes
    <2>4. RequestAt(to, y)
      BY <2>3 DEF RequestAt, Seeking
    <2> QED
      BY <2>2, <2>3, <2>4, RequestPlaces
  <1>2. ASSUME NEW r \in Requests, NEW x \in Contexts, NEW n \in Room, x.node = NULL,
               Insert(r, x, n), pc[r] \notin {"unlink", "dead"}
        PROVE  PcInv'
    <2>1. PICK v, y : InsertedBy(r, x, n, v, y)
      BY <1>2, InsertEffect
    <2>2. PICK to \in {"open", "lock", "upstream"} : Go(r, to)
      BY <2>1 DEF InsertedBy
    <2>3. /\ y # NULL /\ y.node # NULL
          /\ c' = [c EXCEPT ![r] = y] /\ victim' = victim
      BY <2>1, FieldTypes DEF InsertedBy, Room
    <2>4. RequestAt(to, y)
      BY <2>3 DEF RequestAt, Seeking
    <2> QED
      BY <1>2, <2>2, <2>3, <2>4, RequestPlaces
  <1>3. ASSUME NEW r \in Requests, ExistsNew(r) PROVE PcInv'
    <2>1. PICK x \in Opening(r) :
            /\ x.node = NULL
            /\ \/ \E n \in Room : Insert(r, x, n)
               \/ /\ c' = [c EXCEPT ![r] = x]
                  /\ Go(r, "forced")
                  /\ UNCHANGED <<shared, victim>>
      BY <1>3 DEF ExistsNew
    <2>2. x \in Contexts /\ x # NULL /\ pc[r] \in {"idle", "exists"}
      BY OpeningType, FieldTypes
    <2>3. CASE \E n \in Room : Insert(r, x, n)
      BY <1>2, <2>1, <2>2, <2>3
    <2>4. CASE ~ \E n \in Room : Insert(r, x, n)
      <3>1. RequestAt("forced", x)
        BY <2>1, <2>2 DEF RequestAt, Holding
      <3> QED
        BY <2>1, <2>2, <2>4, <3>1, RequestPlaces
    <2> QED
      BY <2>3, <2>4
  <1>4. ASSUME NEW r \in Requests, Realloc(r) PROVE PcInv'
    <2>1. c[r] \in Contexts /\ c[r].node = NULL /\ pc[r] = "realloc"
      BY <1>0, <1>4 DEF Realloc, IInv, PcInv, Seeking
    <2>2. CASE \E n \in Room : Insert(r, c[r], n)
      BY <1>2, <2>1, <2>2
    <2>3. CASE ~ \E n \in Room : Insert(r, c[r], n)
      <3>1. c' = [c EXCEPT ![r] = NULL] /\ Go(r, "idle") /\ victim' = victim
        BY <1>4, <2>3 DEF Realloc
      <3>2. RequestAt("idle", NULL)
        BY DEF RequestAt, Holding, Seeking
      <3> QED
        BY <2>1, <3>1, <3>2, RequestPlaces
    <2> QED
      BY <2>2, <2>3
  <1>5. ASSUME NEW r \in Requests, NEW to \in Holding, Go(r, to), pc[r] \in Holding,
               \A q \in Requests :
                 (c'[q] = NULL <=> c[q] = NULL)
                 /\ (c[q] # NULL => c'[q].node = c[q].node),
               victim' = victim
        PROVE  PcInv'
    <2>1. c[r] # NULL /\ c[r].node # NULL /\ victim[r] = NULL
      BY <1>0, <1>5 DEF IInv, PcInv, Holding
    <2>2. RequestAt(to, c'[r]) /\ DeleterAt(to, victim'[r])
      BY <1>5, <2>1 DEF RequestAt, DeleterAt, Holding, Seeking
    <2> QED
      BY <1>0, <1>5, <2>2, PlacesKept
  <1>6. ASSUME NEW r \in Requests, OpenFile(r) \/ Validate(r) \/ Lock(r) \/ LockWait(r)
        PROVE  PcInv'
    <2>1. pc[r] \in Holding /\ victim' = victim
      BY <1>6 DEF OpenFile, Validate, Lock, LockWait, Holding
    <2>2. \E to \in Holding : Go(r, to)
      BY <1>6 DEF OpenFile, Validate, Lock, LockWait, Holding
    <2>3. c[r] \in Contexts /\ c[r] # NULL
      BY <2>1, HoldsNode
    <2>4. ASSUME NEW q \in Requests
          PROVE  /\ c'[q] = NULL <=> c[q] = NULL
                 /\ c[q] # NULL => c'[q].node = c[q].node
      <3>1. CASE Lock(r)
        BY <3>1, LockContexts
      <3>2. CASE OpenFile(r) \/ Validate(r) \/ LockWait(r)
        <4> DEFINE y == [c[r] EXCEPT !.cacheable = TRUE]
                   z == [c[r] EXCEPT !.updating = TRUE, !.current = TRUE]
                   w == [c[r] EXCEPT !.lock = "timedout"]
        <4>1. \/ c' = c \/ c' = [c EXCEPT ![r] = y] \/ c' = [c EXCEPT ![r] = z]
              \/ c' = [c EXCEPT ![r] = w]
          BY <1>0, <3>2 DEF OpenFile, Validate, LockWait
        <4>2. y \in Contexts /\ y.node = c[r].node
          BY <2>3 DEF Contexts
        <4>3. z \in Contexts /\ z.node = c[r].node
          BY <2>3 DEF Contexts
        <4>4. w \in Contexts /\ w.node = c[r].node
          BY <2>3 DEF Contexts
        <4> HIDE DEF y, z, w
        <4> QED
          BY <1>0, <2>3, <4>1, <4>2, <4>3, <4>4, FieldTypes
      <3> QED
        BY <1>6, <3>1, <3>2
    <2> QED
      BY <1>5, <2>1, <2>2, <2>4
  <1>7. ASSUME NEW r \in Requests,
               \/ \E ok \in BOOLEAN : Update(r, ok)
               \/ \E error \in BOOLEAN : Free(r, error)
        PROVE  PcInv'
    <2>1. /\ pc[r] \notin {"unlink", "dead"} /\ c' = [c EXCEPT ![r] = NULL]
          /\ Go(r, "idle") /\ victim' = victim
      BY <1>7 DEF Update, Free
    <2>2. RequestAt("idle", NULL)
      BY DEF RequestAt, Holding, Seeking
    <2> QED
      BY <2>1, <2>2, RequestPlaces
  <1>8. ASSUME NEW r \in Requests, Crash(r) PROVE PcInv'
    <2>1. Go(r, "dead") /\ victim' = victim
      BY <1>8 DEF Crash
    <2>2. \A q \in Requests \ {r} : c'[q] = c[q]
      BY <1>0, <1>8 DEF Crash
    <2>3. RequestAt("dead", c'[r]) /\ DeleterAt("dead", victim'[r])
      BY DEF RequestAt, DeleterAt, Holding, Seeking
    <2> QED
      BY <1>0, <2>1, <2>2, <2>3, PlacesKept
  <1>9. ASSUME NEW a \in Actors, ForcedExpire(a) PROVE PcInv'
    <2>1. c' = c /\ pc[a] = "forced"
      BY <1>9 DEF ForcedExpire
    <2>2. CASE Go(a, After(a)) /\ UNCHANGED <<fcn, queue, victim>>
      <3>1. a \in Requests => RequestAt(After(a), c'[a])
        BY <2>1 DEF RequestAt, After, Holding, Seeking, IInv, PcInv
      <3>2. victim[a] = NULL
        BY <2>1 DEF IInv, PcInv
      <3>3. DeleterAt(After(a), victim'[a])
        BY <2>2, <3>2 DEF DeleterAt, After
      <3>4. a = Manager => After(a) \in {"idle", "forced", "unlink"}
        BY <1>0 DEF After
      <3> QED
        BY <2>1, <2>2, <3>1, <3>3, <3>4, PlacesKept
    <2>3. ASSUME NEW i \in DOMAIN queue,
                 Delete(a, queue[i],
                        SubSeq(queue, i + 1, Len(queue)) \o SubSeq(queue, 1, i))
          PROVE  PcInv'
      <3>1. queue[i] \in Nodes
        BY <2>3, ForcedDeletes
      <3>2. PICK q : Delete(a, queue[i], q)
        BY <2>3, ForcedDeletes
      <3>3. PICK n \in Nodes : Delete(a, n, q)
        BY <3>1, <3>2
      <3>4. pc[a] \in {"forced", "idle"} /\ (a \in Requests => pc[a] = "forced") /\ c' = c
        BY <2>1
      <3> QED
        BY <3>3, <3>4, DeletePlaces
    <2> QED
      BY <1>9, <2>2, <2>3 DEF ForcedExpire
  <1>10. ASSUME NEW a \in Actors, Finish(a) PROVE PcInv'
    <2>1. /\ pc[a] = "unlink" /\ c' = c /\ Go(a, After(a))
          /\ victim'[a] = NULL /\ \A b \in Actors \ {a} : victim'[b] = victim[b]
      BY <1>10 DEF Finish, IInv, TypeOK
    <2>2. a \in Requests => RequestAt(After(a), c'[a])
      BY <2>1 DEF RequestAt, After, Holding, Seeking, IInv, PcInv
    <2>3. DeleterAt(After(a), victim'[a])
      BY <2>1 DEF DeleterAt, After
    <2>4. a = Manager => After(a) \in {"idle", "forced", "unlink"}
      BY <1>0 DEF After
    <2> QED
      BY <2>1, <2>2, <2>3, <2>4, PlacesKept
  <1>11. ASSUME Expire PROVE PcInv'
    <2>1. Last(queue) \in Nodes /\ pc[Manager] = "idle" /\ c' = c
      BY <1>11, LastNode DEF Expire
    <2>2. CASE Delete(Manager, Last(queue), queue)
      BY <1>0, <2>1, <2>2, DeletePlaces
    <2>3. CASE UNCHANGED <<fcn, pc, victim>>
      BY <2>1, <2>3, SamePlaces
    <2> QED
      BY <1>11, <2>2, <2>3 DEF Expire
  <1>12. ASSUME ManagerCheck PROVE PcInv'
    <2>1. pc[Manager] = "idle" /\ Go(Manager, "forced") /\ c' = c /\ victim' = victim
      BY <1>12 DEF ManagerCheck
    <2>2. DeleterAt("forced", victim'[Manager])
      BY <1>0, <2>1 DEF DeleterAt, IInv, PcInv
    <2> QED
      BY <1>0, <2>1, <2>2, PlacesKept
  <1>13. ASSUME (\E k \in Keys : LoaderAdd(k)) \/ LoaderDone \/ UNCHANGED vars
         PROVE  PcInv'
    BY <1>13, SamePlaces DEF LoaderAdd, LoaderDone, vars
  <1> QED
    BY <1>1, <1>3, <1>4, <1>6, <1>7, <1>8, <1>9, <1>10, <1>11, <1>12, <1>13
    DEF Next, RequestStep


-----------------------------------------------------------------------------
(***************************************************************************)
(* The owner of the mark of a node that is being updated.                  *)
(***************************************************************************)
Owner(r, n) == c[r] # NULL /\ c[r].node = n /\ c[r].updating /\ c[r].current

\* UpdateOwned in terms of Owner.
LEMMA Owned ==
  UpdateOwned <=> \A n \in Nodes : fcn[n].updating => \E r \in Requests : Owner(r, n)
  BY FieldTypes DEF UpdateOwned, Owner, Holders, Held, Nodes

\* Requests keep what they own, and a node marked now has been marked before or is
\* owned now.
LEMMA OwnersKept ==
  ASSUME UpdateOwned,
         \A n \in Nodes' : fcn'[n].updating =>
           \/ \E r \in Requests : Owner(r, n)'
           \/ /\ n \in Nodes /\ fcn[n].updating
              /\ \A r \in Requests : Owner(r, n) => Owner(r, n)'
  PROVE  UpdateOwned'
  <1>1. \A n \in Nodes' : fcn'[n].updating => \E r \in Requests : Owner(r, n)'
    BY Owned
  <1>2. UpdateOwned' <=>
          \A n \in Nodes' : fcn'[n].updating => \E r \in Requests : Owner(r, n)'
    BY FieldTypes DEF UpdateOwned, Owner, Holders, Held, Nodes
  <1> QED
    BY <1>1, <1>2

\* No context changes and no node is marked.
LEMMA SameOwners ==
  ASSUME UpdateOwned, c' = c,
         \A n \in Nodes' : fcn'[n].updating => n \in Nodes /\ fcn[n].updating
  PROVE  UpdateOwned'
  BY OwnersKept DEF Owner

\* Deleting a node marks none.
LEMMA DeleteOwners ==
  ASSUME IInv, NEW a \in Actors, NEW n \in Nodes, NEW q, Delete(a, n, q), c' = c
  PROVE  UpdateOwned'
  <1>1. fcn[n] \in NodeFields /\ n \in Node
    BY DEF IInv, TypeOK, Nodes
  <1>2. CASE fcn[n].exists
    <2> DEFINE v == [fcn[n] EXCEPT !.count = fcn[n].count + 1, !.deleting = TRUE]
    <2>1. v \in NodeFields /\ v.updating = fcn[n].updating
      <3>1. fcn[n].count + 1 \in Nat
        BY <1>1 DEF NodeFields
      <3> QED
        BY <1>1, <3>1, NodeChanges
    <2>2. fcn' = [fcn EXCEPT ![n] = v]
      BY <1>1, <1>2 DEF Delete, IInv, TypeOK
    <2> HIDE DEF v
    <2>3. /\ Nodes' = Nodes /\ fcn'[n] = v
          /\ \A m \in Nodes : m # n => fcn'[m] = fcn[m]
      BY <2>1, <2>2, NodesKept
    <2> QED
      BY <2>1, <2>3, SameOwners DEF IInv
  <1>3. CASE ~ fcn[n].exists
    <2>1. fcn' = [fcn EXCEPT ![n] = NULL]
      BY <1>3 DEF Delete
    <2>2. Nodes' = Nodes \ {n} /\ \A m \in Nodes : m # n => fcn'[m] = fcn[m]
      BY <2>1, NodesShrunk
    <2> QED
      BY <2>2, SameOwners DEF IInv
  <1> QED
    BY <1>2, <1>3

\* A request that has got a new node has owned none.
LEMMA InsertOwners ==
  ASSUME IInv, NEW r \in Requests, NEW x \in Contexts, NEW n \in Room, x.node = NULL,
         Held(r) = NULL, Insert(r, x, n)
  PROVE  UpdateOwned'
  <1>1. PICK v, y : InsertedBy(r, x, n, v, y)
    BY InsertEffect
  <1>2. /\ Nodes' = Nodes \union {n} /\ fcn'[n] = v /\ v.updating = FALSE
        /\ \A m \in Nodes : m # n => fcn'[m] = fcn[m]
    BY <1>1, NodesGrown DEF InsertedBy
  <1>3. \A q \in Requests \ {r} : c'[q] = c[q]
    BY <1>1 DEF InsertedBy, IInv, TypeOK
  <1>4. \A m \in Nodes : ~ Owner(r, m)
    BY FieldTypes DEF Owner, Held, Nodes
  <1>5. \A m \in Nodes, q \in Requests : Owner(q, m) => Owner(q, m)'
    BY <1>3, <1>4 DEF Owner
  <1> QED
    BY <1>2, <1>5, OwnersKept DEF IInv

\* A request that lets go of its node leaves no mark of its own behind it.
LEMMA LetGoOwners ==
  ASSUME IInv, NEW r \in Requests, NEW n \in Nodes, c[r] # NULL, c[r].node = n,
         c' = [c EXCEPT ![r] = NULL], Nodes' \subseteq Nodes,
         \A m \in Nodes' : m # n => fcn'[m] = fcn[m],
         n \in Nodes' /\ fcn'[n].updating =>
           fcn[n].updating /\ ~ (c[r].updating /\ c[r].current)
  PROVE  UpdateOwned'
  <1>1. \A q \in Requests \ {r} : c'[q] = c[q]
    BY DEF IInv, TypeOK
  <1>2. ASSUME NEW m \in Nodes', fcn'[m].updating
        PROVE  /\ m \in Nodes /\ fcn[m].updating
               /\ \A q \in Requests : Owner(q, m) => Owner(q, m)'
    <2>1. m \in Nodes /\ fcn[m].updating /\ ~ Owner(r, m)
      BY <1>2 DEF Owner
    <2> QED
      BY <1>1, <2>1 DEF Owner
  <1> QED
    BY <1>2, OwnersKept DEF IInv

\* Every step leaves an owner for the mark of every node.
LEMMA OwnedNext == IInv /\ [Next]_vars => UpdateOwned'
  <1> SUFFICES ASSUME IInv, [Next]_vars PROVE UpdateOwned'
    OBVIOUS
  <1> USE DEF At
  <1>0. /\ Manager \in Actors /\ Requests \subseteq Actors
        /\ c \in [Requests -> Contexts \union {NULL}]
        /\ fcn \in [Node -> NodeFields \union {NULL}]
        /\ UpdateOwned
    BY DEF IInv, TypeOK, Actors
  <1>1. ASSUME NEW r \in Requests, NEW n \in Node, NEW fresh \in BOOLEAN,
               ExistsFound(r, n, fresh)
        PROVE  UpdateOwned'
    <2>1. PICK x, v, y : FoundBy(r, n, x, v, y)
      BY <1>1, FoundEffect
    <2>2. /\ Nodes' = Nodes /\ fcn'[n] = v /\ v.updating = fcn[n].updating
          /\ \A m \in Nodes : m # n => fcn'[m] = fcn[m]
      BY <2>1, NodesKept DEF FoundBy
    <2>3. c'[r] = y /\ \A q \in Requests \ {r} : c'[q] = c[q]
      BY <1>0, <2>1 DEF FoundBy
    <2>4. ASSUME NEW m \in Nodes, Owner(r, m) PROVE Owner(r, m)'
      <3>1. /\ pc[r] # "idle" /\ x = c[r] /\ x.node = n
            /\ y.node = n /\ y.updating = x.updating /\ y.current = x.current
            /\ y # NULL
        BY <2>1, <2>4, FieldTypes DEF FoundBy, Owner, IInv, PcInv
      <3> QED
        BY <2>3, <2>4, <3>1 DEF Owner
    <2>5. \A m \in Nodes, q \in Requests : Owner(q, m) => Owner(q, m)'
      BY <2>3, <2>4 DEF Owner
    <2> QED
      BY <1>0, <2>1, <2>2, <2>5, OwnersKept DEF FoundBy
  <1>2. ASSUME NEW r \in Requests, ExistsNew(r) PROVE UpdateOwned'
    <2>1. PICK x \in Opening(r) :
            /\ x.node = NULL
            /\ \/ \E n \in Room : Insert(r, x, n)
               \/ /\ c' = [c EXCEPT ![r] = x]
                  /\ Go(r, "forced")
                  /\ UNCHANGED <<shared, victim>>
      BY <1>2 DEF ExistsNew
    <2>2. x \in Contexts /\ Held(r) = NULL
      BY <2>1, OpeningType, FieldTypes DEF IInv, PcInv, Held, Nodes
    <2>3. CASE \E n \in Room : Insert(r, x, n)
      BY <2>1, <2>2, <2>3, InsertOwners
    <2>4. CASE ~ \E n \in Room : Insert(r, x, n)
      <3>1. \A q \in Requests \ {r} : c'[q] = c[q]
        BY <1>0, <2>1, <2>4
      <3>2. \A m \in Nodes : ~ Owner(r, m)
        BY <2>2, FieldTypes DEF Owner, Held, Nodes
      <3>3. \A m \in Nodes, q \in Requests : Owner(q, m) => Owner(q, m)'
        BY <3>1, <3>2 DEF Owner
      <3>4. fcn' = fcn /\ Nodes' = Nodes
        BY <2>1, <2>4 DEF shared, Nodes
      <3> QED
        BY <1>0, <3>3, <3>4, OwnersKept
    <2> QED
      BY <2>3, <2>4
  <1>3. ASSUME NEW r \in Requests, Realloc(r) PROVE UpdateOwned'
    <2>1. c[r] \in Contexts /\ c[r].node = NULL /\ Held(r) = NULL
      BY <1>0, <1>3 DEF Realloc, IInv, PcInv, Seeking, Held
    <2>2. CASE \E n \in Room : Insert(r, c[r], n)
      BY <2>1, <2>2, InsertOwners
    <2>3. CASE ~ \E n \in Room : Insert(r, c[r], n)
      <3>1. c' = [c EXCEPT ![r] = NULL] /\ fcn' = fcn /\ Nodes' = Nodes
        BY <1>3, <2>3 DEF Realloc, shared, Nodes
      <3>2. \A m \in Nodes, q \in Requests : Owner(q, m) => Owner(q, m)'
        BY <1>0, <2>1, <3>1, FieldTypes DEF Owner, Nodes
      <3> QED
        BY <1>0, <3>1, <3>2, OwnersKept
    <2> QED
      BY <2>2, <2>3
  <1>4. ASSUME NEW r \in Requests, OpenFile(r) PROVE UpdateOwned'
    <2>1. /\ c[r] \in Contexts /\ c[r] # NULL /\ c[r].node \in Nodes
          /\ fcn[c[r].node] \in NodeFields
      BY <1>4, HoldsNode DEF OpenFile, Holding
    <2> DEFINE v == [fcn[c[r].node] EXCEPT !.uses = 1, !.exists = TRUE]
               y == [c[r] EXCEPT !.cacheable = TRUE]
    <2>2. v \in NodeFields /\ v.updating = fcn[c[r].node].updating
      BY <2>1, NodeChanges
    <2>3. fcn' = fcn \/ fcn' = [fcn EXCEPT ![c[r].node] = v]
      BY <1>0, <1>4, <2>1 DEF OpenFile, Nodes
    <2>4. c' = c \/ c' = [c EXCEPT ![r] = y]
      BY <1>0, <1>4 DEF OpenFile
    <2>5. /\ y \in Contexts /\ y.node = c[r].node
          /\ y.updating = c[r].updating /\ y.current = c[r].current
      BY <2>1 DEF Contexts
    <2> HIDE DEF v, y
    <2>6. \A m \in Nodes, q \in Requests : Owner(q, m) => Owner(q, m)'
      BY <1>0, <2>1, <2>4, <2>5, FieldTypes DEF Owner
    <2>7. CASE fcn' = fcn
      BY <1>0, <2>6, <2>7, OwnersKept DEF Nodes
    <2>8. CASE fcn' = [fcn EXCEPT ![c[r].node] = v]
      BY <1>0, <2>1, <2>2, <2>6, <2>8, NodesKept, OwnersKept, ZenonT(40)
    <2> QED
      BY <2>3, <2>7, <2>8
  <1>5. ASSUME NEW r \in Requests, Validate(r) PROVE UpdateOwned'
    <2>1. /\ c[r] \in Contexts /\ c[r] # NULL /\ c[r].node \in Nodes
          /\ fcn[c[r].node] \in NodeFields
      BY <1>5, HoldsNode DEF Validate, Holding
    <2> DEFINE v == [fcn[c[r].node] EXCEPT !.updating = TRUE]
               y == [c[r] EXCEPT !.updating = TRUE, !.current = TRUE]
    <2>2. v \in NodeFields
      BY <2>1, NodeChanges
    <2>3. \/ fcn' = fcn /\ c' = c
          \/ fcn' = [fcn EXCEPT ![c[r].node] = v] /\ c' = [c EXCEPT ![r] = y]
      BY <1>0, <1>5, <2>1 DEF Validate, Nodes
    <2>4. y \in Contexts /\ y.node = c[r].node /\ y.updating /\ y.current
      BY <2>1 DEF Contexts
    <2> HIDE DEF v, y
    <2>5. CASE fcn' = fcn /\ c' = c
      BY <1>0, <2>5, SameOwners DEF Nodes
    <2>6. CASE fcn' = [fcn EXCEPT ![c[r].node] = v] /\ c' = [c EXCEPT ![r] = y]
      <3>1. Owner(r, c[r].node)'
        BY <1>0, <2>4, <2>6, FieldTypes DEF Owner
      <3>2. \A m \in Nodes, q \in Requests : Owner(q, m) => Owner(q, m)'
        BY <1>0, <2>4, <2>6, <3>1 DEF Owner
      <3>3. /\ Nodes' = Nodes
            /\ \A m \in Nodes : m # c[r].node => fcn'[m] = fcn[m]
        BY <2>1, <2>2, <2>6, NodesKept
      <3>4. ASSUME NEW m \in Nodes', fcn'[m].updating
            PROVE  \/ \E q \in Requests : Owner(q, m)'
                   \/ /\ m \in Nodes /\ fcn[m].updating
                      /\ \A q \in Requests : Owner(q, m) => Owner(q, m)'
        <4>1. CASE m = c[r].node
          <5>1. Owner(r, m)'
            BY <1>0, <2>4, <2>6, <4>1, FieldTypes DEF Owner
          <5> QED
            BY <5>1
        <4>2. CASE m # c[r].node
          BY <3>2, <3>3, <3>4, <4>2
        <4> QED
          BY <4>1, <4>2
      <3> QED
        BY <1>0, <3>4, OwnersKept
    <2> QED
      BY <2>3, <2>5, <2>6
  <1>6. ASSUME NEW r \in Requests, Lock(r) PROVE UpdateOwned'
    <2>1. c[r] \in Contexts /\ c[r] # NULL /\ c[r].node \in Nodes
      BY <1>6, HoldsNode DEF Lock, Holding
    <2>2. PICK n \in Nodes : n = c[r].node
      BY <2>1
    <2>3. fcn[n] \in NodeFields
      BY <2>2 DEF IInv, TypeOK, Nodes
    <2> DEFINE v == [fcn[n] EXCEPT !.updating = TRUE]
               y == [c[r] EXCEPT !.cacheable = FALSE]
               o == Overtaken(n)
               z == [o[r] EXCEPT !.updating = TRUE, !.current = TRUE]
    <2>4. v \in NodeFields
      BY <2>3, NodeChanges
    <2>5. /\ y \in Contexts /\ y.node = n
          /\ y.updating = c[r].updating /\ y.current = c[r].current
      BY <2>1, <2>2 DEF Contexts
    <2>6. o[r] \in Contexts /\ o[r].node = n
      BY <1>0, <2>1, <2>2, FieldTypes DEF Overtaken, Contexts
    <2>7. /\ o \in [Requests -> Contexts \union {NULL}]
          /\ \A q \in Requests : c[q] # NULL /\ c[q].node # n => o[q] = c[q]
      BY <1>0 DEF Overtaken, Contexts
    <2> HIDE DEF o
    <2>8. z \in Contexts /\ z.node = n /\ z.updating /\ z.current
      BY <2>6 DEF Contexts
    <2>9. \/ fcn' = fcn /\ (c' = c \/ c' = [c EXCEPT ![r] = y])
          \/ fcn' = [fcn EXCEPT ![n] = v] /\ c' = [o EXCEPT ![r] = z]
      BY <1>0, <1>6, <2>1, <2>2 DEF Lock, Nodes, o
    <2> HIDE DEF v, y, z
    <2>10. CASE fcn' = fcn /\ (c' = c \/ c' = [c EXCEPT ![r] = y])
      <3>1. \A m \in Nodes, q \in Requests : Owner(q, m) => Owner(q, m)'
        BY <1>0, <2>1, <2>5, <2>10, <2>2, FieldTypes DEF Owner
      <3> QED
        BY <1>0, <2>10, <3>1, OwnersKept DEF Nodes
    <2>11. CASE fcn' = [fcn EXCEPT ![n] = v] /\ c' = [o EXCEPT ![r] = z]
      <3>1. Nodes' = Nodes /\ \A m \in Nodes : m # n => fcn'[m] = fcn[m]
        BY <2>1, <2>4, <2>11, NodesKept
      <3>2. Owner(r, n)'
        <4>1. c'[r] = z
          BY <2>7, <2>11
        <4> QED
          BY <2>8, <4>1, FieldTypes DEF Owner
      <3>3. ASSUME NEW m \in Nodes, m # n, NEW q \in Requests, Owner(q, m)
            PROVE  Owner(q, m)'
        <4>1. q # r /\ c[q] # NULL /\ c[q].node # n
          BY <2>2, <3>3 DEF Owner
        <4>2. c'[q] = c[q]
          BY <2>7, <2>11, <4>1
        <4> QED
          BY <3>3, <4>2 DEF Owner
      <3>4. ASSUME NEW m \in Nodes', fcn'[m].updating
            PROVE  \/ \E q \in Requests : Owner(q, m)'
                   \/ /\ m \in Nodes /\ fcn[m].updating
                      /\ \A q \in Requests : Owner(q, m) => Owner(q, m)'
        <4>1. CASE m = n
          <5>1. Owner(r, m)'
            BY <3>2, <4>1
          <5> QED
            BY <5>1
        <4>2. CASE m # n
          BY <3>1, <3>3, <3>4, <4>2
        <4> QED
          BY <4>1, <4>2
      <3> QED
        BY <1>0, <3>4, OwnersKept
    <2> QED
      BY <2>9, <2>10, <2>11
  <1>7. ASSUME NEW r \in Requests, LockWait(r) PROVE UpdateOwned'
    <2>1. c[r] \in Contexts /\ c[r] # NULL
      BY <1>7, HoldsNode DEF LockWait, Holding
    <2> DEFINE y == [c[r] EXCEPT !.lock = "timedout"]
    <2>2. /\ y \in Contexts /\ y.node = c[r].node
          /\ y.updating = c[r].updating /\ y.current = c[r].current
      BY <2>1 DEF Contexts
    <2>3. (c' = c \/ c' = [c EXCEPT ![r] = y]) /\ fcn' = fcn
      BY <1>0, <1>7 DEF LockWait, shared
    <2> HIDE DEF y
    <2>4. \A m \in Nodes, q \in Requests : Owner(q, m) => Owner(q, m)'
      BY <1>0, <2>1, <2>2, <2>3, FieldTypes DEF Owner
    <2> QED
      BY <1>0, <2>3, <2>4, OwnersKept DEF Nodes
  <1>8. ASSUME NEW r \in Requests, NEW ok \in BOOLEAN, Update(r, ok) PROVE UpdateOwned'
    <2> DEFINE n == c[r].node
               v == [fcn[n] EXCEPT !.count = @ - 1, !.error = FALSE,
                                   !.updating = FALSE, !.exists = @ \/ ok]
    <2>1. n \in Nodes /\ fcn[n] \in NodeFields /\ c[r] # NULL
      BY <1>8, HoldsNode DEF Update, Holding
    <2>2. v \in NodeFields /\ v.updating = FALSE
      <3>1. fcn[n].count >= 1 /\ fcn[n].count \in Nat
        BY <2>1, HeldCounted DEF NodeFields
      <3>2. fcn[n].count - 1 \in Nat /\ (fcn[n].exists \/ ok) \in BOOLEAN
        BY <2>1, <3>1 DEF NodeFields
      <3>3. v \in NodeFields
        BY <2>1, <3>2, NodeChanges
      <3> QED
        BY <2>1, <3>3 DEF NodeFields
    <2>3. fcn' = [fcn EXCEPT ![n] = v] /\ c' = [c EXCEPT ![r] = NULL]
      BY <1>8 DEF Update
    <2> HIDE DEF v
    <2>4. /\ Nodes' = Nodes /\ fcn'[n] = v
          /\ \A m \in Nodes : m # n => fcn'[m] = fcn[m]
      BY <2>1, <2>2, <2>3, NodesKept
    <2> QED
      BY <2>1, <2>2, <2>3, <2>4, LetGoOwners
  <1>9. ASSUME NEW r \in Requests, NEW error \in BOOLEAN, Free(r, error)
        PROVE  UpdateOwned'
    <2> DEFINE n == c[r].node
               v == [fcn[n] EXCEPT !.count = @ - 1,
                                   !.updating = @ /\ ~ (c[r].updating /\ c[r].current),
                                   !.error = @ \/ error]
    <2>1. n \in Nodes /\ fcn[n] \in NodeFields /\ c[r] \in Contexts /\ c[r] # NULL
      <3>1. pc[r] \in Holding
        BY <1>9 DEF Free, Holding
      <3> QED
        BY <3>1, HoldsNode
    <2>2. /\ v \in NodeFields
          /\ v.updating => fcn[n].updating /\ ~ (c[r].updating /\ c[r].current)
      <3>1. fcn[n].count >= 1 /\ fcn[n].count \in Nat
        BY <2>1, HeldCounted DEF NodeFields
      <3>2. fcn[n].count - 1 \in Nat /\ (fcn[n].error \/ error) \in BOOLEAN
        BY <2>1, <3>1 DEF NodeFields
      <3>3. (fcn[n].updating /\ ~ (c[r].updating /\ c[r].current)) \in BOOLEAN
        BY <2>1 DEF NodeFields
      <3>4. v \in NodeFields
        BY <2>1, <3>2, <3>3, NodeChanges
      <3> QED
        BY <2>1, <3>4 DEF NodeFields
    <2>3. fcn' = [fcn EXCEPT ![n] = v] \/ fcn' = [fcn EXCEPT ![n] = NULL]
      BY <1>9 DEF Free
    <2>4. c' = [c EXCEPT ![r] = NULL]
      BY <1>9 DEF Free
    <2> HIDE DEF v
    <2>5. CASE fcn' = [fcn EXCEPT ![n] = v]
      <3>1. /\ Nodes' = Nodes /\ fcn'[n] = v
            /\ \A m \in Nodes : m # n => fcn'[m] = fcn[m]
        BY <2>1, <2>2, <2>5, NodesKept
      <3> QED
        BY <2>1, <2>2, <2>4, <3>1, LetGoOwners
    <2>6. CASE fcn' = [fcn EXCEPT ![n] = NULL]
      <3>1. Nodes' = Nodes \ {n} /\ \A m \in Nodes : m # n => fcn'[m] = fcn[m]
        BY <2>1, <2>6, NodesShrunk
      <3> QED
        BY <2>1, <2>4, <3>1, LetGoOwners
    <2> QED
      BY <2>3, <2>5, <2>6
  <1>10. ASSUME NEW r \in Requests, Crash(r) PROVE UpdateOwned'
    <2> DEFINE y == [Context(c[r].key, [min |-> Most, lock |-> "off"]) EXCEPT
                       !.node = c[r].node, !.updating = c[r].updating,
                       !.current = c[r].current]
    <2>1. c[r] \in Contexts /\ c[r] # NULL
      BY <1>0, <1>10, FieldTypes DEF Crash, IInv, TypeOK, PcInv, Holding, Seeking
    <2>2. /\ y.node = c[r].node /\ y # NULL
          /\ y.updating = c[r].updating /\ y.current = c[r].current
      <3>1. y \in Contexts
        BY <2>1, MostType DEF Context, Contexts
      <3>2. /\ y.node = c[r].node
            /\ y.updating = c[r].updating /\ y.current = c[r].current
        BY DEF Context
      <3> QED
        BY <3>1, <3>2, FieldTypes
    <2>3. c' = [c EXCEPT ![r] = IF c[r].node = NULL THEN NULL ELSE y]
      BY <1>0, <1>10 DEF Crash
    <2>4. fcn' = fcn /\ Nodes' = Nodes
      BY <1>10 DEF Crash, shared, Nodes
    <2> HIDE DEF y
    <2>5. \A m \in Nodes, q \in Requests : Owner(q, m) => Owner(q, m)'
      BY <1>0, <2>1, <2>2, <2>3, FieldTypes DEF Owner, Nodes
    <2> QED
      BY <1>0, <2>4, <2>5, OwnersKept
  <1>11. ASSUME NEW a \in Actors, ForcedExpire(a) PROVE UpdateOwned'
    <2>1. c' = c
      BY <1>11 DEF ForcedExpire
    <2>2. CASE UNCHANGED <<fcn, queue, victim>>
      BY <1>0, <2>1, <2>2, SameOwners DEF Nodes
    <2>3. ASSUME NEW i \in DOMAIN queue,
                 Delete(a, queue[i],
                        SubSeq(queue, i + 1, Len(queue)) \o SubSeq(queue, 1, i))
          PROVE  UpdateOwned'
      <3>1. queue[i] \in Nodes
        BY <2>3, ForcedDeletes
      <3>2. PICK q : Delete(a, queue[i], q)
        BY <2>3, ForcedDeletes
      <3> QED
        BY <2>1, <3>1, <3>2, DeleteOwners
    <2> QED
      BY <1>11, <2>2, <2>3 DEF ForcedExpire
  <1>12. ASSUME NEW a \in Actors, Finish(a) PROVE UpdateOwned'
    <2> DEFINE n == victim[a]
               v == [fcn[n] EXCEPT !.count = fcn[n].count - 1, !.deleting = FALSE]
    <2>1. n \in Nodes /\ n \in Node /\ fcn[n] \in NodeFields /\ c' = c
      BY <1>12 DEF Finish, IInv, TypeOK, PcInv, UsersInv, Nodes
    <2>2. v \in NodeFields /\ v.updating = fcn[n].updating
      <3>1. fcn[n].count - 1 \in Nat
        BY <2>1, VictimCounted DEF NodeFields
      <3> QED
        BY <2>1, <3>1, NodeChanges
    <2>3. fcn' = [fcn EXCEPT ![n] = NULL] \/ fcn' = [fcn EXCEPT ![n] = v]
      BY <1>0, <1>12, <2>1 DEF Finish
    <2> HIDE DEF v
    <2>4. CASE fcn' = [fcn EXCEPT ![n] = NULL]
      <3>1. Nodes' = Nodes \ {n} /\ \A m \in Nodes : m # n => fcn'[m] = fcn[m]
        BY <2>1, <2>4, NodesShrunk
      <3> QED
        BY <1>0, <2>1, <3>1, SameOwners
    <2>5. CASE fcn' = [fcn EXCEPT ![n] = v]
      <3>1. /\ Nodes' = Nodes /\ fcn'[n] = v
            /\ \A m \in Nodes : m # n => fcn'[m] = fcn[m]
        BY <2>1, <2>2, <2>5, NodesKept
      <3> QED
        BY <1>0, <2>1, <2>2, <3>1, SameOwners
    <2> QED
      BY <2>3, <2>4, <2>5
  <1>13. ASSUME Expire PROVE UpdateOwned'
    <2>1. Last(queue) \in Nodes /\ c' = c
      BY <1>13, LastNode DEF Expire
    <2>2. CASE Delete(Manager, Last(queue), queue)
      BY <1>0, <2>1, <2>2, DeleteOwners
    <2>3. CASE UNCHANGED <<fcn, pc, victim>>
      BY <1>0, <2>1, <2>3, SameOwners DEF Nodes
    <2> QED
      BY <1>13, <2>2, <2>3 DEF Expire
  <1>14. ASSUME NEW k \in Keys, LoaderAdd(k) PROVE UpdateOwned'
    <2> DEFINE v == [NewNode(k) EXCEPT !.exists = TRUE]
    <2>1. c' = c
      BY <1>14 DEF LoaderAdd
    <2>2. ASSUME NEW n \in Room, fcn' = [fcn EXCEPT ![n] = v] PROVE UpdateOwned'
      <3>1. v \in NodeFields /\ v.updating = FALSE
        BY FieldTypes DEF NodeFields, NewNode
      <3> HIDE DEF v
      <3>2. /\ Nodes' = Nodes \union {n} /\ fcn'[n] = v
            /\ \A m \in Nodes : m # n => fcn'[m] = fcn[m]
        BY <2>2, <3>1, NodesGrown
      <3> QED
        BY <1>0, <2>1, <3>1, <3>2, SameOwners
    <2>3. CASE fcn' = fcn
      BY <1>0, <2>1, <2>3, SameOwners DEF Nodes
    <2> QED
      BY <1>14, <2>2, <2>3 DEF LoaderAdd
  <1>15. ASSUME ManagerCheck \/ LoaderDone \/ UNCHANGED vars PROVE UpdateOwned'
    BY <1>0, <1>15, SameOwners DEF ManagerCheck, LoaderDone, vars, shared, Nodes
  <1> QED
    BY <1>1, <1>2, <1>3, <1>4, <1>5, <1>6, <1>7, <1>8, <1>9, <1>10, <1>11, <1>12,
       <1>13, <1>14, <1>15 DEF Next, RequestStep

-----------------------------------------------------------------------------
(***************************************************************************)
(* The theorems.                                                           *)
(***************************************************************************)

\* A new cache is empty and nobody uses it.
LEMMA InitIInv == Init => IInv
  <1> SUFFICES ASSUME Init PROVE IInv
    OBVIOUS
  <1>1. Nodes = {} /\ \A r \in Requests : Held(r) = NULL
    BY DEF Init, Nodes, Held
  <1>2. Manager \in Actors /\ Requests \subseteq Actors
    BY DEF Actors
  <1>3. TypeOK
    BY DEF Init, TypeOK
  <1>4. PcInv
    BY <1>2 DEF Init, PcInv, Seeking, Holding
  <1>5. UsersInv
    BY <1>1 DEF Init, UsersInv
  <1>6. Once(queue, Nodes)
    BY <1>1 DEF Init, Once, ToSet, IsInjective
  <1>7. UpdateOwned
    BY <1>1 DEF UpdateOwned
  <1> QED
    BY <1>3, <1>4, <1>5, <1>6, <1>7 DEF IInv

\* Every step keeps the invariant.
LEMMA NextIInv == IInv /\ [Next]_vars => IInv'
  <1> SUFFICES ASSUME IInv, [Next]_vars PROVE IInv'
    OBVIOUS
  <1>1. Fields' /\ PcInv' /\ RefsInv' /\ UpdateOwned'
    BY FieldsNext, PcNext, RefsNext, OwnedNext
  <1>2. TypeOK'
    BY <1>1 DEF Fields, RefsInv, Once, TypeOK
  <1> QED
    BY <1>1, <1>2 DEF IInv, RefsInv

\* The inductive invariant: the types, the places, the users, the queue and the
\* owners.
THEOREM InductiveInvariant == Spec => []IInv
  BY InitIInv, NextIInv, PTL DEF Spec

\* The variables keep their types: counts of users never fall below zero.
THEOREM TypeCorrect == Spec => []TypeOK
  <1>1. IInv => TypeOK
    BY DEF IInv
  <1> QED
    BY <1>1, InductiveInvariant, PTL

\* ngx_http_file_cache_free(), _expire() and _forced_expire() free no node that a
\* request or a deletion still uses, and the queue has every node once.
THEOREM AlwaysNodesHeld == Spec => []NodesHeld
  <1>1. IInv => NodesHeld
    BY DEF IInv, UsersInv, Once, NodesHeld
  <1> QED
    BY <1>1, InductiveInvariant, PTL

\* A node marked as being updated has a request that updates it, or one whose
\* worker has died.
THEOREM AlwaysUpdateOwned == Spec => []UpdateOwned
  <1>1. IInv => UpdateOwned
    BY DEF IInv
  <1> QED
    BY <1>1, InductiveInvariant, PTL
=============================================================================
