---------------------------- MODULE CommonLemmas ----------------------------
(***************************************************************************)
(* Lemmas about naturals and sequences that the proofs of more than one    *)
(* component rest on.                                                      *)
(***************************************************************************)
EXTENDS Integers, SequencesExt, SequenceTheorems, WellFoundedInduction, TLAPS

-----------------------------------------------------------------------------
(***************************************************************************)
(* Naturals.  The induction of the library takes an operator, which the    *)
(* provers cannot instantiate; that "less than" is well founded needs none *)
(* and gives the least element of a set, which serves as well.             *)
(***************************************************************************)

\* A set of naturals that is not empty has a least element.
LEMMA Least ==
  ASSUME NEW T \in SUBSET Nat, T # {}
  PROVE  \E x \in T : \A y \in T : x <= y
  <1>1. PICK R : R = OpToRel(<, Nat)
    OBVIOUS
  <1>2. \A x, y \in Nat : <<x, y>> \in R <=> x < y
    BY <1>1 DEF OpToRel
  <1>3. IsWellFoundedOn(R, Nat)
    BY <1>1, NatLessThanWellFounded
  <1>4. PICK x \in T : \A y \in T : ~ (<<y, x>> \in R)
    BY <1>3, WFMin
  <1>5. ASSUME NEW y \in T PROVE x <= y
    <2>1. x \in Nat /\ y \in Nat
      OBVIOUS
    <2>2. ~ (y < x)
      BY <2>1, <1>2, <1>4
    <2> QED
      BY <2>1, <2>2
  <1> QED
    BY <1>5

\* A set that has 0 and with each number below n the next one has all to n.
LEMMA Upto ==
  ASSUME NEW n \in Nat, NEW T, 0 \in T, \A i \in 0 .. n - 1 : i \in T => i + 1 \in T
  PROVE  0 .. n \subseteq T
  <1> SUFFICES ASSUME NEW k \in 0 .. n, k \notin T PROVE FALSE
    OBVIOUS
  <1> DEFINE M == {i \in 0 .. n : i \notin T}
  <1>1. M \in SUBSET Nat /\ M # {}
    OBVIOUS
  <1>2. PICK m \in M : \A i \in M : m <= i
    BY <1>1, Least
  <1>3. m \in 1 .. n /\ m - 1 \in 0 .. n - 1 /\ m - 1 \notin M
    BY <1>2
  <1>4. m - 1 \in T
    BY <1>3
  <1>5. (m - 1) + 1 \in T
    BY <1>3, <1>4
  <1> QED
    BY <1>3, <1>5

-----------------------------------------------------------------------------
(***************************************************************************)
(* Sequences as queues: what they hold after one operation.                *)
(***************************************************************************)

\* The places of a sequence and what it holds.
LEMMA Places ==
  ASSUME NEW T, NEW s \in Seq(T)
  PROVE  /\ Len(s) \in Nat /\ DOMAIN s = 1 .. Len(s)
         /\ \A i \in 1 .. Len(s) : s[i] \in T
         /\ ToSet(s) \subseteq T
         /\ \A x : x \in ToSet(s) <=> \E i \in 1 .. Len(s) : x = s[i]
  <1>1. Len(s) \in Nat /\ DOMAIN s = 1 .. Len(s) /\ \A i \in 1 .. Len(s) : s[i] \in T
    BY LenProperties, ElementOfSeq
  <1> QED
    BY <1>1 DEF ToSet

\* An element is put at the end.
LEMMA AppendHolds ==
  ASSUME NEW T, NEW s \in Seq(T), NEW x \in T
  PROVE  /\ Append(s, x) \in Seq(T) /\ ToSet(Append(s, x)) = ToSet(s) \union {x}
         /\ Len(Append(s, x)) = Len(s) + 1
         /\ \A i \in 1 .. Len(s) : Append(s, x)[i] = s[i]
         /\ Append(s, x)[Len(s) + 1] = x
         /\ IsInjective(s) /\ x \notin ToSet(s) => IsInjective(Append(s, x))
  <1> DEFINE t == Append(s, x)
             n == Len(s)
  <1>1. n \in Nat /\ DOMAIN s = 1 .. n /\ ToSet(s) = {s[i] : i \in 1 .. n}
    BY LenProperties DEF ToSet
  <1>2. /\ t \in Seq(T) /\ Len(t) = n + 1 /\ t[n + 1] = x
        /\ \A i \in 1 .. n : t[i] = s[i]
    BY AppendProperties
  <1>3. DOMAIN t = 1 .. n + 1 /\ ToSet(t) = {t[i] : i \in 1 .. n + 1}
    BY <1>2, LenProperties DEF ToSet
  <1> HIDE DEF t, n
  <1>4. ToSet(t) = ToSet(s) \union {x}
    <2>1. 1 .. n + 1 = (1 .. n) \union {n + 1}
      BY <1>1
    <2> QED
      BY <1>1, <1>2, <1>3, <2>1
  <1>5. IsInjective(s) /\ x \notin ToSet(s) => IsInjective(t)
    <2> SUFFICES ASSUME IsInjective(s), x \notin ToSet(s),
                        NEW a \in 1 .. n + 1, NEW b \in 1 .. n + 1, t[a] = t[b]
                 PROVE  a = b
      BY <1>3 DEF IsInjective
    <2>1. \A i, j \in 1 .. n : s[i] = s[j] => i = j
      BY <1>1 DEF IsInjective
    <2>2. \A i \in 1 .. n : s[i] # x
      BY <1>1
    <2> QED
      BY <1>1, <1>2, <2>1, <2>2
  <1> QED
    BY <1>2, <1>4, <1>5 DEF t, n

\* An element is put at the front.
LEMMA ConsHolds ==
  ASSUME NEW T, NEW s \in Seq(T), NEW x \in T
  PROVE  /\ <<x>> \o s \in Seq(T) /\ ToSet(<<x>> \o s) = ToSet(s) \union {x}
         /\ IsInjective(s) /\ x \notin ToSet(s) => IsInjective(<<x>> \o s)
  <1> DEFINE a == <<x>>
             t == a \o s
             n == Len(s)
  <1>1. n \in Nat /\ DOMAIN s = 1 .. n /\ ToSet(s) = {s[i] : i \in 1 .. n}
    BY LenProperties DEF ToSet
  <1>2. a \in Seq(T) /\ Len(a) = 1 /\ a[1] = x
    OBVIOUS
  <1> HIDE DEF a
  <1>3. /\ t \in Seq(T) /\ Len(t) = Len(a) + Len(s)
        /\ \A i \in 1 .. Len(a) + Len(s) :
             t[i] = IF i <= Len(a) THEN a[i] ELSE s[i - Len(a)]
    BY <1>2, ConcatProperties
  <1>4. DOMAIN t = 1 .. Len(t) /\ ToSet(t) = {t[i] : i \in 1 .. Len(t)}
    BY <1>3, LenProperties DEF ToSet
  <1> HIDE DEF t, n
  <1>5. Len(t) = n + 1 /\ t[1] = x /\ \A i \in 2 .. n + 1 : t[i] = s[i - 1]
    BY <1>1, <1>2, <1>3 DEF n
  <1>6. ToSet(t) = ToSet(s) \union {x}
    <2>1. \A i \in 1 .. n : i + 1 \in 2 .. n + 1 /\ (i + 1) - 1 = i
      BY <1>1
    <2>2. \A i \in 1 .. n : t[i + 1] = s[i]
      BY <1>5, <2>1
    <2>3. \A i \in 2 .. n + 1 : i - 1 \in 1 .. n
      BY <1>1
    <2> QED
      BY <1>1, <1>4, <1>5, <2>2, <2>3
  <1>7. IsInjective(s) /\ x \notin ToSet(s) => IsInjective(t)
    <2> SUFFICES ASSUME IsInjective(s), x \notin ToSet(s),
                        NEW i \in 1 .. n + 1, NEW j \in 1 .. n + 1, t[i] = t[j]
                 PROVE  i = j
      BY <1>4, <1>5 DEF IsInjective
    <2>1. \A k, m \in 1 .. n : s[k] = s[m] => k = m
      BY <1>1 DEF IsInjective
    <2>2. \A k \in 1 .. n : s[k] # x
      BY <1>1
    <2> QED
      BY <1>1, <1>5, <2>1, <2>2
  <1> QED
    BY <1>3, <1>6, <1>7 DEF t, a

\* The first element is taken.
LEMMA TailHolds ==
  ASSUME NEW T, NEW s \in Seq(T), s # <<>>
  PROVE  /\ Tail(s) \in Seq(T) /\ Head(s) \in ToSet(s)
         /\ ToSet(Tail(s)) \subseteq ToSet(s)
         /\ ToSet(s) = ToSet(Tail(s)) \union {Head(s)}
         /\ IsInjective(s) => IsInjective(Tail(s)) /\ Head(s) \notin ToSet(Tail(s))
  <1> DEFINE t == Tail(s)
             n == Len(s)
  <1>1. /\ n \in Nat /\ n # 0 /\ DOMAIN s = 1 .. n /\ ToSet(s) = {s[i] : i \in 1 .. n}
        /\ Head(s) = s[1]
    BY LenProperties, EmptySeq DEF ToSet
  <1>2. t \in Seq(T) /\ Len(t) = n - 1 /\ \A i \in 1 .. n - 1 : t[i] = s[i + 1]
    BY HeadTailProperties
  <1>3. DOMAIN t = 1 .. n - 1 /\ ToSet(t) = {t[i] : i \in 1 .. n - 1}
    BY <1>2, LenProperties DEF ToSet
  <1> HIDE DEF t, n
  <1>4. 1 \in 1 .. n /\ \A i \in 1 .. n - 1 : i + 1 \in 1 .. n /\ i + 1 # 1
    BY <1>1
  <1>5. \A i \in 1 .. n : i = 1 \/ (i - 1 \in 1 .. n - 1 /\ i = (i - 1) + 1)
    BY <1>1
  <1>6. Head(s) \in ToSet(s) /\ ToSet(t) \subseteq ToSet(s)
    BY <1>1, <1>2, <1>3, <1>4
  <1>7. ToSet(s) \subseteq ToSet(t) \union {Head(s)}
    BY <1>1, <1>2, <1>3, <1>5, SMTT(30)
  <1>8. ASSUME IsInjective(s)
        PROVE  IsInjective(t) /\ Head(s) \notin ToSet(t)
    <2>1. \A i, j \in 1 .. n : s[i] = s[j] => i = j
      BY <1>1, <1>8 DEF IsInjective
    <2>2. \A i, j \in 1 .. n - 1 : i + 1 = j + 1 => i = j
      BY <1>1
    <2>3. \A i, j \in 1 .. n - 1 : t[i] = t[j] => i = j
      BY <1>2, <1>4, <2>1, <2>2
    <2>4. \A i \in 1 .. n - 1 : t[i] # s[1]
      BY <1>2, <1>4, <2>1
    <2> QED
      BY <1>1, <1>3, <2>3, <2>4 DEF IsInjective
  <1> QED
    BY <1>2, <1>6, <1>7, <1>8 DEF t

\* A part of a sequence, the empty part behind its end included.
LEMMA SubSeqElements ==
  ASSUME NEW T, NEW s \in Seq(T), NEW m \in 1 .. Len(s) + 1, NEW n \in m - 1 .. Len(s)
  PROVE  /\ SubSeq(s, m, n) \in Seq(T)
         /\ Len(SubSeq(s, m, n)) = n - m + 1
         /\ \A j \in 1 .. n - m + 1 : SubSeq(s, m, n)[j] = s[m + j - 1]
  <1>1. Len(s) \in Nat
    BY LenProperties
  <1>2. m \in Int /\ n \in Int /\ \A i \in m .. n : s[i] \in T
    BY <1>1, ElementOfSeq
  <1> QED
    BY <1>1, <1>2, SubSeqProperties

\* RemoveAt shifts the elements behind the place.
LEMMA RemoveAtElements ==
  ASSUME NEW T, NEW s \in Seq(T), NEW i \in 1 .. Len(s)
  PROVE  /\ RemoveAt(s, i) \in Seq(T)
         /\ Len(RemoveAt(s, i)) = Len(s) - 1
         /\ \A j \in 1 .. Len(s) - 1 :
              RemoveAt(s, i)[j] = IF j < i THEN s[j] ELSE s[j + 1]
  <1> DEFINE a == SubSeq(s, 1, i - 1)
             b == SubSeq(s, i + 1, Len(s))
  <1>1. Len(s) \in Nat
    BY LenProperties
  <1>2. a \in Seq(T) /\ Len(a) = i - 1 /\ \A j \in 1 .. i - 1 : a[j] = s[j]
    BY <1>1, SubSeqElements
  <1>3. /\ b \in Seq(T) /\ Len(b) = Len(s) - i
        /\ \A j \in 1 .. Len(s) - i : b[j] = s[i + j]
    BY <1>1, SubSeqElements
  <1> HIDE DEF a, b
  <1> DEFINE t == a \o b
  <1>4. /\ t \in Seq(T) /\ Len(t) = Len(a) + Len(b)
        /\ \A j \in 1 .. Len(a) + Len(b) :
             t[j] = IF j <= Len(a) THEN a[j] ELSE b[j - Len(a)]
    BY <1>2, <1>3, ConcatProperties
  <1>5. t = RemoveAt(s, i)
    BY DEF RemoveAt, a, b
  <1> HIDE DEF t
  <1>6. Len(t) = Len(s) - 1
    BY <1>1, <1>2, <1>3, <1>4
  <1>7. ASSUME NEW j \in 1 .. Len(s) - 1
        PROVE  t[j] = IF j < i THEN s[j] ELSE s[j + 1]
    <2>1. CASE j < i
      BY <1>1, <1>2, <1>3, <1>4, <2>1
    <2>2. CASE j >= i
      <3>1. j - (i - 1) \in 1 .. Len(s) - i /\ i + (j - (i - 1)) = j + 1
        BY <1>1, <2>2
      <3>2. j \in 1 .. Len(a) + Len(b) /\ ~ (j <= Len(a)) /\ j - Len(a) = j - (i - 1)
        BY <1>1, <1>2, <1>3, <2>2
      <3>3. t[j] = b[j - (i - 1)]
        BY <1>4, <3>2
      <3> QED
        BY <1>1, <1>3, <2>2, <3>1, <3>3
    <2> QED
      BY <1>1, <2>1, <2>2
  <1> QED
    BY <1>4, <1>5, <1>6, <1>7

\* A place is taken out.
LEMMA RemoveAtHolds ==
  ASSUME NEW T, NEW s \in Seq(T), NEW k \in 1 .. Len(s)
  PROVE  /\ RemoveAt(s, k) \in Seq(T)
         /\ ToSet(RemoveAt(s, k)) \subseteq ToSet(s)
         /\ ToSet(s) \subseteq ToSet(RemoveAt(s, k)) \union {s[k]}
         /\ IsInjective(s) =>
              IsInjective(RemoveAt(s, k)) /\ s[k] \notin ToSet(RemoveAt(s, k))
  <1> DEFINE t == RemoveAt(s, k)
             n == Len(s)
  <1>1. n \in Nat /\ DOMAIN s = 1 .. n /\ ToSet(s) = {s[i] : i \in 1 .. n}
    BY LenProperties DEF ToSet
  <1>2. /\ t \in Seq(T) /\ Len(t) = n - 1
        /\ \A j \in 1 .. n - 1 : t[j] = IF j < k THEN s[j] ELSE s[j + 1]
    BY RemoveAtElements
  <1>3. DOMAIN t = 1 .. n - 1 /\ ToSet(t) = {t[i] : i \in 1 .. n - 1}
    BY <1>2, LenProperties DEF ToSet
  <1>4. k \in 1 .. n
    OBVIOUS
  <1> HIDE DEF t, n
  <1> DEFINE at(j) == IF j < k THEN j ELSE j + 1
  <1>5. \A j \in 1 .. n - 1 : t[j] = s[at(j)] /\ at(j) \in 1 .. n /\ at(j) # k
    BY <1>1, <1>2, <1>4
  <1>6. \A i, j \in 1 .. n - 1 : at(i) = at(j) => i = j
    BY <1>1, <1>4
  <1>7. \A i \in 1 .. n : i = k \/ \E j \in 1 .. n - 1 : at(j) = i
    <2> SUFFICES ASSUME NEW i \in 1 .. n, i # k
                 PROVE  \E j \in 1 .. n - 1 : at(j) = i
      OBVIOUS
    <2>1. CASE i < k
      BY <1>1, <1>4, <2>1
    <2>2. CASE i > k
      <3>1. i - 1 \in 1 .. n - 1 /\ at(i - 1) = i
        BY <1>1, <1>4, <2>2
      <3> QED
        BY <3>1
    <2> QED
      BY <1>4, <1>1, <2>1, <2>2
  <1> HIDE DEF at
  <1>8. ToSet(t) \subseteq ToSet(s)
    BY <1>1, <1>3, <1>5
  <1>9. ToSet(s) \subseteq ToSet(t) \union {s[k]}
    BY <1>1, <1>3, <1>5, <1>7
  <1>10. ASSUME IsInjective(s)
         PROVE  IsInjective(t) /\ s[k] \notin ToSet(t)
    <2>1. \A i, j \in 1 .. n : s[i] = s[j] => i = j
      BY <1>1, <1>10 DEF IsInjective
    <2>2. \A i, j \in 1 .. n - 1 : t[i] = t[j] => i = j
      BY <1>5, <1>6, <2>1
    <2>3. \A j \in 1 .. n - 1 : t[j] # s[k]
      BY <1>4, <1>5, <2>1
    <2> QED
      BY <1>3, <2>2, <2>3 DEF IsInjective
  <1> QED
    BY <1>2, <1>8, <1>9, <1>10 DEF t
=============================================================================
