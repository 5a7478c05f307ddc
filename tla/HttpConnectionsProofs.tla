----------------------- MODULE HttpConnectionsProofs ------------------------
(***************************************************************************)
(* Proofs about HttpConnections, for any number of connections and any     *)
(* size of the descriptor sets.                                            *)
(***************************************************************************)
EXTENDS HttpConnections, FiniteSetTheorems, FunctionTheorems, CommonLemmas

-----------------------------------------------------------------------------
(***************************************************************************)
(* The inductive invariant, as a predicate of the worker's state w, for    *)
(* the steps of a handler pass from one such record to the next.           *)
(***************************************************************************)
Dirs == {"read", "write"}

Worker == [free : Seq(Conn), open : SUBSET Conn, phase : [Conn -> Phases],
           reusable : Seq(Conn), idle : SUBSET Conn, list : Seq(Event),
           index : [Event -> Nat], active : SUBSET Event,
           max : [Dirs -> 0 .. MaxFds], ready : SUBSET Event,
           accepts : Seq(Event), posted : Seq(Event), timer : SUBSET Event,
           timedout : BOOLEAN]

\* What IndexExact says.
Watched(a, d) == {e \in a : e[2] = d}

Indexed(w) ==
  /\ \A i \in 1 .. Len(w.list) : w.index[w.list[i]] = i
  /\ ToSet(w.list) = w.active
  /\ \A e \in Event : w.index[e] = 0 <=> e \notin w.active
  /\ \A d \in Dirs : w.max[d] = Cardinality(Watched(w.active, d))

\* What NothingStale says, and what belongs to the listening connection.
Owned(w) ==
  /\ ToSet(w.free) = Conn \ w.open
  /\ IsInjective(w.free) /\ IsInjective(w.reusable) /\ IsInjective(w.posted)
  /\ Listener \in w.open => w.phase[Listener] = "listen"
  /\ ToSet(w.reusable) \subseteq w.open \ {Listener}
  /\ w.idle \subseteq w.open \ {Listener}
  /\ \A e \in w.active : e[1] \in w.open /\ e # Write(Listener)
  /\ \A e \in w.ready : e[1] \in w.open \ {Listener} \/ e = Read(Listener)
  /\ \A e \in w.timer : e[1] \in w.open \ {Listener} \/ e = Read(Listener)
  /\ \A e \in ToSet(w.posted) : e[1] \in w.open \ {Listener}
  /\ ToSet(w.accepts) \subseteq {Read(Listener)}

\* ls is {Listener} while the listening connection is open, and {} afterwards;
\* a worker that is exiting keeps no connection alive.
Core(w, ls) ==
  /\ w \in Worker /\ Indexed(w) /\ Owned(w)
  /\ w.open \intersect {Listener} = ls
  /\ exiting => w.idle = {}

Clients(w) == w.open \ {Listener}

\* What a client has between two handlers: the events its phase waits for and
\* a timer, or an event that is posted already.
Served(w, c) ==
  /\ w.phase[c] \in {"wait", "header", "request", "keepalive", "lingering"}
  /\ c \in ToSet(w.reusable) <=> w.phase[c] \in {"wait", "keepalive"}
  /\ c \in w.idle <=> w.phase[c] = "keepalive"
  /\ w.phase[c] # "request" => Read(c) \in w.active \union ToSet(w.posted)
  /\ w.phase[c] \in {"wait", "keepalive", "lingering"} => Read(c) \in w.timer
  /\ w.phase[c] = "header" => Read(c) \in w.timer \union ToSet(w.posted)
  /\ w.phase[c] = "request" => Write(c) \in w.active \intersect w.timer

Sound(w, ls) == Core(w, ls) /\ \A c \in Clients(w) : Served(w, c)

\* While a handler of c runs.
SoundBut(w, c, ls) ==
  /\ Core(w, ls)
  /\ c \in Clients(w)
  /\ \A d \in Clients(w) \ {c} : Served(w, d)

IInv ==
  /\ Sound(W, IF exiting THEN {} ELSE {Listener})
  /\ exiting \in BOOLEAN
  /\ pc \in {"select", "accept", "timers", "posted", "exit"}
  /\ pc = "select" => posted = <<>>
  /\ pc = "exit" => open = {}

-----------------------------------------------------------------------------
(***************************************************************************)
(* Connections, their events, and the operations on one field.             *)
(***************************************************************************)
LEMMA Listening == NC \in Nat /\ Listener \in Conn
  BY EventLoopAssumption DEF Conn, Listener

LEMMA Events ==
  /\ \A c \in Conn : /\ Read(c) \in Event /\ Write(c) \in Event
                     /\ Read(c)[1] = c /\ Write(c)[1] = c
                     /\ Read(c)[2] = "read" /\ Write(c)[2] = "write"
  /\ \A e \in Event : /\ e[1] \in Conn /\ e[2] \in Dirs
                      /\ e = Read(e[1]) \/ e = Write(e[1])
  BY DEF Event, Read, Write, Dirs

LEMMA Names ==
  ASSUME NEW c \in Conn, NEW d \in Conn
  PROVE  Read(c) # Write(d) /\ (Read(c) = Read(d) => c = d) /\ (Write(c) = Write(d) => c = d)
  BY DEF Read, Write

LEMMA EventsFinite ==
  /\ IsFiniteSet(Event)
  /\ \A a \in SUBSET Event, d \in Dirs : IsFiniteSet(Watched(a, d))
  <1>1. IsFiniteSet(Conn)
    BY Listening, FS_Interval DEF Conn
  <1>2. IsFiniteSet({"read", "write"})
    <2>1. IsFiniteSet({} \union {"read"})
      BY FS_EmptySet, FS_AddElement
    <2>2. IsFiniteSet(({} \union {"read"}) \union {"write"})
      BY <2>1, FS_AddElement
    <2>3. ({} \union {"read"}) \union {"write"} = {"read", "write"}
      OBVIOUS
    <2> QED
      BY <2>2, <2>3
  <1>3. IsFiniteSet(Event)
    BY <1>1, <1>2, FS_Product DEF Event
  <1>4. ASSUME NEW a \in SUBSET Event, NEW d \in Dirs
        PROVE  IsFiniteSet(Watched(a, d))
    BY <1>3, FS_Subset DEF Watched
  <1> QED
    BY <1>3, <1>4

\* An element leaves a queue that holds it once at most.
LEMMA WithoutHolds ==
  ASSUME NEW T, NEW s \in Seq(T), NEW x
  PROVE  /\ Without(s, x) \in Seq(T)
         /\ ToSet(Without(s, x)) \subseteq ToSet(s)
         /\ ToSet(s) \subseteq ToSet(Without(s, x)) \union {x}
         /\ x \notin ToSet(s) => Without(s, x) = s
         /\ IsInjective(s) => IsInjective(Without(s, x)) /\ x \notin ToSet(Without(s, x))
  <1>1. CASE x \notin ToSet(s)
    BY <1>1 DEF Without
  <1>2. CASE x \in ToSet(s)
    <2> DEFINE k == CHOOSE i \in DOMAIN s : s[i] = x
    <2>1. k \in DOMAIN s /\ s[k] = x
      BY <1>2 DEF ToSet
    <2>2. k \in 1 .. Len(s)
      BY <2>1, Places
    <2>3. Without(s, x) = RemoveAt(s, k)
      BY <1>2 DEF Without
    <2> HIDE DEF k
    <2> QED
      BY <1>2, <2>1, <2>2, <2>3, RemoveAtHolds
  <1> QED
    BY <1>1, <1>2

\* An event is watched for.
LEMMA AddKeeps ==
  ASSUME NEW w \in Worker, Indexed(w), NEW e \in Event, ~ AddFails(w, e)
  PROVE  /\ AddEvent(w, e) \in Worker
         /\ Indexed(AddEvent(w, e))
         /\ AddEvent(w, e).active = w.active \union {e}
         /\ \A i \in 1 .. Len(w.list) : AddEvent(w, e).list[i] = w.list[i]
  <1> DEFINE v == AddEvent(w, e)
             n == Len(w.list)
             d == e[2]
  <1>1. CASE w.index[e] # 0
    <2>1. e \in w.active
      BY <1>1 DEF Indexed
    <2>2. v = w
      BY <1>1 DEF AddEvent
    <2> QED
      BY <2>1, <2>2
  <1>2. CASE w.index[e] = 0
    <2>1. w.list \in Seq(Event) /\ w.index \in [Event -> Nat] /\ d \in Dirs
          /\ w.max \in [Dirs -> 0 .. MaxFds] /\ MaxFds \in Nat /\ w.active \in SUBSET Event
      BY Events, EventLoopAssumption DEF Worker
    <2>2. n \in Nat /\ ToSet(w.list) = w.active /\ \A i \in 1 .. n : w.list[i] \in w.active
      BY <2>1, Places DEF Indexed
    <2>3. e \notin w.active
      BY <1>2 DEF Indexed
    <2> DEFINE l == Append(w.list, e)
               x == [w.index EXCEPT ![e] = n + 1]
               m == [w.max EXCEPT ![d] = @ + 1]
    <2>4. v = [w EXCEPT !.active = @ \union {e}, !.max = m, !.list = l, !.index = x]
      BY <1>2 DEF AddEvent
    <2>5. /\ l \in Seq(Event) /\ ToSet(l) = w.active \union {e} /\ Len(l) = n + 1
          /\ l[n + 1] = e /\ \A i \in 1 .. n : l[i] = w.list[i]
      BY <2>1, <2>2, AppendHolds
    <2>6. x \in [Event -> Nat] /\ x[e] = n + 1 /\ \A f \in Event \ {e} : x[f] = w.index[f]
      BY <2>1, <2>2
    <2>7. w.max[d] < MaxFds
      BY <1>2, <2>1 DEF AddFails
    <2>8. m \in [Dirs -> 0 .. MaxFds] /\ m[d] = w.max[d] + 1
          /\ \A f \in Dirs \ {d} : m[f] = w.max[f]
      BY <2>1, <2>7
    <2> HIDE DEF v, l, x, m, n, d
    <2>9. v \in Worker /\ v.list = l /\ v.index = x /\ v.max = m
          /\ v.active = w.active \union {e}
      BY <2>4, <2>5, <2>6, <2>8 DEF Worker
    <2>10. \A i \in 1 .. n + 1 : x[l[i]] = i
      <3>1. \A i \in 1 .. n : w.index[w.list[i]] = i /\ w.list[i] \in Event \ {e}
        BY <2>1, <2>2, <2>3 DEF Indexed, n
      <3>2. \A i \in 1 .. n : x[l[i]] = i
        BY <2>5, <2>6, <3>1
      <3> QED
        BY <2>2, <2>5, <2>6, <3>2
    <2>11. \A f \in Event : x[f] = 0 <=> f \notin w.active \union {e}
      BY <2>2, <2>6 DEF Indexed
    <2>12. \A f \in Dirs : m[f] = Cardinality(Watched(w.active \union {e}, f))
      <3>1. ASSUME NEW f \in Dirs \ {d}
            PROVE  Watched(w.active \union {e}, f) = Watched(w.active, f)
        BY <3>1 DEF Watched, d
      <3>2. Watched(w.active \union {e}, d) = Watched(w.active, d) \union {e}
        BY DEF Watched, d
      <3>3. e \notin Watched(w.active, d) /\ IsFiniteSet(Watched(w.active, d))
        BY <2>1, <2>3, EventsFinite DEF Watched
      <3>4. Cardinality(Watched(w.active, d) \union {e}) = Cardinality(Watched(w.active, d)) + 1
        BY <3>3, FS_AddElement
      <3> QED
        BY <2>1, <2>8, <3>1, <3>2, <3>4 DEF Indexed
    <2>13. Indexed(v)
      BY <2>5, <2>9, <2>10, <2>11, <2>12 DEF Indexed
    <2> QED
      BY <2>5, <2>9, <2>13 DEF v, n
  <1> QED
    BY <1>1, <1>2

\* An event is not watched for any more: the last one takes its place.
LEMMA DelKeeps ==
  ASSUME NEW w \in Worker, Indexed(w), NEW e \in Event
  PROVE  /\ DelEvent(w, e) \in Worker
         /\ Indexed(DelEvent(w, e))
         /\ DelEvent(w, e).active = w.active \ {e}
  <1> DEFINE v == DelEvent(w, e)
             n == Len(w.list)
             d == e[2]
             k == w.index[e]
             last == w.list[n]
  <1>0. w.list \in Seq(Event) /\ w.index \in [Event -> Nat] /\ d \in Dirs
        /\ w.max \in [Dirs -> 0 .. MaxFds] /\ MaxFds \in Nat /\ w.active \in SUBSET Event
    BY Events, EventLoopAssumption DEF Worker
  <1>1. CASE k = 0
    <2>1. v = [w EXCEPT !.active = @ \ {e}]
      BY <1>1 DEF DelEvent
    <2>2. w.active \ {e} = w.active
      BY <1>1 DEF Indexed
    <2>3. v = w
      BY <2>1, <2>2 DEF Worker
    <2> QED
      BY <2>2, <2>3
  <1>2. CASE k # 0
    <2>1. /\ n \in Nat /\ \A i \in 1 .. n : w.list[i] \in w.active
          /\ \A f \in w.active : \E i \in 1 .. n : f = w.list[i]
      <3>1. /\ n \in Nat
            /\ \A f : f \in ToSet(w.list) <=> \E i \in 1 .. n : f = w.list[i]
        BY <1>0, Places
      <3>2. ToSet(w.list) = w.active
        BY DEF Indexed
      <3> QED
        BY <3>1, <3>2
    <2>2. e \in w.active
      BY <1>2 DEF Indexed
    <2>3. \A i \in 1 .. n : w.index[w.list[i]] = i
      BY DEF Indexed
    <2>4. k \in 1 .. n /\ w.list[k] = e
      <3>1. PICK i \in 1 .. n : e = w.list[i]
        BY <2>1, <2>2
      <3> QED
        BY <2>3, <3>1
    <2>5. n \in 1 .. n /\ last \in w.active /\ w.index[last] = n /\ last \in Event
      <3>1. n \in 1 .. n
        BY <2>1, <2>4
      <3> QED
        BY <1>0, <2>1, <2>3, <3>1
    <2> DEFINE r == [w.list EXCEPT ![k] = last]
               l == SubSeq(r, 1, n - 1)
               x == [[w.index EXCEPT ![last] = k] EXCEPT ![e] = 0]
               m == [w.max EXCEPT ![d] = @ - 1]
    <2>6. v = [w EXCEPT !.active = @ \ {e}, !.max = m, !.list = l, !.index = x]
      BY <1>2 DEF DelEvent
    <2>7. r \in Seq(Event) /\ Len(r) = n
          /\ \A i \in 1 .. n : r[i] = IF i = k THEN last ELSE w.list[i]
      <3>1. \A i \in 1 .. n : w.list[i] \in Event
        BY <1>0, Places
      <3> QED
        BY <1>0, <2>4, <2>5, ExceptSeq
    <2>8. l \in Seq(Event) /\ Len(l) = n - 1 /\ \A i \in 1 .. n - 1 : l[i] = r[i]
      <3>1. 1 \in 1 .. Len(r) + 1 /\ n - 1 \in 1 - 1 .. Len(r)
        BY <2>1, <2>4, <2>7
      <3> HIDE DEF r, l, n
      <3>2. l \in Seq(Event) /\ Len(l) = (n - 1) - 1 + 1
            /\ \A j \in 1 .. (n - 1) - 1 + 1 : l[j] = r[1 + j - 1]
        BY <2>7, <3>1, SubSeqElements DEF l
      <3> QED
        BY <2>1, <3>2
    <2>9. x \in [Event -> Nat] /\ x[e] = 0 /\ (last # e => x[last] = k)
          /\ \A f \in Event \ {e, last} : x[f] = w.index[f]
      BY <1>0, <2>4, <2>5
    <2>10. w.max[d] \in Nat /\ w.max[d] > 0
      <3>1. e \in Watched(w.active, d) /\ IsFiniteSet(Watched(w.active, d))
        BY <1>0, <2>2, EventsFinite DEF Watched
      <3>2. Cardinality(Watched(w.active, d)) # 0
        BY <3>1, FS_EmptySet
      <3> QED
        BY <1>0, <3>2 DEF Indexed
    <2>11. m \in [Dirs -> 0 .. MaxFds] /\ m[d] = w.max[d] - 1
           /\ \A f \in Dirs \ {d} : m[f] = w.max[f]
      BY <1>0, <2>10
    <2> HIDE DEF v, r, l, x, m, n, d, k, last
    <2>12. v \in Worker /\ v.list = l /\ v.index = x /\ v.max = m
           /\ v.active = w.active \ {e}
      BY <2>6, <2>8, <2>9, <2>11 DEF Worker
    <2>13. \A i \in 1 .. n - 1 : x[l[i]] = i
      <3> SUFFICES ASSUME NEW i \in 1 .. n - 1
                   PROVE  x[l[i]] = i
        OBVIOUS
      <3>1. i \in 1 .. n /\ i # n
        BY <2>1
      <3>2. CASE i = k
        <4>1. l[i] = last
          BY <2>7, <2>8, <3>1, <3>2
        <4>2. last # e
          BY <2>4, <2>5, <3>1, <3>2 DEF k
        <4> QED
          BY <2>9, <3>2, <4>1, <4>2
      <3>3. CASE i # k
        <4>1. l[i] = w.list[i] /\ w.list[i] \in Event /\ w.index[w.list[i]] = i
          BY <1>0, <2>1, <2>3, <2>7, <2>8, <3>1, <3>3
        <4>2. w.list[i] # e /\ w.list[i] # last
          BY <2>4, <2>5, <3>1, <3>3, <4>1 DEF k
        <4> QED
          BY <2>9, <4>1, <4>2
      <3> QED
        BY <3>2, <3>3
    <2>14. ToSet(l) = w.active \ {e}
      <3>1. \A i \in 1 .. n - 1 : i \in 1 .. n
        BY <2>1
      <3>2. ToSet(l) \subseteq w.active
        <4>1. \A i \in 1 .. n - 1 : l[i] \in w.active
          BY <2>1, <2>5, <2>7, <2>8, <3>1
        <4> QED
          BY <2>8, <4>1, Places
      <3>3. e \notin ToSet(l)
        <4>1. \A i \in 1 .. n - 1 : x[l[i]] # 0
          BY <2>1, <2>13
        <4> QED
          BY <2>8, <2>9, <4>1, Places
      <3>4. ASSUME NEW f \in w.active, f # e
            PROVE  f \in ToSet(l)
        <4>1. PICK i \in 1 .. n : f = w.list[i]
          BY <2>1
        <4>2. i # k
          BY <2>4, <3>4, <4>1
        <4>3. CASE i # n
          <5>1. i \in 1 .. n - 1
            BY <2>1, <4>3
          <5> QED
            BY <2>7, <2>8, <4>1, <4>2, <5>1, Places
        <4>4. CASE i = n
          <5>1. f = last /\ k \in 1 .. n - 1
            BY <2>1, <2>4, <4>1, <4>2, <4>4 DEF last
          <5>2. l[k] = last
            BY <2>4, <2>7, <2>8, <5>1
          <5> QED
            BY <2>8, <5>1, <5>2, Places
        <4> QED
          BY <4>3, <4>4
      <3> QED
        BY <3>2, <3>3, <3>4
    <2>15. \A f \in Event : x[f] = 0 <=> f \notin w.active \ {e}
      <3>1. \A f \in Event : w.index[f] = 0 <=> f \notin w.active
        BY DEF Indexed
      <3> QED
        BY <2>1, <2>4, <2>5, <2>9, <3>1
    <2>16. \A f \in Dirs : m[f] = Cardinality(Watched(w.active \ {e}, f))
      <3>1. ASSUME NEW f \in Dirs \ {d}
            PROVE  Watched(w.active \ {e}, f) = Watched(w.active, f)
        BY <3>1 DEF Watched, d
      <3>2. Watched(w.active \ {e}, d) = Watched(w.active, d) \ {e}
        BY DEF Watched, d
      <3>3. e \in Watched(w.active, d) /\ IsFiniteSet(Watched(w.active, d))
        BY <1>0, <2>2, EventsFinite DEF Watched, d
      <3>4. Cardinality(Watched(w.active, d) \ {e}) = Cardinality(Watched(w.active, d)) - 1
        BY <3>3, FS_RemoveElement
      <3> QED
        BY <1>0, <2>11, <3>1, <3>2, <3>4 DEF Indexed
    <2>17. Indexed(v)
      BY <2>8, <2>12, <2>13, <2>14, <2>15, <2>16 DEF Indexed
    <2> QED
      BY <2>12, <2>17 DEF v
  <1> QED
    BY <1>1, <1>2

-----------------------------------------------------------------------------
(***************************************************************************)
(* The steps of a handler of c leave every other client served.            *)
(***************************************************************************)
Apart(w, v, c) ==
  /\ v.open = w.open
  /\ \A d \in Conn \ {c} : /\ v.phase[d] = w.phase[d]
                           /\ d \in ToSet(v.reusable) <=> d \in ToSet(w.reusable)
                           /\ d \in v.idle <=> d \in w.idle
  /\ \A e \in Event : e[1] # c =>
       /\ e \in v.active <=> e \in w.active
       /\ e \in v.timer <=> e \in w.timer
       /\ e \in ToSet(v.posted) <=> e \in ToSet(w.posted)

\* What a handler of c knows.
LEMMA ButFacts ==
  ASSUME NEW w, NEW c, NEW ls, SoundBut(w, c, ls)
  PROVE  /\ w \in Worker /\ c \in Conn \ {Listener} /\ c \in w.open
         /\ Read(c) \in Event /\ Write(c) \in Event /\ Read(c) # Write(c)
         /\ Read(c) # Read(Listener) /\ Write(c) # Read(Listener) /\ Write(c) # Write(Listener)
         /\ Read(c) # Write(Listener) /\ Read(c)[1] = c /\ Write(c)[1] = c
  <1>1. w \in Worker /\ c \in w.open /\ c # Listener /\ c \in Conn
    BY DEF SoundBut, Core, Clients, Worker
  <1> QED
    BY <1>1, Events, Names, Listening

LEMMA StillBut ==
  ASSUME NEW w, NEW v, NEW c, NEW ls, SoundBut(w, c, ls), Core(v, ls), Apart(w, v, c)
  PROVE  SoundBut(v, c, ls)
  <1>1. w \in Worker /\ v.open = w.open
    BY DEF SoundBut, Core, Apart
  <1>2. c \in Clients(v)
    BY <1>1 DEF SoundBut, Clients
  <1>3. ASSUME NEW d \in Clients(v) \ {c}
        PROVE  Served(v, d)
    <2>1. d \in Conn \ {c} /\ Served(w, d)
      BY <1>1, <1>3 DEF SoundBut, Clients, Worker
    <2>2. /\ Read(d) \in Event /\ Write(d) \in Event
          /\ Read(d)[1] # c /\ Write(d)[1] # c
      BY <2>1, Events
    <2> QED
      BY <2>1, <2>2 DEF Apart, Served
  <1> QED
    BY <1>2, <1>3 DEF SoundBut

\* Timers.
LEMMA AddTimerBut ==
  ASSUME NEW w, NEW c, NEW e \in {Read(c), Write(c)}, NEW ls, SoundBut(w, c, ls)
  PROVE  LET v == AddTimer(w, e)
         IN /\ SoundBut(v, c, ls)
            /\ v.open = w.open
            /\ v.phase = w.phase /\ v.reusable = w.reusable /\ v.idle = w.idle
            /\ v.active = w.active /\ v.ready = w.ready /\ v.posted = w.posted
            /\ v.timer = w.timer \union {e}
  <1> DEFINE v == AddTimer(w, e)
  <1>1. /\ w \in Worker /\ c \in Clients(w) /\ e \in Event /\ e[1] = c
    BY ButFacts DEF SoundBut
  <1>2. v = [w EXCEPT !.timer = @ \union {e}]
    BY DEF AddTimer
  <1> HIDE DEF v
  <1>3. /\ v.open = w.open
        /\ v.phase = w.phase /\ v.reusable = w.reusable /\ v.idle = w.idle
        /\ v.active = w.active /\ v.ready = w.ready /\ v.posted = w.posted
        /\ v.timer = w.timer \union {e}
    BY <1>1, <1>2 DEF Worker
  <1>4. Core(v, ls)
    BY <1>1, <1>2 DEF SoundBut, Core, Worker, Indexed, Owned, Clients
  <1>5. Apart(w, v, c)
    BY <1>1, <1>2 DEF Worker, Apart
  <1>6. SoundBut(v, c, ls)
    BY <1>4, <1>5, StillBut
  <1> QED
    BY <1>3, <1>6 DEF v

LEMMA DelTimerBut ==
  ASSUME NEW w, NEW c, NEW e \in {Read(c), Write(c)}, NEW ls, SoundBut(w, c, ls)
  PROVE  LET v == DelTimer(w, e)
         IN /\ SoundBut(v, c, ls)
            /\ v.open = w.open
            /\ v.phase = w.phase /\ v.reusable = w.reusable /\ v.idle = w.idle
            /\ v.active = w.active /\ v.ready = w.ready /\ v.posted = w.posted
            /\ v.timer = w.timer \ {e}
  <1> DEFINE v == DelTimer(w, e)
  <1>1. w \in Worker /\ c \in Clients(w) /\ c # Listener /\ c \in Conn /\ e \in Event /\ e[1] = c
    BY ButFacts DEF SoundBut
  <1>2. v = [w EXCEPT !.timer = @ \ {e}]
    BY DEF DelTimer
  <1> HIDE DEF v
  <1>3. /\ v.open = w.open
        /\ v.phase = w.phase /\ v.reusable = w.reusable /\ v.idle = w.idle
        /\ v.active = w.active /\ v.ready = w.ready /\ v.posted = w.posted
        /\ v.timer = w.timer \ {e}
    BY <1>1, <1>2 DEF Worker
  <1>4. Core(v, ls)
    BY <1>1, <1>2 DEF SoundBut, Core, Worker, Indexed, Owned, Clients
  <1>5. Apart(w, v, c)
    BY <1>1, <1>2 DEF Worker, Apart
  <1>6. SoundBut(v, c, ls)
    BY <1>4, <1>5, StillBut
  <1> QED
    BY <1>3, <1>6 DEF v

\* Bytes are read or written.
LEMMA NotReadyBut ==
  ASSUME NEW w, NEW c, NEW e \in {Read(c), Write(c)}, NEW ls, SoundBut(w, c, ls)
  PROVE  LET v == NotReady(w, e)
         IN /\ SoundBut(v, c, ls)
            /\ v.open = w.open
            /\ v.phase = w.phase /\ v.reusable = w.reusable /\ v.idle = w.idle
            /\ v.active = w.active /\ v.ready = w.ready \ {e}
            /\ v.posted = w.posted /\ v.timer = w.timer
  <1> DEFINE v == NotReady(w, e)
  <1>1. w \in Worker /\ c \in Clients(w) /\ c # Listener /\ c \in Conn /\ e \in Event /\ e[1] = c
    BY ButFacts DEF SoundBut
  <1>2. v = [w EXCEPT !.ready = @ \ {e}]
    BY DEF NotReady
  <1> HIDE DEF v
  <1>3. /\ v.open = w.open
        /\ v.phase = w.phase /\ v.reusable = w.reusable /\ v.idle = w.idle
        /\ v.active = w.active /\ v.ready = w.ready \ {e}
        /\ v.posted = w.posted /\ v.timer = w.timer
    BY <1>1, <1>2 DEF Worker
  <1>4. Core(v, ls)
    BY <1>1, <1>2 DEF SoundBut, Core, Worker, Indexed, Owned, Clients
  <1>5. Apart(w, v, c)
    BY <1>1, <1>2 DEF Worker, Apart
  <1>6. SoundBut(v, c, ls)
    BY <1>4, <1>5, StillBut
  <1> QED
    BY <1>3, <1>6 DEF v

LEMMA ReadyBut ==
  ASSUME NEW w, NEW c, NEW e \in {Read(c), Write(c)}, NEW ls, SoundBut(w, c, ls)
  PROVE  LET v == [w EXCEPT !.ready = @ \union {e}]
         IN /\ SoundBut(v, c, ls)
            /\ v.open = w.open
            /\ v.phase = w.phase /\ v.reusable = w.reusable /\ v.idle = w.idle
            /\ v.active = w.active /\ v.ready = w.ready \union {e}
            /\ v.posted = w.posted /\ v.timer = w.timer
  <1> DEFINE v == [w EXCEPT !.ready = @ \union {e}]
  <1>1. w \in Worker /\ c \in Clients(w) /\ c # Listener /\ c \in Conn /\ e \in Event /\ e[1] = c
    BY ButFacts DEF SoundBut
  <1>2. v = [w EXCEPT !.ready = @ \union {e}]
    OBVIOUS
  <1> HIDE DEF v
  <1>3. /\ v.open = w.open
        /\ v.phase = w.phase /\ v.reusable = w.reusable /\ v.idle = w.idle
        /\ v.active = w.active /\ v.ready = w.ready \union {e}
        /\ v.posted = w.posted /\ v.timer = w.timer
    BY <1>1, <1>2 DEF Worker
  <1>4. Core(v, ls)
    BY <1>1, <1>2 DEF SoundBut, Core, Worker, Indexed, Owned, Clients
  <1>5. Apart(w, v, c)
    BY <1>1, <1>2 DEF Worker, Apart
  <1>6. SoundBut(v, c, ls)
    BY <1>4, <1>5, StillBut
  <1> QED
    BY <1>3, <1>6 DEF v

\* The handlers of c are replaced, and c is marked idle.
LEMMA PhaseBut ==
  ASSUME NEW w, NEW c, NEW p \in Phases, NEW ls, SoundBut(w, c, ls)
  PROVE  LET v == [w EXCEPT !.phase[c] = p]
         IN /\ SoundBut(v, c, ls)
            /\ v.open = w.open
            /\ v.phase = [w.phase EXCEPT ![c] = p] /\ v.reusable = w.reusable
            /\ v.idle = w.idle /\ v.active = w.active /\ v.ready = w.ready
            /\ v.posted = w.posted /\ v.timer = w.timer
  <1> DEFINE v == [w EXCEPT !.phase[c] = p]
  <1>1. w \in Worker /\ c \in Clients(w) /\ c # Listener /\ c \in Conn
    BY ButFacts DEF SoundBut
  <1>2. v = [w EXCEPT !.phase[c] = p]
    OBVIOUS
  <1> HIDE DEF v
  <1>3. /\ v.open = w.open
        /\ v.phase = [w.phase EXCEPT ![c] = p] /\ v.reusable = w.reusable
        /\ v.idle = w.idle /\ v.active = w.active /\ v.ready = w.ready
        /\ v.posted = w.posted /\ v.timer = w.timer
    BY <1>1, <1>2 DEF Worker
  <1>4. Core(v, ls)
    BY <1>1, <1>2 DEF SoundBut, Core, Worker, Indexed, Owned, Clients
  <1>5. Apart(w, v, c)
    BY <1>1, <1>2 DEF Worker, Apart
  <1>6. SoundBut(v, c, ls)
    BY <1>4, <1>5, StillBut
  <1> QED
    BY <1>3, <1>6 DEF v

LEMMA BusyBut ==
  ASSUME NEW w, NEW c, NEW ls, SoundBut(w, c, ls)
  PROVE  LET v == [w EXCEPT !.idle = @ \ {c}]
         IN /\ SoundBut(v, c, ls)
            /\ v.open = w.open /\ v.phase = w.phase /\ v.reusable = w.reusable
            /\ v.idle = w.idle \ {c} /\ v.active = w.active /\ v.ready = w.ready
            /\ v.posted = w.posted /\ v.timer = w.timer
  <1> DEFINE v == [w EXCEPT !.idle = @ \ {c}]
  <1>1. w \in Worker /\ c \in Clients(w) /\ c # Listener /\ c \in Conn
    BY ButFacts DEF SoundBut
  <1>2. v = [w EXCEPT !.idle = @ \ {c}]
    OBVIOUS
  <1> HIDE DEF v
  <1>3. /\ v.open = w.open /\ v.phase = w.phase /\ v.reusable = w.reusable
        /\ v.idle = w.idle \ {c} /\ v.active = w.active /\ v.ready = w.ready
        /\ v.posted = w.posted /\ v.timer = w.timer
    BY <1>1, <1>2 DEF Worker
  <1>4. Core(v, ls)
    BY <1>1, <1>2 DEF SoundBut, Core, Worker, Indexed, Owned, Clients
  <1>5. Apart(w, v, c)
    BY <1>1, <1>2 DEF Worker, Apart
  <1>6. SoundBut(v, c, ls)
    BY <1>4, <1>5, StillBut
  <1> QED
    BY <1>3, <1>6 DEF v

LEMMA IdleBut ==
  ASSUME NEW w, NEW c, NEW ls, SoundBut(w, c, ls), ~ exiting
  PROVE  LET v == [w EXCEPT !.phase[c] = "keepalive", !.idle = @ \union {c}]
         IN /\ SoundBut(v, c, ls)
            /\ v.open = w.open /\ v.phase = [w.phase EXCEPT ![c] = "keepalive"]
            /\ v.reusable = w.reusable /\ v.idle = w.idle \union {c}
            /\ v.active = w.active /\ v.ready = w.ready /\ v.posted = w.posted
            /\ v.timer = w.timer
  <1> DEFINE v == [w EXCEPT !.phase[c] = "keepalive", !.idle = @ \union {c}]
  <1>1. w \in Worker /\ c \in Clients(w) /\ c # Listener /\ c \in Conn
    BY ButFacts DEF SoundBut
  <1>2. v = [w EXCEPT !.phase[c] = "keepalive", !.idle = @ \union {c}]
    OBVIOUS
  <1>a. "keepalive" \in Phases
    BY DEF Phases
  <1> HIDE DEF v
  <1>3. /\ v.open = w.open /\ v.phase = [w.phase EXCEPT ![c] = "keepalive"]
        /\ v.reusable = w.reusable /\ v.idle = w.idle \union {c}
        /\ v.active = w.active /\ v.ready = w.ready /\ v.posted = w.posted
        /\ v.timer = w.timer
    BY <1>1, <1>2, <1>a DEF Worker
  <1>4. Core(v, ls)
    BY <1>1, <1>2, <1>a DEF SoundBut, Core, Worker, Indexed, Owned, Clients
  <1>5. Apart(w, v, c)
    BY <1>1, <1>2, <1>a DEF Worker, Apart
  <1>6. SoundBut(v, c, ls)
    BY <1>4, <1>5, StillBut
  <1> QED
    BY <1>3, <1>6 DEF v

\* An event of c is posted, unless it is posted already.
LEMMA PostBut ==
  ASSUME NEW w, NEW c, NEW e \in {Read(c), Write(c)}, NEW ls, SoundBut(w, c, ls)
  PROVE  LET v == Post(w, e)
         IN /\ SoundBut(v, c, ls)
            /\ v.open = w.open
            /\ v.phase = w.phase /\ v.reusable = w.reusable /\ v.idle = w.idle
            /\ v.active = w.active /\ v.ready = w.ready /\ v.timer = w.timer
            /\ ToSet(v.posted) = ToSet(w.posted) \union {e}
  <1> DEFINE v == Post(w, e)
  <1>1. /\ w \in Worker /\ c \in Clients(w) /\ e \in Event /\ e[1] = c
        /\ e # Read(Listener) /\ w.posted \in Seq(Event)
    BY ButFacts DEF SoundBut, Worker
  <1>2. ToSet(w.accepts) \subseteq {Read(Listener)} /\ IsInjective(w.posted)
    BY DEF SoundBut, Core, Owned
  <1>3. CASE e \in ToSet(w.posted)
    <2>1. v = w
      BY <1>3 DEF Post, IsPosted
    <2> QED
      BY <1>3, <2>1
  <1>4. CASE e \notin ToSet(w.posted)
    <2> DEFINE q == Append(w.posted, e)
    <2>1. v = [w EXCEPT !.posted = q]
      BY <1>1, <1>2, <1>4 DEF Post, IsPosted
    <2>2. q \in Seq(Event) /\ ToSet(q) = ToSet(w.posted) \union {e} /\ IsInjective(q)
      BY <1>1, <1>2, <1>4, AppendHolds
    <2> HIDE DEF v, q
    <2>3. /\ v.open = w.open
          /\ v.phase = w.phase /\ v.reusable = w.reusable /\ v.idle = w.idle
          /\ v.active = w.active /\ v.ready = w.ready /\ v.timer = w.timer
          /\ v.posted = q
      BY <1>1, <2>1 DEF Worker
    <2>4. Core(v, ls)
      BY <1>1, <2>1, <2>2 DEF SoundBut, Core, Worker, Indexed, Owned, Clients
    <2>5. Apart(w, v, c)
      BY <1>1, <2>1, <2>2 DEF Worker, Apart
    <2>6. SoundBut(v, c, ls)
      BY <2>4, <2>5, StillBut
    <2> QED
      BY <2>2, <2>3, <2>6 DEF v
  <1> QED
    BY <1>3, <1>4

\* The queue of reusable connections.
LEMMA SetReusableBut ==
  ASSUME NEW w, NEW c, NEW ls, SoundBut(w, c, ls), NEW on \in BOOLEAN
  PROVE  LET v == SetReusable(w, c, on)
         IN /\ SoundBut(v, c, ls)
            /\ v.open = w.open
            /\ v.phase = w.phase /\ v.idle = w.idle /\ v.active = w.active
            /\ v.ready = w.ready /\ v.posted = w.posted /\ v.timer = w.timer
            /\ on => ToSet(v.reusable) = ToSet(w.reusable) \union {c}
            /\ ~ on => ToSet(v.reusable) = ToSet(w.reusable) \ {c}
  <1> DEFINE v == SetReusable(w, c, on)
             rest == Without(w.reusable, c)
             q == IF on THEN <<c>> \o rest ELSE rest
  <1>1. /\ w \in Worker /\ c \in Clients(w) /\ c \in Conn /\ w.reusable \in Seq(Conn)
    BY ButFacts DEF SoundBut, Worker
  <1>2. IsInjective(w.reusable) /\ ToSet(w.reusable) \subseteq Clients(w)
    BY DEF SoundBut, Core, Owned, Clients
  <1>3. v = [w EXCEPT !.reusable = q]
    BY DEF SetReusable
  <1>4. /\ rest \in Seq(Conn) /\ IsInjective(rest) /\ c \notin ToSet(rest)
        /\ ToSet(rest) \subseteq ToSet(w.reusable)
        /\ ToSet(w.reusable) \subseteq ToSet(rest) \union {c}
    BY <1>1, <1>2, WithoutHolds
  <1> HIDE DEF v, rest
  <1>5. /\ q \in Seq(Conn) /\ IsInjective(q)
        /\ ToSet(q) = IF on THEN ToSet(rest) \union {c} ELSE ToSet(rest)
    <2> DEFINE a == <<c>> \o rest
    <2>1. a \in Seq(Conn) /\ IsInjective(a) /\ ToSet(a) = ToSet(rest) \union {c}
      BY <1>1, <1>4, ConsHolds
    <2> HIDE DEF a
    <2>2. q = IF on THEN a ELSE rest
      BY DEF a
    <2> HIDE DEF q
    <2> QED
      BY <1>4, <2>1, <2>2
  <1> HIDE DEF q
  <1>6. /\ v.open = w.open
        /\ v.phase = w.phase /\ v.idle = w.idle /\ v.active = w.active
        /\ v.ready = w.ready /\ v.posted = w.posted /\ v.timer = w.timer
        /\ v.reusable = q
    BY <1>1, <1>3 DEF Worker
  <1>7. Core(v, ls)
    BY <1>1, <1>2, <1>3, <1>4, <1>5 DEF SoundBut, Core, Worker, Indexed, Owned, Clients
  <1>8. Apart(w, v, c)
    BY <1>1, <1>3, <1>4, <1>5 DEF Worker, Apart
  <1>9. SoundBut(v, c, ls)
    BY <1>7, <1>8, StillBut
  <1>10. ToSet(v.reusable) = IF on THEN ToSet(w.reusable) \union {c}
                            ELSE ToSet(w.reusable) \ {c}
    BY <1>4, <1>5, <1>6
  <1> QED
    BY <1>6, <1>9, <1>10 DEF v

\* The events that are watched for.
LEMMA WatchFields ==
  ASSUME NEW w \in Worker, NEW v \in {AddEvent(w, e) : e \in Event}
                                \union {DelEvent(w, e) : e \in Event}
  PROVE  /\ v.free = w.free /\ v.open = w.open /\ v.phase = w.phase
         /\ v.reusable = w.reusable /\ v.idle = w.idle /\ v.ready = w.ready
         /\ v.accepts = w.accepts /\ v.posted = w.posted /\ v.timer = w.timer
         /\ v.timedout = w.timedout
  BY DEF Worker, AddEvent, DelEvent

LEMMA DelBut ==
  ASSUME NEW w, NEW c, NEW e \in {Read(c), Write(c)}, NEW ls, SoundBut(w, c, ls)
  PROVE  LET v == DelEvent(w, e)
         IN /\ SoundBut(v, c, ls)
            /\ v.open = w.open
            /\ v.phase = w.phase /\ v.reusable = w.reusable /\ v.idle = w.idle
            /\ v.active = w.active \ {e}
            /\ v.ready = w.ready /\ v.posted = w.posted /\ v.timer = w.timer
  <1> DEFINE v == DelEvent(w, e)
  <1>1. /\ w \in Worker /\ c \in Clients(w) /\ e \in Event /\ e[1] = c /\ Indexed(w)
    BY ButFacts DEF SoundBut, Core
  <1>2. v \in Worker /\ Indexed(v) /\ v.active = w.active \ {e}
    BY <1>1, DelKeeps
  <1>3. /\ v.free = w.free /\ v.open = w.open /\ v.phase = w.phase
        /\ v.reusable = w.reusable /\ v.idle = w.idle /\ v.ready = w.ready
        /\ v.accepts = w.accepts /\ v.posted = w.posted /\ v.timer = w.timer
    BY <1>1, WatchFields
  <1> HIDE DEF v
  <1>4. Core(v, ls)
    BY <1>1, <1>2, <1>3 DEF SoundBut, Core, Owned, Clients
  <1>5. Apart(w, v, c)
    BY <1>1, <1>2, <1>3 DEF Apart
  <1>6. SoundBut(v, c, ls)
    BY <1>4, <1>5, StillBut
  <1> QED
    BY <1>2, <1>3, <1>6 DEF v

LEMMA AddBut ==
  ASSUME NEW w, NEW c, NEW e \in {Read(c), Write(c)}, NEW ls, SoundBut(w, c, ls), ~ AddFails(w, e)
  PROVE  LET v == AddEvent(w, e)
         IN /\ SoundBut(v, c, ls)
            /\ v.open = w.open
            /\ v.phase = w.phase /\ v.reusable = w.reusable /\ v.idle = w.idle
            /\ v.active = w.active \union {e}
            /\ v.ready = w.ready /\ v.posted = w.posted /\ v.timer = w.timer
  <1> DEFINE v == AddEvent(w, e)
  <1>1. /\ w \in Worker /\ c \in Clients(w) /\ e \in Event /\ e[1] = c /\ Indexed(w)
        /\ e # Write(Listener)
    BY ButFacts DEF SoundBut, Core
  <1>2. v \in Worker /\ Indexed(v) /\ v.active = w.active \union {e}
    BY <1>1, AddKeeps
  <1>3. /\ v.free = w.free /\ v.open = w.open /\ v.phase = w.phase
        /\ v.reusable = w.reusable /\ v.idle = w.idle /\ v.ready = w.ready
        /\ v.accepts = w.accepts /\ v.posted = w.posted /\ v.timer = w.timer
    BY <1>1, WatchFields
  <1> HIDE DEF v
  <1>4. Core(v, ls)
    BY <1>1, <1>2, <1>3 DEF SoundBut, Core, Owned, Clients
  <1>5. Apart(w, v, c)
    BY <1>1, <1>2, <1>3 DEF Apart
  <1>6. SoundBut(v, c, ls)
    BY <1>4, <1>5, StillBut
  <1> QED
    BY <1>2, <1>3, <1>6 DEF v

LEMMA DelIfActiveBut ==
  ASSUME NEW w, NEW c, NEW e \in {Read(c), Write(c)}, NEW ls, SoundBut(w, c, ls)
  PROVE  LET v == DelIfActive(w, e)
         IN /\ SoundBut(v, c, ls)
            /\ v.open = w.open
            /\ v.phase = w.phase /\ v.reusable = w.reusable /\ v.idle = w.idle
            /\ v.active = w.active \ {e}
            /\ v.ready = w.ready /\ v.posted = w.posted /\ v.timer = w.timer
  <1>1. CASE e \in w.active
    <2>1. DelIfActive(w, e) = DelEvent(w, e)
      BY <1>1 DEF DelIfActive
    <2> QED
      BY <2>1, DelBut
  <1>2. CASE e \notin w.active
    <2>1. DelIfActive(w, e) = w
      BY <1>2 DEF DelIfActive
    <2> QED
      BY <1>2, <2>1
  <1> QED
    BY <1>1, <1>2

\* The event of a level-triggered module is watched for when it is not ready.
LEMMA RearmBut ==
  ASSUME NEW w, NEW c, NEW e \in {Read(c), Write(c)}, NEW ls, SoundBut(w, c, ls), ~ RearmFails(w, e)
  PROVE  LET v == Rearm(w, e)
         IN /\ SoundBut(v, c, ls)
            /\ v.open = w.open
            /\ v.phase = w.phase /\ v.reusable = w.reusable /\ v.idle = w.idle
            /\ v.active \union {e} = w.active \union {e}
            /\ e \in v.active <=> e \notin w.ready
            /\ v.ready = w.ready /\ v.posted = w.posted /\ v.timer = w.timer
  <1>1. CASE e \notin w.active /\ e \notin w.ready
    <2>1. Rearm(w, e) = AddEvent(w, e) /\ ~ AddFails(w, e)
      BY <1>1 DEF Rearm, Adds, RearmFails
    <2> QED
      BY <1>1, <2>1, AddBut
  <1>2. CASE e \in w.active /\ e \in w.ready
    <2>1. Rearm(w, e) = DelEvent(w, e)
      BY <1>2 DEF Rearm, Adds
    <2> QED
      BY <1>2, <2>1, DelBut
  <1>3. CASE e \in w.active <=> e \notin w.ready
    <2>1. Rearm(w, e) = w
      BY <1>3 DEF Rearm, Adds
    <2> QED
      BY <1>3, <2>1
  <1> QED
    BY <1>1, <1>2, <1>3

LEMMA UnpostBut ==
  ASSUME NEW w, NEW c, NEW e \in {Read(c), Write(c)}, NEW ls, SoundBut(w, c, ls)
  PROVE  LET v == Unpost(w, e)
         IN /\ SoundBut(v, c, ls)
            /\ v.open = w.open
            /\ v.phase = w.phase /\ v.reusable = w.reusable /\ v.idle = w.idle
            /\ v.active = w.active /\ v.ready = w.ready /\ v.timer = w.timer
            /\ ToSet(v.posted) = ToSet(w.posted) \ {e}
  <1> DEFINE v == Unpost(w, e)
             q == Without(w.posted, e)
             a == Without(w.accepts, e)
  <1>1. /\ w \in Worker /\ c \in Clients(w) /\ e \in Event /\ e[1] = c
        /\ e # Read(Listener) /\ w.posted \in Seq(Event) /\ w.accepts \in Seq(Event)
    BY ButFacts DEF SoundBut, Worker
  <1>2. ToSet(w.accepts) \subseteq {Read(Listener)} /\ IsInjective(w.posted)
    BY DEF SoundBut, Core, Owned
  <1>3. v = [w EXCEPT !.posted = q, !.accepts = a]
    BY DEF Unpost
  <1>4. a = w.accepts
    BY <1>1, <1>2, WithoutHolds
  <1>5. q \in Seq(Event) /\ ToSet(q) = ToSet(w.posted) \ {e} /\ IsInjective(q)
    BY <1>1, <1>2, WithoutHolds
  <1> HIDE DEF v, q, a
  <1>6. /\ v.open = w.open
        /\ v.phase = w.phase /\ v.reusable = w.reusable /\ v.idle = w.idle
        /\ v.active = w.active /\ v.ready = w.ready /\ v.timer = w.timer
        /\ v.posted = q
    BY <1>1, <1>3 DEF Worker
  <1>7. Core(v, ls)
    BY <1>1, <1>3, <1>4, <1>5 DEF SoundBut, Core, Worker, Indexed, Owned, Clients
  <1>8. Apart(w, v, c)
    BY <1>1, <1>3, <1>5 DEF Worker, Apart
  <1>9. SoundBut(v, c, ls)
    BY <1>7, <1>8, StillBut
  <1> QED
    BY <1>5, <1>6, <1>9 DEF v

-----------------------------------------------------------------------------
(***************************************************************************)
(* A handler is done with c when c is served as the others are, or closed. *)
(***************************************************************************)
LEMMA DoneBut ==
  ASSUME NEW w, NEW c, NEW ls, SoundBut(w, c, ls), Served(w, c)
  PROVE  Sound(w, ls)
  BY DEF SoundBut, Sound

LEMMA BeginsBut ==
  ASSUME NEW w, NEW ls, Sound(w, ls), NEW c \in Clients(w)
  PROVE  SoundBut(w, c, ls) /\ Served(w, c)
  BY DEF SoundBut, Sound

LEMMA CloseEnds ==
  ASSUME NEW w, NEW c, NEW ls, SoundBut(w, c, ls)
  PROVE  LET v == Close(w, c)
         IN /\ Sound(v, ls)
            /\ v.open = w.open \ {c}
            /\ v.idle = w.idle \ {c}
            /\ ToSet(v.reusable) = ToSet(w.reusable) \ {c}
            /\ ToSet(v.posted) \subseteq ToSet(w.posted)
  <1> DEFINE a1 == DelTimer(w, Read(c))
             a2 == DelTimer(a1, Write(c))
             a3 == DelIfActive(a2, Read(c))
             a4 == DelIfActive(a3, Write(c))
             a5 == Unpost(a4, Read(c))
             a6 == Unpost(a5, Write(c))
             u == SetReusable(a6, c, FALSE)
             v == Close(w, c)
  <1>0. Read(c) # Write(c)
    BY ButFacts
  <1>1. /\ SoundBut(a1, c, ls) /\ a1.open = w.open /\ a1.idle = w.idle
        /\ a1.timer = w.timer \ {Read(c)}
        /\ a1.posted = w.posted /\ a1.reusable = w.reusable
    BY DelTimerBut
  <1> HIDE DEF a1
  <1>2. /\ SoundBut(a2, c, ls) /\ a2.open = w.open /\ a2.idle = w.idle
        /\ a2.timer = w.timer \ {Read(c), Write(c)}
        /\ a2.posted = w.posted /\ a2.reusable = w.reusable
    BY <1>1, DelTimerBut
  <1> HIDE DEF a2
  <1>3. /\ SoundBut(a3, c, ls) /\ a3.open = w.open /\ a3.idle = w.idle
        /\ a3.timer = w.timer \ {Read(c), Write(c)}
        /\ a3.posted = w.posted /\ Read(c) \notin a3.active /\ a3.reusable = w.reusable
    BY <1>2, DelIfActiveBut
  <1> HIDE DEF a3
  <1>4. /\ SoundBut(a4, c, ls) /\ a4.open = w.open /\ a4.idle = w.idle
        /\ a4.timer = w.timer \ {Read(c), Write(c)}
        /\ a4.posted = w.posted /\ Read(c) \notin a4.active /\ Write(c) \notin a4.active
        /\ a4.reusable = w.reusable
    BY <1>3, DelIfActiveBut
  <1> HIDE DEF a4
  <1>5. /\ SoundBut(a5, c, ls) /\ a5.open = w.open /\ a5.idle = w.idle
        /\ a5.timer = w.timer \ {Read(c), Write(c)}
        /\ Read(c) \notin a5.active /\ Write(c) \notin a5.active
        /\ ToSet(a5.posted) = ToSet(w.posted) \ {Read(c)} /\ a5.reusable = w.reusable
    BY <1>4, UnpostBut
  <1> HIDE DEF a5
  <1>6. /\ SoundBut(a6, c, ls) /\ a6.open = w.open /\ a6.idle = w.idle
        /\ a6.timer = w.timer \ {Read(c), Write(c)}
        /\ Read(c) \notin a6.active /\ Write(c) \notin a6.active
        /\ ToSet(a6.posted) = ToSet(w.posted) \ {Read(c), Write(c)}
        /\ a6.reusable = w.reusable
    BY <1>5, UnpostBut
  <1> HIDE DEF a6
  <1>7. /\ SoundBut(u, c, ls) /\ u.open = w.open /\ u.idle = w.idle
        /\ u.timer = w.timer \ {Read(c), Write(c)}
        /\ Read(c) \notin u.active /\ Write(c) \notin u.active
        /\ ToSet(u.posted) = ToSet(w.posted) \ {Read(c), Write(c)}
        /\ ToSet(u.reusable) = ToSet(w.reusable) \ {c}
    <2>1. /\ SoundBut(u, c, ls) /\ u.open = a6.open /\ u.phase = a6.phase /\ u.idle = a6.idle
          /\ u.active = a6.active /\ u.ready = a6.ready /\ u.posted = a6.posted
          /\ u.timer = a6.timer /\ ToSet(u.reusable) = ToSet(a6.reusable) \ {c}
      BY <1>6, SetReusableBut
    <2> HIDE DEF u
    <2> QED
      BY <1>6, <2>1
  <1>8. v = [u EXCEPT !.free = <<c>> \o @, !.open = @ \ {c}, !.phase[c] = "none",
                      !.ready = @ \ {Read(c), Write(c)}, !.idle = @ \ {c}]
    BY DEF Close, FreeConnection, u, a6, a5, a4, a3, a2, a1
  <1> HIDE DEF u, v
  <1>9. /\ u \in Worker /\ Core(u, ls) /\ c \in Clients(u) /\ c \in Conn /\ c # Listener
        /\ w.open \subseteq Conn /\ u.free \in Seq(Conn)
    BY <1>7, ButFacts DEF SoundBut, Core, Worker
  <1> DEFINE f == <<c>> \o u.free
  <1>10. f \in Seq(Conn) /\ ToSet(f) = Conn \ (u.open \ {c}) /\ IsInjective(f)
    <2>1. IsInjective(u.free) /\ ToSet(u.free) = Conn \ u.open /\ c \in u.open
      BY <1>9 DEF Core, Owned, Clients
    <2>2. f \in Seq(Conn) /\ ToSet(f) = ToSet(u.free) \union {c} /\ IsInjective(f)
      BY <1>9, <2>1, ConsHolds
    <2> QED
      BY <1>9, <2>1, <2>2
  <1>11. v = [u EXCEPT !.free = f, !.open = @ \ {c}, !.phase[c] = "none",
                       !.ready = @ \ {Read(c), Write(c)}, !.idle = @ \ {c}]
    BY <1>8
  <1> HIDE DEF f
  <1>12. /\ v \in Worker /\ v.free = f /\ v.open = u.open \ {c}
         /\ v.phase = [u.phase EXCEPT ![c] = "none"]
         /\ v.reusable = u.reusable /\ v.idle = u.idle \ {c}
         /\ v.list = u.list /\ v.index = u.index /\ v.active = u.active /\ v.max = u.max
         /\ v.ready = u.ready \ {Read(c), Write(c)} /\ v.accepts = u.accepts
         /\ v.posted = u.posted /\ v.timer = u.timer
    <2>1. "none" \in Phases
      BY DEF Phases
    <2> QED
      BY <1>9, <1>10, <1>11, <2>1 DEF Worker
  <1>13. \A e \in Event : e[1] # c \/ e \in {Read(c), Write(c)}
    BY Events
  <1>14. Owned(v)
    <2>1. Owned(u) /\ u.active \subseteq Event /\ u.ready \subseteq Event
          /\ u.timer \subseteq Event /\ ToSet(u.posted) \subseteq Event
      BY <1>9, Places DEF Core, Worker
    <2>2. Listener \in v.open => v.phase[Listener] = "listen"
      BY <1>9, <1>12, <2>1 DEF Owned, Worker
    <2>3. ToSet(v.reusable) \subseteq v.open \ {Listener} /\ v.idle \subseteq v.open \ {Listener}
      BY <1>7, <1>12, <2>1 DEF Owned
    <2>4. /\ \A e \in v.active : e[1] \in v.open /\ e # Write(Listener)
          /\ \A e \in v.ready : e[1] \in v.open \ {Listener} \/ e = Read(Listener)
          /\ \A e \in v.timer : e[1] \in v.open \ {Listener} \/ e = Read(Listener)
          /\ \A e \in ToSet(v.posted) : e[1] \in v.open \ {Listener}
      BY <1>7, <1>12, <1>13, <2>1 DEF Owned
    <2> QED
      BY <1>10, <1>12, <2>1, <2>2, <2>3, <2>4 DEF Owned
  <1>15. Core(v, ls)
    BY <1>9, <1>12, <1>14 DEF Core, Indexed
  <1>16. ASSUME NEW d \in Clients(v)
         PROVE  Served(v, d)
    <2>1. d \in Clients(u) \ {c} /\ d \in Conn
      BY <1>9, <1>12, <1>16 DEF Clients, Worker
    <2>2. Served(u, d)
      BY <1>7, <2>1 DEF SoundBut
    <2> QED
      BY <1>9, <1>12, <2>1, <2>2 DEF Served, Worker
  <1>17. Sound(v, ls)
    BY <1>15, <1>16 DEF Sound
  <1> QED
    BY <1>7, <1>12, <1>17 DEF v

-----------------------------------------------------------------------------
(***************************************************************************)
(* The handlers of a client: whatever they do, c is served or closed.      *)
(***************************************************************************)

\* A handler has taken c from the queue of reusable connections.
Busy(w, c) == c \notin ToSet(w.reusable) /\ c \notin w.idle

\* c is served but for the event its phase waits for.
Timed(w, c) ==
  /\ w.phase[c] \in {"wait", "header", "request", "keepalive", "lingering"}
  /\ c \in ToSet(w.reusable) <=> w.phase[c] \in {"wait", "keepalive"}
  /\ c \in w.idle <=> w.phase[c] = "keepalive"
  /\ w.phase[c] \in {"wait", "keepalive", "lingering"} => Read(c) \in w.timer
  /\ w.phase[c] = "header" => Read(c) \in w.timer \union ToSet(w.posted)
  /\ w.phase[c] = "request" => Write(c) \in w.timer

LEMMA TimedServed ==
  ASSUME NEW w, NEW c, Timed(w, c),
         w.phase[c] # "request" => Read(c) \in w.active \union ToSet(w.posted),
         w.phase[c] = "request" => Write(c) \in w.active
  PROVE  Served(w, c)
  BY DEF Timed, Served

LEMMA RearmOrCloseEnds ==
  ASSUME NEW w, NEW c, NEW ls, SoundBut(w, c, ls), Timed(w, c), NEW e, e \notin w.ready,
         e = IF w.phase[c] = "request" THEN Write(c) ELSE Read(c)
  PROVE  Sound(RearmOrClose(w, c, e), ls)
  <1>1. CASE RearmFails(w, e)
    BY <1>1, CloseEnds DEF RearmOrClose
  <1>2. CASE ~ RearmFails(w, e)
    <2> DEFINE v == Rearm(w, e)
    <2>1. e \in {Read(c), Write(c)}
      OBVIOUS
    <2>2. /\ SoundBut(v, c, ls) /\ v.phase = w.phase /\ v.reusable = w.reusable
          /\ v.idle = w.idle /\ e \in v.active /\ v.posted = w.posted /\ v.timer = w.timer
      BY <1>2, <2>1, RearmBut
    <2>3. RearmOrClose(w, c, e) = v
      BY <1>2 DEF RearmOrClose
    <2> HIDE DEF v
    <2>4. Timed(v, c)
      BY <2>2 DEF Timed
    <2>5. Served(v, c)
      BY <2>2, <2>4, TimedServed
    <2> QED
      BY <2>2, <2>3, <2>5, DoneBut
  <1> QED
    BY <1>1, <1>2

LEMMA LingeringEnds ==
  ASSUME NEW w, NEW c, NEW ls, SoundBut(w, c, ls), Busy(w, c), w.phase[c] = "lingering"
  PROVE  \A v \in LingeringHandler(w, c) : Sound(v, ls)
  <1> DEFINE a1 == NotReady(w, Read(c))
             a2 == AddTimer(a1, Read(c))
  <1>1. /\ SoundBut(a1, c, ls) /\ a1.phase = w.phase /\ a1.reusable = w.reusable
        /\ a1.idle = w.idle /\ Read(c) \notin a1.ready
    BY NotReadyBut
  <1> HIDE DEF a1
  <1>2. /\ SoundBut(a2, c, ls) /\ a2.phase = w.phase /\ a2.reusable = w.reusable
        /\ a2.idle = w.idle /\ Read(c) \notin a2.ready /\ Read(c) \in a2.timer
    BY <1>1, AddTimerBut
  <1>3. LingeringHandler(w, c) = {Close(w, c), RearmOrClose(a2, c, Read(c))}
    BY DEF LingeringHandler, a1
  <1> HIDE DEF a2
  <1>4. Timed(a2, c)
    BY <1>2 DEF Timed, Busy
  <1>5. Sound(RearmOrClose(a2, c, Read(c)), ls)
    BY <1>2, <1>4, RearmOrCloseEnds
  <1> QED
    BY <1>3, <1>5, CloseEnds

LEMMA SetLingeringEnds ==
  ASSUME NEW w, NEW c, NEW ls, SoundBut(w, c, ls), Busy(w, c)
  PROVE  \A v \in SetLingering(w, c) : Sound(v, ls)
  <1> DEFINE a0 == [w EXCEPT !.phase[c] = "lingering"]
             a1 == AddTimer(a0, Read(c))
             a2 == Rearm(a1, Read(c))
             a3 == DelIfActive(a2, Write(c))
  <1>0. /\ SoundBut(a0, c, ls) /\ a0.phase[c] = "lingering" /\ a0.reusable = w.reusable
        /\ a0.idle = w.idle
    <2>1. "lingering" \in Phases /\ w.phase \in [Conn -> Phases] /\ c \in Conn
      BY ButFacts DEF Phases, Worker
    <2> QED
      BY <2>1, PhaseBut
  <1> HIDE DEF a0
  <1>1. /\ SoundBut(a1, c, ls) /\ a1.phase[c] = "lingering" /\ a1.reusable = w.reusable
        /\ a1.idle = w.idle /\ Read(c) \in a1.timer
    BY <1>0, AddTimerBut
  <1>2. CASE RearmFails(a1, Read(c))
    <2>1. SetLingering(w, c) = {Close(w, c)}
      BY <1>2 DEF SetLingering, a0
    <2> QED
      BY <2>1, CloseEnds
  <1>3. CASE ~ RearmFails(a1, Read(c))
    <2>1. SetLingering(w, c) = IF Read(c) \in a3.ready THEN LingeringHandler(a3, c) ELSE {a3}
      BY <1>3 DEF SetLingering, a0
    <2> HIDE DEF a1
    <2>2. /\ SoundBut(a2, c, ls) /\ a2.phase[c] = "lingering" /\ a2.reusable = w.reusable
          /\ a2.idle = w.idle /\ Read(c) \in a2.timer
          /\ Read(c) \notin a2.ready => Read(c) \in a2.active
      BY <1>1, <1>3, RearmBut
    <2> HIDE DEF a2
    <2>3. /\ SoundBut(a3, c, ls) /\ a3.phase[c] = "lingering" /\ a3.reusable = w.reusable
          /\ a3.idle = w.idle /\ Read(c) \in a3.timer
          /\ Read(c) \notin a3.ready => Read(c) \in a3.active
      BY <2>2, DelIfActiveBut, ButFacts
    <2> HIDE DEF a3
    <2>4. Busy(a3, c)
      BY <2>3 DEF Busy
    <2>5. CASE Read(c) \in a3.ready
      BY <2>1, <2>3, <2>4, <2>5, LingeringEnds
    <2>6. CASE Read(c) \notin a3.ready
      <3>1. Served(a3, c)
        BY <2>3, <2>4, <2>6 DEF Served, Busy
      <3> QED
        BY <2>1, <2>3, <2>6, <3>1, DoneBut
    <2> QED
      BY <2>5, <2>6
  <1> QED
    BY <1>2, <1>3

\* The end of ngx_http_set_keepalive(): c waits for its next request.
LEMMA KeptEnds ==
  ASSUME NEW w, NEW c, NEW ls, SoundBut(w, c, ls), w.phase[c] = "keepalive", c \in w.idle,
         Read(c) \in w.ready \union w.active
  PROVE  LET v == AddTimer(SetReusable(w, c, TRUE), Read(c))
         IN Sound(IF Read(c) \in v.ready THEN Post(v, Read(c)) ELSE v, ls)
  <1> DEFINE a == SetReusable(w, c, TRUE)
             b == AddTimer(a, Read(c))
             p == Post(b, Read(c))
  <1>1. /\ SoundBut(a, c, ls) /\ a.phase = w.phase /\ a.idle = w.idle
        /\ a.active = w.active /\ a.ready = w.ready /\ c \in ToSet(a.reusable)
    BY SetReusableBut, ZenonT(40)
  <1> HIDE DEF a
  <1>2. /\ SoundBut(b, c, ls) /\ b.phase = a.phase /\ b.idle = a.idle /\ b.ready = a.ready
        /\ b.active = a.active /\ b.reusable = a.reusable /\ Read(c) \in b.timer
    BY <1>1, AddTimerBut
  <1> HIDE DEF b
  <1>3. /\ SoundBut(p, c, ls) /\ Read(c) \in ToSet(p.posted) /\ p.phase = b.phase
        /\ p.idle = b.idle /\ p.reusable = b.reusable /\ p.timer = b.timer
    BY <1>2, PostBut
  <1> HIDE DEF p
  <1>4. CASE Read(c) \in b.ready
    <2>1. Served(p, c)
      BY <1>1, <1>2, <1>3 DEF Served
    <2> QED
      BY <1>3, <1>4, <2>1, DoneBut DEF a, b, p
  <1>5. CASE Read(c) \notin b.ready
    <2>1. Served(b, c)
      BY <1>1, <1>2, <1>5 DEF Served
    <2> QED
      BY <1>2, <1>5, <2>1, DoneBut DEF a, b
  <1> QED
    BY <1>4, <1>5

LEMMA SetKeepaliveEnds ==
  ASSUME NEW w, NEW c, NEW ls, SoundBut(w, c, ls), Busy(w, c), ~ exiting
  PROVE  \A v \in SetKeepalive(w, c) : Sound(v, ls)
  <1> DEFINE a1 == Rearm(w, Read(c))
             b1 == DelIfActive(a1, Write(c))
             b2 == [b1 EXCEPT !.phase[c] = "keepalive", !.idle = @ \union {c}]
             b4 == AddTimer(SetReusable(b2, c, TRUE), Read(c))
             b5 == IF Read(c) \in b4.ready THEN Post(b4, Read(c)) ELSE b4
             p1 == [a1 EXCEPT !.phase[c] = "header"]
             p2 == DelTimer(p1, Read(c))
             p3 == Post(p2, Read(c))
  <1>0. Read(c) # Write(c) /\ c \in Conn
    BY ButFacts
  <1>1. CASE RearmFails(w, Read(c))
    <2>1. SetKeepalive(w, c) = {Close(w, c)}
      BY <1>1 DEF SetKeepalive
    <2> QED
      BY <2>1, CloseEnds
  <1>2. CASE ~ RearmFails(w, Read(c))
    <2>1. SetKeepalive(w, c) = {b5, p3}
      BY <1>2 DEF SetKeepalive
    <2>2. /\ SoundBut(a1, c, ls) /\ a1.reusable = w.reusable /\ a1.idle = w.idle
          /\ Read(c) \notin a1.ready => Read(c) \in a1.active
      BY <1>2, RearmBut
    <2> HIDE DEF a1
    <2>3. /\ SoundBut(b1, c, ls)
          /\ Read(c) \in b1.ready \union b1.active
      BY <1>0, <2>2, DelIfActiveBut
    <2> HIDE DEF b1
    <2>4. /\ SoundBut(b2, c, ls) /\ Read(c) \in b2.ready \union b2.active
          /\ b2.phase[c] = "keepalive" /\ c \in b2.idle
      <3>1. b1.phase \in [Conn -> Phases]
        BY <2>3, ButFacts DEF Worker
      <3>2. /\ SoundBut(b2, c, ls) /\ b2.phase = [b1.phase EXCEPT ![c] = "keepalive"]
            /\ b2.idle = b1.idle \union {c} /\ b2.active = b1.active /\ b2.ready = b1.ready
        BY <2>3, IdleBut
      <3> HIDE DEF b2
      <3> QED
        BY <1>0, <2>3, <3>1, <3>2
    <2> HIDE DEF b2
    <2>5. Sound(b5, ls)
      BY <2>4, KeptEnds
    <2> HIDE DEF b5
    <2>8. /\ SoundBut(p1, c, ls) /\ p1.phase[c] = "header"
          /\ p1.reusable = w.reusable /\ p1.idle = w.idle
      <3>1. a1.phase \in [Conn -> Phases] /\ "header" \in Phases
        BY <2>2, ButFacts DEF Worker, Phases
      <3> QED
        BY <1>0, <2>2, <3>1, PhaseBut
    <2> HIDE DEF p1
    <2>9. /\ SoundBut(p2, c, ls) /\ p2.phase[c] = "header"
          /\ p2.reusable = w.reusable /\ p2.idle = w.idle
      BY <2>8, DelTimerBut
    <2> HIDE DEF p2
    <2>10. /\ SoundBut(p3, c, ls) /\ p3.phase[c] = "header" /\ Read(c) \in ToSet(p3.posted)
           /\ p3.reusable = w.reusable /\ p3.idle = w.idle
      BY <2>9, PostBut
    <2> HIDE DEF p3
    <2>11. Sound(p3, ls)
      <3>1. Served(p3, c)
        BY <2>10 DEF Served, Busy
      <3> QED
        BY <2>10, <3>1, DoneBut
    <2> QED
      BY <2>1, <2>5, <2>11
  <1> QED
    BY <1>1, <1>2

LEMMA FinalizeEnds ==
  ASSUME NEW w, NEW c, NEW ls, SoundBut(w, c, ls), Busy(w, c)
  PROVE  \A v \in Finalize(w, c) : Sound(v, ls)
  <1> DEFINE a1 == DelTimer(w, Read(c))
             a2 == DelTimer(a1, Write(c))
  <1>1. SoundBut(a1, c, ls) /\ Busy(a1, c)
    BY DelTimerBut DEF Busy
  <1> HIDE DEF a1
  <1>2. SoundBut(a2, c, ls) /\ Busy(a2, c)
    BY <1>1, DelTimerBut DEF Busy
  <1>3. Finalize(w, c) = {Close(a2, c)} \union SetLingering(a2, c)
                           \union (IF exiting THEN {} ELSE SetKeepalive(a2, c))
    BY DEF Finalize, a1
  <1> HIDE DEF a2
  <1>4. Sound(Close(a2, c), ls) /\ \A v \in SetLingering(a2, c) : Sound(v, ls)
    BY <1>2, CloseEnds, SetLingeringEnds
  <1>5. ~ exiting => \A v \in SetKeepalive(a2, c) : Sound(v, ls)
    BY <1>2, SetKeepaliveEnds
  <1> QED
    BY <1>3, <1>4, <1>5

LEMMA BlockedEnds ==
  ASSUME NEW w, NEW c, NEW ls, SoundBut(w, c, ls), Busy(w, c), w.phase[c] = "request"
  PROVE  Sound(Blocked(w, c), ls)
  <1> DEFINE a1 == NotReady(w, Write(c))
             a2 == AddTimer(a1, Write(c))
  <1>1. /\ SoundBut(a1, c, ls) /\ a1.phase = w.phase /\ a1.reusable = w.reusable
        /\ a1.idle = w.idle /\ Write(c) \notin a1.ready
    BY NotReadyBut
  <1> HIDE DEF a1
  <1>2. /\ SoundBut(a2, c, ls) /\ a2.phase = w.phase /\ a2.reusable = w.reusable
        /\ a2.idle = w.idle /\ Write(c) \notin a2.ready /\ Write(c) \in a2.timer
    BY <1>1, AddTimerBut
  <1>3. Blocked(w, c) = RearmOrClose(a2, c, Write(c))
    BY DEF Blocked, a1
  <1> HIDE DEF a2
  <1>4. Timed(a2, c)
    BY <1>2 DEF Timed, Busy
  <1> QED
    BY <1>2, <1>3, <1>4, RearmOrCloseEnds

LEMMA OutputEnds ==
  ASSUME NEW w, NEW c, NEW ls, SoundBut(w, c, ls), Busy(w, c), w.phase[c] = "request"
  PROVE  \A v \in Output(w, c) : Sound(v, ls)
  BY BlockedEnds, CloseEnds, FinalizeEnds DEF Output

LEMMA ProcessEnds ==
  ASSUME NEW w, NEW c, NEW ls, SoundBut(w, c, ls), Busy(w, c)
  PROVE  \A v \in Process(w, c) : Sound(v, ls)
  <1> DEFINE a0 == [w EXCEPT !.phase[c] = "request"]
             a1 == DelTimer(a0, Read(c))
  <1>1. SoundBut(a0, c, ls) /\ a0.phase[c] = "request" /\ Busy(a0, c)
    <2>1. "request" \in Phases /\ w.phase \in [Conn -> Phases] /\ c \in Conn
      BY ButFacts DEF Phases, Worker
    <2> QED
      BY <2>1, PhaseBut DEF Busy
  <1> HIDE DEF a0
  <1>2. SoundBut(a1, c, ls) /\ a1.phase[c] = "request" /\ Busy(a1, c)
    BY <1>1, DelTimerBut DEF Busy
  <1>3. Process(w, c) = Output(a1, c)
    BY DEF Process, a0
  <1> HIDE DEF a1
  <1> QED
    BY <1>2, <1>3, OutputEnds

LEMMA AwaitEnds ==
  ASSUME NEW w, NEW c, NEW ls, SoundBut(w, c, ls), Busy(w, c)
  PROVE  Sound(Await(w, c), ls)
  <1> DEFINE a0 == NotReady(w, Read(c))
             a1 == [a0 EXCEPT !.phase[c] = "header"]
             a2 == AddTimer(a1, Read(c))
  <1>1. SoundBut(a0, c, ls) /\ Busy(a0, c) /\ Read(c) \notin a0.ready
    BY NotReadyBut DEF Busy
  <1> HIDE DEF a0
  <1>2. SoundBut(a1, c, ls) /\ a1.phase[c] = "header" /\ Busy(a1, c) /\ Read(c) \notin a1.ready
    <2>1. "header" \in Phases /\ a0.phase \in [Conn -> Phases] /\ c \in Conn
      BY <1>1, ButFacts DEF Phases, Worker
    <2> QED
      BY <1>1, <2>1, PhaseBut DEF Busy
  <1> HIDE DEF a1
  <1>3. /\ SoundBut(a2, c, ls) /\ a2.phase[c] = "header" /\ Busy(a2, c)
        /\ Read(c) \notin a2.ready /\ Read(c) \in a2.timer
    BY <1>2, AddTimerBut DEF Busy
  <1>4. Await(w, c) = RearmOrClose(a2, c, Read(c))
    BY DEF Await, a0, a1
  <1> HIDE DEF a2
  <1>5. Timed(a2, c)
    BY <1>3 DEF Timed, Busy
  <1> QED
    BY <1>3, <1>4, <1>5, RearmOrCloseEnds

\* After bytes were received.
LEMMA ReceivedBut ==
  ASSUME NEW w, NEW c, NEW ls, SoundBut(w, c, ls)
  PROVE  \A v \in Received(w, c) : /\ SoundBut(v, c, ls) /\ v.phase = w.phase
                                   /\ v.reusable = w.reusable /\ v.idle = w.idle
  <1>1. \A v \in {NotReady(w, Read(c))} : /\ SoundBut(v, c, ls) /\ v.phase = w.phase
                                          /\ v.reusable = w.reusable /\ v.idle = w.idle
    BY NotReadyBut
  <1> QED
    BY <1>1 DEF Received

LEMMA ReadHeaderEnds ==
  ASSUME NEW w, NEW c, NEW ls, SoundBut(w, c, ls), Busy(w, c)
  PROVE  \A v \in ReadHeader(w, c) : Sound(v, ls)
  <1>1. ASSUME NEW u \in Received(w, c), NEW v \in Process(u, c)
        PROVE  Sound(v, ls)
    <2>1. SoundBut(u, c, ls) /\ Busy(u, c)
      BY ReceivedBut DEF Busy
    <2> QED
      BY <2>1, ProcessEnds
  <1> QED
    BY <1>1, AwaitEnds, CloseEnds DEF ReadHeader

LEMMA WaitEnds ==
  ASSUME NEW w, NEW c, NEW ls, SoundBut(w, c, ls), Timed(w, c), w.phase[c] = "wait"
  PROVE  \A v \in WaitHandler(w, c) : Sound(v, ls)
  <1> DEFINE none == NotReady(w, Read(c))
             a1 == AddTimer(none, Read(c))
             a2 == SetReusable(a1, c, TRUE)
             busy(u) == SetReusable(u, c, FALSE)
             again == IF Read(c) \in w.timer THEN none ELSE a2
  <1>1. Read(c) \in w.timer
    BY DEF Timed
  <1>2. /\ SoundBut(none, c, ls) /\ none.phase = w.phase /\ none.reusable = w.reusable
        /\ none.idle = w.idle /\ none.timer = w.timer /\ none.posted = w.posted
        /\ Read(c) \notin none.ready
    BY NotReadyBut
  <1>3. again = none
    BY <1>1
  <1>4. WaitHandler(w, c) = {Close(w, c), RearmOrClose(again, c, Read(c))}
          \union UNION {ReadHeader(busy(u), c) : u \in Received(w, c)}
    BY DEF WaitHandler
  <1> HIDE DEF none, again
  <1>5. Timed(none, c)
    BY <1>2 DEF Timed
  <1>6. Sound(RearmOrClose(again, c, Read(c)), ls)
    BY <1>2, <1>3, <1>5, RearmOrCloseEnds
  <1>7. ASSUME NEW u \in Received(w, c), NEW v \in ReadHeader(busy(u), c)
        PROVE  Sound(v, ls)
    <2> DEFINE x == SetReusable(u, c, FALSE)
    <2>1. SoundBut(u, c, ls) /\ u.idle = w.idle
      BY ReceivedBut
    <2>2. SoundBut(x, c, ls) /\ x.idle = u.idle /\ ToSet(x.reusable) = ToSet(u.reusable) \ {c}
      BY <2>1, SetReusableBut
    <2> HIDE DEF x
    <2>3. Busy(x, c)
      BY <2>1, <2>2 DEF Busy, Timed
    <2> QED
      BY <1>7, <2>2, <2>3, ReadHeaderEnds DEF x
  <1> HIDE DEF busy
  <1> QED
    BY <1>4, <1>6, <1>7, CloseEnds

LEMMA KeepaliveEnds ==
  ASSUME NEW w, NEW c, NEW ls, SoundBut(w, c, ls), Timed(w, c), w.phase[c] = "keepalive"
  PROVE  \A v \in KeepaliveHandler(w, c) : Sound(v, ls)
  <1> DEFINE none == NotReady(w, Read(c))
             busy(u) == DelTimer(SetReusable([u EXCEPT !.idle = @ \ {c}], c, FALSE), Read(c))
  <1>1. /\ SoundBut(none, c, ls) /\ none.phase = w.phase /\ none.reusable = w.reusable
        /\ none.idle = w.idle /\ none.timer = w.timer /\ none.posted = w.posted
        /\ Read(c) \notin none.ready
    BY NotReadyBut
  <1>2. KeepaliveHandler(w, c) = {Close(w, c), RearmOrClose(none, c, Read(c))}
          \union UNION {ReadHeader(busy(u), c) : u \in Received(w, c)}
    BY DEF KeepaliveHandler
  <1> HIDE DEF none
  <1>3. Timed(none, c)
    BY <1>1 DEF Timed
  <1>4. Sound(RearmOrClose(none, c, Read(c)), ls)
    BY <1>1, <1>3, RearmOrCloseEnds
  <1>5. ASSUME NEW u \in Received(w, c), NEW v \in ReadHeader(busy(u), c)
        PROVE  Sound(v, ls)
    <2> DEFINE x == [u EXCEPT !.idle = @ \ {c}]
               y == SetReusable(x, c, FALSE)
               z == DelTimer(y, Read(c))
    <2>1. SoundBut(u, c, ls)
      BY ReceivedBut
    <2>2. SoundBut(x, c, ls) /\ x.idle = u.idle \ {c}
      BY <2>1, BusyBut
    <2> HIDE DEF x
    <2>3. SoundBut(y, c, ls) /\ y.idle = x.idle /\ ToSet(y.reusable) = ToSet(x.reusable) \ {c}
      BY <2>2, SetReusableBut
    <2> HIDE DEF y
    <2>4. SoundBut(z, c, ls) /\ z.idle = y.idle /\ z.reusable = y.reusable
      BY <2>3, DelTimerBut
    <2>5. v \in ReadHeader(z, c)
      BY <1>5 DEF x, y
    <2> HIDE DEF z
    <2>6. Busy(z, c)
      BY <2>2, <2>3, <2>4 DEF Busy
    <2> QED
      BY <2>4, <2>5, <2>6, ReadHeaderEnds
  <1> HIDE DEF busy
  <1> QED
    BY <1>2, <1>4, <1>5, CloseEnds

LEMMA TestReadingEnds ==
  ASSUME NEW w, NEW c, NEW ls, SoundBut(w, c, ls), Served(w, c), w.phase[c] = "request"
  PROVE  \A v \in TestReading(w, c) : Sound(v, ls)
  <1> DEFINE a == DelIfActive(w, Read(c))
  <1>1. /\ SoundBut(a, c, ls) /\ a.phase = w.phase /\ a.reusable = w.reusable /\ a.idle = w.idle
        /\ a.active = w.active \ {Read(c)} /\ a.timer = w.timer
    BY DelIfActiveBut
  <1> HIDE DEF a
  <1>2. Served(a, c)
    BY <1>1, ButFacts DEF Served
  <1>3. Sound(a, ls)
    BY <1>1, <1>2, DoneBut
  <1> QED
    BY <1>3, CloseEnds DEF TestReading, a

\* The handler of the first posted event, which has left the queue.
LEMMA HandlerEnds ==
  ASSUME NEW w, NEW ls, Sound(w, ls), w.posted # <<>>
  PROVE  \A v \in Handler([w EXCEPT !.posted = Tail(@)], Head(w.posted)) : Sound(v, ls)
  <1> DEFINE q == Tail(w.posted)
             e == Head(w.posted)
             c == e[1]
             u == [w EXCEPT !.posted = q]
  <1>1. w \in Worker /\ Owned(w) /\ w.posted \in Seq(Event)
    BY DEF Sound, Core, Worker
  <1>2. /\ q \in Seq(Event) /\ e \in ToSet(w.posted) /\ e \in Event
        /\ ToSet(q) \subseteq ToSet(w.posted)
        /\ ToSet(w.posted) = ToSet(q) \union {e} /\ IsInjective(q) /\ e \notin ToSet(q)
    BY <1>1, TailHolds, Places DEF Owned
  <1>3. /\ c \in Clients(w) /\ c \in Conn /\ e \in {Read(c), Write(c)}
        /\ Read(c) # Write(c) /\ Read(c)[1] = c /\ Write(c)[1] = c
    BY <1>1, <1>2, Events, Names DEF Owned, Clients
  <1>4. Served(w, c)
    BY <1>3 DEF Sound
  <1>5. u = [w EXCEPT !.posted = q]
    OBVIOUS
  <1> HIDE DEF q, e, u
  <1>6. /\ u \in Worker /\ u.open = w.open /\ u.phase = w.phase /\ u.reusable = w.reusable
        /\ u.idle = w.idle /\ u.active = w.active /\ u.ready = w.ready /\ u.timer = w.timer
        /\ u.posted = q
    BY <1>1, <1>2, <1>5 DEF Worker
  <1>7. Core(u, ls)
    BY <1>1, <1>2, <1>5 DEF Sound, Core, Worker, Indexed, Owned
  <1>8. SoundBut(u, c, ls)
    <2>1. ASSUME NEW d \in Clients(u) \ {c}
          PROVE  Served(u, d)
      <3>1. Served(w, d) /\ d \in Conn
        BY <1>1, <1>6, <2>1 DEF Sound, Clients, Worker
      <3>2. Read(d) # e /\ Write(d) # e
        BY <2>1, <3>1, Events
      <3> QED
        BY <1>2, <1>6, <3>1, <3>2 DEF Served
    <2> QED
      BY <1>3, <1>6, <1>7, <2>1 DEF SoundBut, Clients
  <1>9. SUFFICES ASSUME NEW v \in Handler(u, e)
                 PROVE  Sound(v, ls)
    BY DEF u, e, q
  <1>10. CASE u.phase[c] = "request"
    <2>1. Served(u, c) /\ Busy(u, c)
      BY <1>4, <1>6, <1>10 DEF Served, Busy
    <2>2. Handler(u, e) = IF e = Write(c) THEN Output(u, c) ELSE TestReading(u, c)
      BY <1>10 DEF Handler
    <2> QED
      BY <1>8, <1>9, <1>10, <2>1, <2>2, OutputEnds, TestReadingEnds
  <1>11. CASE u.phase[c] # "request" /\ e = Write(c)
    <2>1. Served(u, c)
      BY <1>2, <1>3, <1>4, <1>6, <1>11 DEF Served
    <2>2. Handler(u, e) = {u}
      BY <1>3, <1>11 DEF Handler
    <2> QED
      BY <1>8, <1>9, <2>1, <2>2, DoneBut
  <1>12. CASE u.phase[c] # "request" /\ e = Read(c)
    <2>1. u.phase[c] \in {"wait", "header", "keepalive", "lingering"}
      BY <1>4, <1>6, <1>12 DEF Served
    <2>2. CASE u.phase[c] = "wait"
      <3>1. Timed(u, c)
        BY <1>4, <1>6, <2>2 DEF Served, Timed
      <3>2. Handler(u, e) = WaitHandler(u, c)
        BY <1>3, <1>12, <2>2 DEF Handler
      <3> QED
        BY <1>8, <1>9, <2>2, <3>1, <3>2, WaitEnds
    <2>3. CASE u.phase[c] = "keepalive"
      <3>1. Timed(u, c)
        BY <1>4, <1>6, <2>3 DEF Served, Timed
      <3>2. Handler(u, e) = KeepaliveHandler(u, c)
        BY <1>3, <1>12, <2>3 DEF Handler
      <3> QED
        BY <1>8, <1>9, <2>3, <3>1, <3>2, KeepaliveEnds
    <2>4. CASE u.phase[c] = "header"
      <3>1. Busy(u, c)
        BY <1>4, <1>6, <2>4 DEF Served, Busy
      <3>2. Handler(u, e) = ReadHeader(u, c)
        BY <1>3, <1>12, <2>4 DEF Handler
      <3> QED
        BY <1>8, <1>9, <3>1, <3>2, ReadHeaderEnds
    <2>5. CASE u.phase[c] = "lingering"
      <3>1. Busy(u, c)
        BY <1>4, <1>6, <2>5 DEF Served, Busy
      <3>2. Handler(u, e) = LingeringHandler(u, c)
        BY <1>3, <1>12, <2>5 DEF Handler
      <3> QED
        BY <1>8, <1>9, <2>5, <3>1, <3>2, LingeringEnds
    <2> QED
      BY <2>1, <2>2, <2>3, <2>4, <2>5
  <1> QED
    BY <1>3, <1>10, <1>11, <1>12

-----------------------------------------------------------------------------
(***************************************************************************)
(* The loops over connections and events, which go through the states      *)
(* f[0], f[1], ...                                                         *)
(***************************************************************************)
\* ngx_drain_connections()
LEMMA DrainSteps ==
  ASSUME NEW w, DrainCount(w) \in Nat
  PROVE  \E f : /\ Drain(w) = f[DrainCount(w)] /\ f[0] = w
              /\ \A i \in 1 .. DrainCount(w) :
                   f[i] = IF f[i - 1].reusable = <<>>
                          THEN f[i - 1]
                          ELSE CloseIdle(f[i - 1], Last(f[i - 1].reusable))
  <1> DEFINE n == DrainCount(w)
             Step(v, i) == IF v.reusable = <<>>
                           THEN v ELSE CloseIdle(v, Last(v.reusable))
             Good(f, m) == f = [i \in 0 .. m |-> IF i = 0 THEN w ELSE Step(f[i - 1], i)]
             T == {m \in 0 .. n : \E f : Good(f, m)}
  <1>1. Drain(w) = (CHOOSE f : Good(f, n))[n]
    BY DEF Drain
  <1> HIDE DEF Step
  <1>a. n \in Nat
    OBVIOUS
  <1> HIDE DEF n
  <1>2. 0 \in T
    <2>1. Good([i \in 0 .. 0 |-> w], 0)
      OBVIOUS
    <2> HIDE DEF Good
    <2> QED
      BY <1>a, <2>1
  <1>3. ASSUME NEW m \in 0 .. n - 1, m \in T PROVE m + 1 \in T
    <2>1. PICK f : Good(f, m)
      BY <1>3
    <2> DEFINE g == [i \in 0 .. m + 1 |-> IF i = m + 1 THEN Step(f[m], i) ELSE f[i]]
    <2>2. ASSUME NEW i \in 0 .. m + 1
          PROVE  g[i] = IF i = 0 THEN w ELSE Step(g[i - 1], i)
      <3>1. \A j \in 0 .. m : f[j] = IF j = 0 THEN w ELSE Step(f[j - 1], j)
        BY <2>1
      <3>2. CASE i = m + 1
        BY <1>a, <3>1, <3>2
      <3>3. CASE i # m + 1
        BY <1>a, <3>1, <3>3
      <3> QED
        BY <3>2, <3>3
    <2>3. Good(g, m + 1)
      BY <2>2
    <2>4. m + 1 \in 0 .. n
      BY <1>a
    <2> QED
      BY <2>3, <2>4
  <1>4. n \in T
    <2> HIDE DEF T
    <2>1. 0 .. n \subseteq T
      BY <1>a, <1>2, <1>3, Upto
    <2> QED
      BY <1>a, <2>1
  <1>5. PICK f : f = (CHOOSE h : Good(h, n)) /\ Good(f, n)
    <2>1. \E h : Good(h, n)
      BY <1>4
    <2> HIDE DEF Good
    <2> QED
      BY <2>1
  <1>6. f[0] = w /\ \A i \in 1 .. n : f[i] = Step(f[i - 1], i)
    <2> HIDE DEF Good
    <2>1. Good(f, n)
      BY <1>5
    <2> QED
      BY <1>a, <2>1 DEF Good
  <1>7. Drain(w) = f[n]
    BY <1>1, <1>5
  <1> QED
    BY <1>6, <1>7 DEF Step, n

\* ngx_close_idle_connections()
LEMMA CloseIdleSteps ==
  ASSUME NEW w, NC \in Nat
  PROVE  \E f : /\ CloseIdleConnections(w) = f[NC] /\ f[0] = w
              /\ \A i \in 1 .. NC :
                   f[i] = IF i - 1 \in f[i - 1].open \intersect f[i - 1].idle
                          THEN CloseIdle(f[i - 1], i - 1)
                          ELSE f[i - 1]
  <1> DEFINE n == NC
             Step(v, i) == IF i - 1 \in v.open \intersect v.idle
                           THEN CloseIdle(v, i - 1) ELSE v
             Good(f, m) == f = [i \in 0 .. m |-> IF i = 0 THEN w ELSE Step(f[i - 1], i)]
             T == {m \in 0 .. n : \E f : Good(f, m)}
  <1>1. CloseIdleConnections(w) = (CHOOSE f : Good(f, n))[n]
    BY DEF CloseIdleConnections
  <1> HIDE DEF Step
  <1>a. n \in Nat
    OBVIOUS
  <1> HIDE DEF n
  <1>2. 0 \in T
    <2>1. Good([i \in 0 .. 0 |-> w], 0)
      OBVIOUS
    <2> HIDE DEF Good
    <2> QED
      BY <1>a, <2>1
  <1>3. ASSUME NEW m \in 0 .. n - 1, m \in T PROVE m + 1 \in T
    <2>1. PICK f : Good(f, m)
      BY <1>3
    <2> DEFINE g == [i \in 0 .. m + 1 |-> IF i = m + 1 THEN Step(f[m], i) ELSE f[i]]
    <2>2. ASSUME NEW i \in 0 .. m + 1
          PROVE  g[i] = IF i = 0 THEN w ELSE Step(g[i - 1], i)
      <3>1. \A j \in 0 .. m : f[j] = IF j = 0 THEN w ELSE Step(f[j - 1], j)
        BY <2>1
      <3>2. CASE i = m + 1
        BY <1>a, <3>1, <3>2
      <3>3. CASE i # m + 1
        BY <1>a, <3>1, <3>3
      <3> QED
        BY <3>2, <3>3
    <2>3. Good(g, m + 1)
      BY <2>2
    <2>4. m + 1 \in 0 .. n
      BY <1>a
    <2> QED
      BY <2>3, <2>4
  <1>4. n \in T
    <2> HIDE DEF T
    <2>1. 0 .. n \subseteq T
      BY <1>a, <1>2, <1>3, Upto
    <2> QED
      BY <1>a, <2>1
  <1>5. PICK f : f = (CHOOSE h : Good(h, n)) /\ Good(f, n)
    <2>1. \E h : Good(h, n)
      BY <1>4
    <2> HIDE DEF Good
    <2> QED
      BY <2>1
  <1>6. f[0] = w /\ \A i \in 1 .. n : f[i] = Step(f[i - 1], i)
    <2> HIDE DEF Good
    <2>1. Good(f, n)
      BY <1>5
    <2> QED
      BY <1>a, <2>1 DEF Good
  <1>7. CloseIdleConnections(w) = f[n]
    BY <1>1, <1>5
  <1> QED
    BY <1>6, <1>7 DEF Step, n

\* ngx_select_process_events()
LEMMA ProcessSteps ==
  ASSUME NEW w, NEW found, Len(w.list) \in Nat
  PROVE  \E f : /\ ProcessEvents(w, found) = f[Len(w.list)] /\ f[0] = w
              /\ \A i \in 1 .. Len(w.list) :
                   f[i] = IF w.list[i] \in found
                          THEN PostFound(f[i - 1], w.list[i])
                          ELSE f[i - 1]
  <1> DEFINE n == Len(w.list)
             Step(v, i) == IF w.list[i] \in found
                           THEN PostFound(v, w.list[i]) ELSE v
             Good(f, m) == f = [i \in 0 .. m |-> IF i = 0 THEN w ELSE Step(f[i - 1], i)]
             T == {m \in 0 .. n : \E f : Good(f, m)}
  <1>1. ProcessEvents(w, found) = (CHOOSE f : Good(f, n))[n]
    BY DEF ProcessEvents
  <1> HIDE DEF Step
  <1>a. n \in Nat
    OBVIOUS
  <1> HIDE DEF n
  <1>2. 0 \in T
    <2>1. Good([i \in 0 .. 0 |-> w], 0)
      OBVIOUS
    <2> HIDE DEF Good
    <2> QED
      BY <1>a, <2>1
  <1>3. ASSUME NEW m \in 0 .. n - 1, m \in T PROVE m + 1 \in T
    <2>1. PICK f : Good(f, m)
      BY <1>3
    <2> DEFINE g == [i \in 0 .. m + 1 |-> IF i = m + 1 THEN Step(f[m], i) ELSE f[i]]
    <2>2. ASSUME NEW i \in 0 .. m + 1
          PROVE  g[i] = IF i = 0 THEN w ELSE Step(g[i - 1], i)
      <3>1. \A j \in 0 .. m : f[j] = IF j = 0 THEN w ELSE Step(f[j - 1], j)
        BY <2>1
      <3>2. CASE i = m + 1
        BY <1>a, <3>1, <3>2
      <3>3. CASE i # m + 1
        BY <1>a, <3>1, <3>3
      <3> QED
        BY <3>2, <3>3
    <2>3. Good(g, m + 1)
      BY <2>2
    <2>4. m + 1 \in 0 .. n
      BY <1>a
    <2> QED
      BY <2>3, <2>4
  <1>4. n \in T
    <2> HIDE DEF T
    <2>1. 0 .. n \subseteq T
      BY <1>a, <1>2, <1>3, Upto
    <2> QED
      BY <1>a, <2>1
  <1>5. PICK f : f = (CHOOSE h : Good(h, n)) /\ Good(f, n)
    <2>1. \E h : Good(h, n)
      BY <1>4
    <2> HIDE DEF Good
    <2> QED
      BY <2>1
  <1>6. f[0] = w /\ \A i \in 1 .. n : f[i] = Step(f[i - 1], i)
    <2> HIDE DEF Good
    <2>1. Good(f, n)
      BY <1>5
    <2> QED
      BY <1>a, <2>1 DEF Good
  <1>7. ProcessEvents(w, found) = f[n]
    BY <1>1, <1>5
  <1> QED
    BY <1>6, <1>7 DEF Step, n

\* A connection that is idle or reusable is told to close.
LEMMA CloseIdleEnds ==
  ASSUME NEW w, NEW ls, Sound(w, ls), NEW c \in Clients(w)
  PROVE  LET v == CloseIdle(w, c)
         IN /\ Sound(v, ls)
            /\ v.idle = w.idle \ {c}
            /\ ToSet(v.posted) \subseteq ToSet(w.posted)
  <1>1. SoundBut(w, c, ls) /\ Served(w, c)
    BY BeginsBut
  <1>2. CASE w.phase[c] \in {"wait", "keepalive"}
    BY <1>1, <1>2, CloseEnds DEF CloseIdle
  <1>3. CASE w.phase[c] \notin {"wait", "keepalive"}
    <2>1. c \notin w.idle
      BY <1>1, <1>3 DEF Served
    <2>2. CloseIdle(w, c) = w
      BY <1>3 DEF CloseIdle
    <2> QED
      BY <2>1, <2>2
  <1> QED
    BY <1>2, <1>3

LEMMA DrainEnds ==
  ASSUME NEW w, NEW ls, Sound(w, ls)
  PROVE  Sound(Drain(w), ls)
  <1> DEFINE n == DrainCount(w)
  <1>1. n \in Nat
    <2>1. Len(w.reusable) \in Nat
      BY LenProperties DEF Sound, Core, Worker
    <2> DEFINE eighth == Len(w.reusable) \div 8
    <2>2. eighth \in Int
      BY <2>1
    <2>3. n = IF eighth > 32 THEN 32 ELSE IF eighth < 1 THEN 1 ELSE eighth
      BY DEF DrainCount
    <2> HIDE DEF n, eighth
    <2> QED
      BY <2>2, <2>3
  <1>2. PICK f : /\ Drain(w) = f[n] /\ f[0] = w
                 /\ \A i \in 1 .. n :
                      f[i] = IF f[i - 1].reusable = <<>>
                             THEN f[i - 1]
                             ELSE CloseIdle(f[i - 1], Last(f[i - 1].reusable))
    BY <1>1, DrainSteps
  <1> HIDE DEF n
  <1> DEFINE T == {i \in 0 .. n : Sound(f[i], ls)}
  <1>3. 0 \in T
    BY <1>1, <1>2
  <1>4. ASSUME NEW i \in 0 .. n - 1, i \in T
        PROVE  i + 1 \in T
    <2>1. i + 1 \in 1 .. n /\ (i + 1) - 1 = i /\ Sound(f[i], ls)
      BY <1>1, <1>4
    <2> DEFINE u == f[i]
    <2>2. f[i + 1] = IF u.reusable = <<>> THEN u ELSE CloseIdle(u, Last(u.reusable))
      BY <1>2, <2>1
    <2>3. Sound(u, ls)
      BY <2>1
    <2> HIDE DEF u
    <2>4. CASE u.reusable = <<>>
      BY <2>1, <2>2, <2>3, <2>4
    <2>5. CASE u.reusable # <<>>
      <3>1. u.reusable \in Seq(Conn) /\ ToSet(u.reusable) \subseteq Clients(u)
        BY <2>3 DEF Sound, Core, Worker, Owned, Clients
      <3>2. Len(u.reusable) \in 1 .. Len(u.reusable)
        BY <2>5, <3>1, EmptySeq, LenProperties
      <3>3. Last(u.reusable) \in ToSet(u.reusable)
        BY <3>1, <3>2, Places DEF Last
      <3>4. Sound(CloseIdle(u, Last(u.reusable)), ls)
        BY <2>3, <3>1, <3>3, CloseIdleEnds
      <3> QED
        BY <2>1, <2>2, <2>5, <3>4
    <2> QED
      BY <2>4, <2>5
  <1>5. n \in T
    <2> HIDE DEF T
    <2>1. 0 .. n \subseteq T
      BY <1>1, <1>3, <1>4, Upto
    <2> QED
      BY <1>1, <2>1
  <1> QED
    BY <1>2, <1>5

LEMMA CloseIdleConnectionsEnds ==
  ASSUME NEW w, NEW ls, Sound(w, ls)
  PROVE  LET v == CloseIdleConnections(w)
         IN Sound(v, ls) /\ v.idle = {} /\ ToSet(v.posted) \subseteq ToSet(w.posted)
  <1>1. NC \in Nat
    BY Listening
  <1>2. PICK f : /\ CloseIdleConnections(w) = f[NC] /\ f[0] = w
                 /\ \A i \in 1 .. NC :
                      f[i] = IF i - 1 \in f[i - 1].open \intersect f[i - 1].idle
                             THEN CloseIdle(f[i - 1], i - 1)
                             ELSE f[i - 1]
    BY <1>1, CloseIdleSteps
  <1> DEFINE Closed(u, i) == /\ Sound(u, ls) /\ u.idle \intersect (0 .. i - 1) = {}
                             /\ ToSet(u.posted) \subseteq ToSet(w.posted)
             T == {i \in 0 .. NC : Closed(f[i], i)}
  <1>3. 0 \in T
    BY <1>1, <1>2
  <1>4. ASSUME NEW i \in 0 .. NC - 1, i \in T
        PROVE  i + 1 \in T
    <2>1. i + 1 \in 1 .. NC /\ (i + 1) - 1 = i /\ Closed(f[i], i)
      BY <1>1, <1>4
    <2> DEFINE u == f[i]
               v == f[i + 1]
    <2>2. v = IF i \in u.open \intersect u.idle THEN CloseIdle(u, i) ELSE u
      BY <1>2, <2>1
    <2>3. Closed(u, i)
      BY <2>1
    <2> SUFFICES Closed(v, i + 1)
      BY <2>1
    <2> HIDE DEF u, v
    <2>4. u.idle \subseteq Clients(u) /\ Clients(u) \subseteq u.open
      BY <2>3 DEF Sound, Core, Owned, Clients
    <2>5. \A j \in 0 .. (i + 1) - 1 : j = i \/ j \in 0 .. i - 1
      BY <1>1
    <2>6. CASE i \in u.idle
      <3>1. /\ Sound(v, ls) /\ v.idle = u.idle \ {i}
            /\ ToSet(v.posted) \subseteq ToSet(u.posted)
        <4>1. v = CloseIdle(u, i)
          BY <2>2, <2>4, <2>6
        <4> QED
          BY <2>3, <2>4, <2>6, <4>1, CloseIdleEnds
      <3> QED
        BY <2>3, <2>5, <3>1
    <2>7. CASE i \notin u.idle
      BY <2>2, <2>3, <2>5, <2>7
    <2> QED
      BY <2>6, <2>7
  <1>5. NC \in T
    <2> HIDE DEF T
    <2>1. 0 .. NC \subseteq T
      BY <1>1, <1>3, <1>4, Upto
    <2> QED
      BY <1>1, <2>1
  <1>6. f[NC].idle \subseteq 0 .. NC - 1
    BY <1>5 DEF Sound, Core, Worker, Conn
  <1> QED
    BY <1>2, <1>5, <1>6

\* An event that select() found ready.
LEMMA PostFoundEnds ==
  ASSUME NEW w, NEW ls, Sound(w, ls), NEW e \in w.active
  PROVE  Sound(PostFound(w, e), ls) /\ PostFound(w, e).active = w.active
  <1> DEFINE c == e[1]
             u == [w EXCEPT !.ready = @ \union {e}]
             v == PostFound(w, e)
  <1>1. /\ w \in Worker /\ Owned(w) /\ Indexed(w) /\ e \in Event
        /\ w.accepts \in Seq(Event) /\ Core(w, ls)
    BY DEF Sound, Core, Worker
  <1>2. c \in w.open /\ e # Write(Listener) /\ (e = Read(c) \/ e = Write(c))
    BY <1>1, Events DEF Owned
  <1> HIDE DEF c
  <1>3. CASE e = Read(Listener)
    <2>1. /\ u \in Worker /\ u.open = w.open /\ u.phase = w.phase
          /\ u.reusable = w.reusable /\ u.idle = w.idle /\ u.active = w.active
          /\ u.posted = w.posted /\ u.timer = w.timer /\ u.accepts = w.accepts
      BY <1>1 DEF Worker
    <2>2. Core(u, ls)
      BY <1>1, <1>3 DEF Core, Worker, Indexed, Owned
    <2>3. CASE IsPosted(w, e)
      <3>1. IsPosted(u, e)
        BY <2>1, <2>3 DEF IsPosted
      <3>2. v = u
        BY <2>3, <3>1 DEF PostFound, Post
      <3> HIDE DEF u, v
      <3>3. Sound(u, ls)
        BY <2>1, <2>2 DEF Sound, Served, Clients
      <3> QED
        BY <2>1, <3>2, <3>3 DEF v
    <2>4. CASE ~ IsPosted(w, e)
      <3> DEFINE q == Append(w.accepts, e)
      <3>1. v = [u EXCEPT !.accepts = q]
        BY <1>3, <2>1, <2>4 DEF PostFound
      <3>2. q \in Seq(Event) /\ ToSet(q) = ToSet(w.accepts) \union {e}
        BY <1>1, AppendHolds
      <3> HIDE DEF u, v, q
      <3>3. /\ v \in Worker /\ v.open = w.open /\ v.phase = w.phase
            /\ v.reusable = w.reusable /\ v.idle = w.idle /\ v.active = w.active
            /\ v.posted = w.posted /\ v.timer = w.timer
        BY <2>1, <3>1, <3>2 DEF Worker
      <3>4. Core(v, ls)
        BY <1>1, <1>3, <2>1, <2>2, <3>1, <3>2 DEF Core, Worker, Indexed, Owned
      <3>5. Sound(v, ls)
        BY <3>3, <3>4 DEF Sound, Served, Clients
      <3> QED
        BY <3>3, <3>5 DEF v
    <2> QED
      BY <2>3, <2>4
  <1>4. CASE e # Read(Listener)
    <2>1. c \in Clients(w) /\ e \in {Read(c), Write(c)}
      BY <1>2, <1>4 DEF Clients
    <2>2. SoundBut(w, c, ls) /\ Served(w, c)
      BY <2>1, BeginsBut
    <2>3. v = Post(u, e)
      BY <1>4 DEF PostFound
    <2>4. /\ SoundBut(u, c, ls) /\ u.phase = w.phase /\ u.reusable = w.reusable
          /\ u.idle = w.idle /\ u.active = w.active /\ u.posted = w.posted
          /\ u.timer = w.timer
      <3>1. u.phase = w.phase /\ u.reusable = w.reusable /\ u.idle = w.idle
            /\ u.active = w.active /\ u.posted = w.posted /\ u.timer = w.timer
        BY <1>1 DEF Worker
      <3>2. SoundBut(w, c, ls) /\ e \in {Read(c), Write(c)}
        BY <2>1, <2>2
      <3>3. SoundBut(u, c, ls)
        BY <3>2, ReadyBut
      <3> QED
        BY <3>1, <3>3
    <2> HIDE DEF u, v
    <2>5. /\ SoundBut(v, c, ls) /\ v.phase = w.phase /\ v.reusable = w.reusable
          /\ v.idle = w.idle /\ v.active = w.active /\ v.timer = w.timer
          /\ ToSet(v.posted) = ToSet(w.posted) \union {e}
      BY <2>1, <2>3, <2>4, PostBut
    <2>6. Served(v, c)
      BY <2>2, <2>5 DEF Served
    <2>7. Sound(v, ls)
      BY <2>5, <2>6, DoneBut
    <2> QED
      BY <2>5, <2>7 DEF v
  <1> QED
    BY <1>3, <1>4

LEMMA ProcessEventsEnds ==
  ASSUME NEW w, NEW ls, Sound(w, ls), NEW found
  PROVE  Sound(ProcessEvents(w, found), ls)
  <1> DEFINE n == Len(w.list)
  <1>1. n \in Nat /\ \A i \in 1 .. n : w.list[i] \in w.active
    <2>1. w.list \in Seq(Event) /\ ToSet(w.list) = w.active
      BY DEF Sound, Core, Worker, Indexed
    <2> QED
      BY <2>1, Places
  <1>2. PICK f : /\ ProcessEvents(w, found) = f[n] /\ f[0] = w
                 /\ \A i \in 1 .. n :
                      f[i] = IF w.list[i] \in found
                             THEN PostFound(f[i - 1], w.list[i])
                             ELSE f[i - 1]
    BY <1>1, ProcessSteps
  <1> HIDE DEF n
  <1> DEFINE T == {i \in 0 .. n : Sound(f[i], ls) /\ f[i].active = w.active}
  <1>3. 0 \in T
    BY <1>1, <1>2
  <1>4. ASSUME NEW i \in 0 .. n - 1, i \in T
        PROVE  i + 1 \in T
    <2>1. i + 1 \in 1 .. n /\ (i + 1) - 1 = i /\ Sound(f[i], ls) /\ f[i].active = w.active
      BY <1>1, <1>4
    <2> DEFINE u == f[i]
               v == f[i + 1]
               e == w.list[i + 1]
    <2>2. v = IF e \in found THEN PostFound(u, e) ELSE u
      BY <1>2, <2>1
    <2>3. Sound(u, ls) /\ u.active = w.active /\ e \in w.active
      BY <1>1, <2>1
    <2> SUFFICES Sound(v, ls) /\ v.active = w.active
      BY <2>1
    <2> HIDE DEF u, v, e
    <2>4. Sound(PostFound(u, e), ls) /\ PostFound(u, e).active = u.active
      BY <2>3, PostFoundEnds
    <2> QED
      BY <2>2, <2>3, <2>4
  <1>5. n \in T
    <2> HIDE DEF T
    <2>1. 0 .. n \subseteq T
      BY <1>1, <1>3, <1>4, Upto
    <2> QED
      BY <1>1, <2>1
  <1> QED
    BY <1>2, <1>5

-----------------------------------------------------------------------------
(***************************************************************************)
(* Accepting.  Only the handler of an open listening connection takes one. *)
(***************************************************************************)

\* A connection has been taken from the free list.
LEMMA GetConnectionBut ==
  ASSUME NEW w, Sound(w, {Listener}), w.free # <<>>, NEW c, c = Head(w.free)
  PROVE  LET v == GetConnection(w)
         IN /\ SoundBut(v, c, {Listener})
            /\ c \notin w.open /\ v.open = w.open \union {c} /\ v.free = Tail(w.free)
            /\ Read(c) \notin v.ready /\ Write(c) \notin v.ready /\ c \notin v.idle
            /\ \A d \in Clients(w) : Served(v, d)
            /\ \A e \in v.active \union v.ready \union v.timer : e[1] # c
            /\ \A e \in ToSet(v.posted) : e[1] # c
            /\ c \notin ToSet(v.reusable)
  <1> DEFINE v == GetConnection(w)
             q == Tail(w.free)
  <1>1. /\ w \in Worker /\ Indexed(w) /\ Owned(w) /\ w.free \in Seq(Conn)
        /\ w.open \intersect {Listener} = {Listener} /\ (exiting => w.idle = {})
        /\ w.index \in [Event -> Nat] /\ w.open \subseteq Conn
    BY DEF Sound, Core, Worker
  <1>2. /\ q \in Seq(Conn) /\ IsInjective(q) /\ c \notin ToSet(q) /\ c \in Conn
        /\ ToSet(w.free) = ToSet(q) \union {c}
    BY <1>1, TailHolds DEF Owned
  <1>3. Listener \in w.open /\ c \notin w.open /\ c # Listener
    BY <1>1, <1>2 DEF Owned
  <1>4. /\ Read(c) \in Event /\ Write(c) \in Event /\ Read(c)[1] = c /\ Write(c)[1] = c
        /\ Read(c) # Read(Listener)
    BY <1>2, <1>3, Events, Names, Listening
  <1>5. /\ \A e \in w.active \union w.ready \union w.timer : e[1] # c
        /\ \A e \in ToSet(w.posted) : e[1] # c
        /\ c \notin ToSet(w.reusable) /\ c \notin w.idle
    <2>1. Read(Listener)[1] = Listener
      BY Listening, Events
    <2> QED
      BY <1>1, <1>3, <2>1 DEF Owned
  <1>6. w.index[Read(c)] = 0 /\ w.index[Write(c)] = 0
    BY <1>1, <1>4, <1>5 DEF Indexed
  <1>7. v = [w EXCEPT !.free = q, !.open = @ \union {c}]
    <2>1. v = [w EXCEPT !.free = q, !.open = @ \union {c},
                        !.index = [[w.index EXCEPT ![Read(c)] = 0] EXCEPT ![Write(c)] = 0]]
      BY <1>1 DEF GetConnection, Worker
    <2>2. [[w.index EXCEPT ![Read(c)] = 0] EXCEPT ![Write(c)] = 0] = w.index
      BY <1>1, <1>4, <1>6
    <2> QED
      BY <1>1, <2>1, <2>2 DEF Worker
  <1> HIDE DEF v, q
  <1>8. /\ v \in Worker /\ v.free = q /\ v.open = w.open \union {c} /\ v.phase = w.phase
        /\ v.reusable = w.reusable /\ v.idle = w.idle /\ v.list = w.list
        /\ v.index = w.index /\ v.active = w.active /\ v.max = w.max
        /\ v.ready = w.ready /\ v.accepts = w.accepts /\ v.posted = w.posted
        /\ v.timer = w.timer
    BY <1>1, <1>2, <1>7 DEF Worker
  <1>9. ToSet(v.free) = Conn \ v.open
    BY <1>1, <1>2, <1>3, <1>8 DEF Owned
  <1>10. Owned(v)
    BY <1>1, <1>2, <1>3, <1>8, <1>9 DEF Owned
  <1>11. Core(v, {Listener})
    BY <1>1, <1>3, <1>8, <1>10 DEF Core, Indexed
  <1>12. \A d \in Clients(w) : Served(v, d)
    BY <1>8 DEF Sound, Served
  <1>13. SoundBut(v, c, {Listener})
    BY <1>3, <1>8, <1>11, <1>12 DEF SoundBut, Clients
  <1> QED
    BY <1>3, <1>4, <1>5, <1>8, <1>12, <1>13 DEF v, q

\* No memory for the connection: it is given back.
LEMMA GivenBackEnds ==
  ASSUME NEW w, Sound(w, {Listener}), w.free # <<>>, NEW c, c = Head(w.free)
  PROVE  Sound(FreeConnection(GetConnection(w), c), {Listener})
  <1> DEFINE u == GetConnection(w)
             v == FreeConnection(u, c)
             q == <<c>> \o u.free
  <1>1. /\ SoundBut(u, c, {Listener})
        /\ c \notin w.open /\ u.open = w.open \union {c}
        /\ Read(c) \notin u.ready /\ Write(c) \notin u.ready /\ c \notin u.idle
        /\ \A d \in Clients(w) : Served(u, d)
        /\ \A e \in u.active \union u.ready \union u.timer : e[1] # c
        /\ \A e \in ToSet(u.posted) : e[1] # c
        /\ c \notin ToSet(u.reusable)
    BY GetConnectionBut
  <1> HIDE DEF u
  <1>2. /\ u \in Worker /\ Core(u, {Listener}) /\ c \in Conn \ {Listener}
        /\ u.free \in Seq(Conn) /\ Indexed(u) /\ Owned(u)
    BY <1>1, ButFacts DEF SoundBut, Core, Worker
  <1>3. q \in Seq(Conn) /\ ToSet(q) = ToSet(u.free) \union {c} /\ IsInjective(q)
    <2>1. c \notin ToSet(u.free) /\ IsInjective(u.free)
      BY <1>1, <1>2 DEF Owned
    <2> QED
      BY <1>2, <2>1, ConsHolds
  <1>4. v = [u EXCEPT !.free = q, !.open = @ \ {c}, !.phase[c] = "none"]
    BY DEF FreeConnection
  <1> HIDE DEF v, q
  <1>5. /\ v \in Worker /\ v.free = q /\ v.open = w.open
        /\ v.phase = [u.phase EXCEPT ![c] = "none"]
        /\ v.reusable = u.reusable /\ v.idle = u.idle /\ v.list = u.list
        /\ v.index = u.index /\ v.active = u.active /\ v.max = u.max
        /\ v.ready = u.ready /\ v.accepts = u.accepts /\ v.posted = u.posted
        /\ v.timer = u.timer
    <2>1. "none" \in Phases
      BY DEF Phases
    <2>2. u.open \ {c} = w.open
      BY <1>1
    <2> DEFINE o == u.open \ {c}
               p == [u.phase EXCEPT ![c] = "none"]
    <2>3. v = [u EXCEPT !.free = q, !.open = o, !.phase = p]
      BY <1>4
    <2>4. o \subseteq Conn /\ p \in [Conn -> Phases] /\ o = w.open
      BY <1>2, <2>1, <2>2 DEF Worker
    <2> HIDE DEF o
    <2> QED
      BY <1>2, <1>3, <2>3, <2>4 DEF Worker
  <1>6. Owned(v)
    <2>1. ToSet(v.free) = Conn \ v.open
      BY <1>1, <1>2, <1>3, <1>5 DEF Owned
    <2>2. Listener \in v.open => v.phase[Listener] = "listen"
      BY <1>1, <1>2, <1>5 DEF Owned, Worker
    <2> QED
      BY <1>1, <1>2, <1>3, <1>5, <2>1, <2>2 DEF Owned
  <1>7. Core(v, {Listener})
    BY <1>1, <1>2, <1>5, <1>6 DEF Core, Indexed
  <1>8. ASSUME NEW d \in Clients(v)
        PROVE  Served(v, d)
    <2>1. Served(u, d) /\ d # c /\ d \in Conn
      BY <1>1, <1>2, <1>5, <1>8 DEF Clients, Worker
    <2> QED
      BY <1>2, <1>5, <2>1 DEF Served, Worker
  <1> QED
    BY <1>7, <1>8 DEF Sound, u, v

\* The end of ngx_http_init_connection(): c waits for its first request.
LEMMA WaitsEnds ==
  ASSUME NEW w, NEW c, NEW ls, SoundBut(w, c, ls), w.phase[c] = "wait", c \notin w.idle,
         Read(c) \notin w.ready, Read(c) \in w.timer
  PROVE  Sound(RearmOrClose(SetReusable(w, c, TRUE), c, Read(c)), ls)
  <1> DEFINE v == SetReusable(w, c, TRUE)
  <1>1. /\ SoundBut(v, c, ls) /\ v.phase = w.phase /\ v.timer = w.timer
        /\ v.idle = w.idle /\ v.ready = w.ready /\ c \in ToSet(v.reusable)
    BY SetReusableBut, ZenonT(40)
  <1> HIDE DEF v
  <1>2. Timed(v, c)
    BY <1>1 DEF Timed
  <1>3. Sound(RearmOrClose(v, c, Read(c)), ls)
    BY <1>1, <1>2, RearmOrCloseEnds
  <1> QED
    BY <1>3 DEF v

\* ngx_http_init_connection()
LEMMA InitConnectionEnds ==
  ASSUME NEW w, NEW c, NEW ls, SoundBut(w, c, ls), Read(c) \notin w.ready, c \notin w.idle
  PROVE  Sound(InitConnection(w, c), ls)
  <1> DEFINE a1 == [w EXCEPT !.phase[c] = "wait"]
             a2 == [a1 EXCEPT !.ready = @ \union {Write(c)}]
             a3 == AddTimer(a2, Read(c))
  <1>1. /\ w \in Worker /\ c \in Conn /\ Read(c) # Write(c) /\ "wait" \in Phases
        /\ w.phase \in [Conn -> Phases]
    BY ButFacts DEF Worker, Phases
  <1>2. InitConnection(w, c) = RearmOrClose(SetReusable(a3, c, TRUE), c, Read(c))
    <2>1. a2 = [w EXCEPT !.phase[c] = "wait", !.ready = @ \union {Write(c)}]
      BY <1>1 DEF Worker
    <2> QED
      BY <2>1 DEF InitConnection
  <1>3. /\ SoundBut(a1, c, ls) /\ a1.phase = [w.phase EXCEPT ![c] = "wait"]
        /\ a1.idle = w.idle /\ a1.ready = w.ready
    BY <1>1, PhaseBut, SMTT(30)
  <1> HIDE DEF a1
  <1>4. /\ SoundBut(a2, c, ls) /\ a2.phase = a1.phase
        /\ a2.idle = a1.idle /\ a2.ready = a1.ready \union {Write(c)}
    BY <1>3, ReadyBut, ZenonT(40)
  <1> HIDE DEF a2
  <1>5. /\ SoundBut(a3, c, ls) /\ a3.phase = a2.phase
        /\ a3.idle = a2.idle /\ a3.ready = a2.ready /\ Read(c) \in a3.timer
    BY <1>4, AddTimerBut
  <1> HIDE DEF a3
  <1>6. a3.phase[c] = "wait" /\ c \notin a3.idle /\ Read(c) \notin a3.ready
    BY <1>1, <1>3, <1>4, <1>5
  <1> QED
    BY <1>2, <1>5, <1>6, WaitsEnds

LEMMA AcceptOneEnds ==
  ASSUME NEW w, Sound(w, {Listener})
  PROVE  \A v \in AcceptOne(w) : Sound(v, {Listener})
  <1> DEFINE p == Provided(w)
             c == Head(p.free)
             u == GetConnection(p)
  <1>1. Sound(p, {Listener})
    BY DrainEnds DEF Provided
  <1>2. AcceptOne(w) = IF p.free = <<>> THEN {p}
                       ELSE {FreeConnection(u, c), InitConnection(u, c)}
    BY DEF AcceptOne
  <1> HIDE DEF p
  <1>3. CASE p.free = <<>>
    BY <1>1, <1>2, <1>3
  <1>4. CASE p.free # <<>>
    <2>1. SoundBut(u, c, {Listener}) /\ Read(c) \notin u.ready /\ c \notin u.idle
      BY <1>1, <1>4, GetConnectionBut
    <2>2. Sound(FreeConnection(u, c), {Listener})
      BY <1>1, <1>4, GivenBackEnds
    <2> HIDE DEF u, c
    <2>3. Sound(InitConnection(u, c), {Listener})
      BY <2>1, InitConnectionEnds
    <2> QED
      BY <1>2, <1>4, <2>2, <2>3
  <1> QED
    BY <1>3, <1>4

\* What changes is the listening event, not the clients.
Aside(w, v) ==
  /\ v.free = w.free /\ v.open = w.open /\ v.phase = w.phase
  /\ v.reusable = w.reusable /\ v.idle = w.idle
  /\ v.posted = w.posted /\ v.accepts = w.accepts
  /\ \A e \in Event \ {Read(Listener)} :
       /\ e \in v.active <=> e \in w.active
       /\ e \in v.ready <=> e \in w.ready
       /\ e \in v.timer <=> e \in w.timer
  /\ Read(Listener) \in v.active => Listener \in w.open

LEMMA AsideEnds ==
  ASSUME NEW w, NEW ls, Sound(w, ls), NEW v \in Worker, Indexed(v), Aside(w, v)
  PROVE  Sound(v, ls)
  <1>1. /\ w \in Worker /\ Owned(w) /\ Read(Listener)[1] = Listener
        /\ Read(Listener) # Write(Listener) /\ v.active \subseteq Event
        /\ v.ready \subseteq Event /\ v.timer \subseteq Event
    BY Events, Names, Listening DEF Sound, Core, Worker
  <1>2. Owned(v)
    BY <1>1 DEF Owned, Aside
  <1>3. Core(v, ls)
    BY <1>2 DEF Sound, Core, Aside
  <1>4. ASSUME NEW c \in Clients(v)
        PROVE  Served(v, c)
    <2>1. Served(w, c) /\ c \in Conn \ {Listener}
      BY <1>1, <1>4 DEF Sound, Clients, Aside, Worker
    <2>2. /\ Read(c) \in Event \ {Read(Listener)}
          /\ Write(c) \in Event \ {Read(Listener)}
      BY <2>1, Events, Names, Listening
    <2> QED
      BY <2>1, <2>2 DEF Served, Aside
  <1> QED
    BY <1>3, <1>4 DEF Sound

LEMMA AcceptFlags ==
  ASSUME NEW w, NEW ls, Sound(w, ls)
  PROVE  /\ Sound(NotReady(w, Read(Listener)), ls)
         /\ Sound(AddTimer(w, Read(Listener)), ls)
         /\ Sound(DelTimer(w, Read(Listener)), ls)
         /\ Sound(DelIfActive(w, Read(Listener)), ls)
         /\ \A b \in BOOLEAN : Sound([w EXCEPT !.timedout = b], ls)
  <1> DEFINE e == Read(Listener)
  <1>1. /\ w \in Worker /\ Indexed(w) /\ Owned(w) /\ e \in Event
        /\ e \in w.active => Listener \in w.open
    BY Events, Listening DEF Sound, Core, Owned
  <1> HIDE DEF e
  <1>2. ASSUME NEW v \in {NotReady(w, e), AddTimer(w, e), DelTimer(w, e)}
                           \union {[w EXCEPT !.timedout = b] : b \in BOOLEAN}
        PROVE  Sound(v, ls)
    <2>1. /\ v \in Worker /\ v.list = w.list /\ v.index = w.index
          /\ v.active = w.active /\ v.max = w.max
      <3>1. CASE \E b \in BOOLEAN : v = [w EXCEPT !.timedout = b]
        BY <1>1, <3>1 DEF Worker
      <3>2. CASE v \in {NotReady(w, e), AddTimer(w, e), DelTimer(w, e)}
        <4>1. CASE v = NotReady(w, e)
          BY <1>1, <4>1 DEF Worker, NotReady
        <4>2. CASE v = AddTimer(w, e)
          BY <1>1, <4>2 DEF Worker, AddTimer
        <4>3. CASE v = DelTimer(w, e)
          BY <1>1, <4>3 DEF Worker, DelTimer
        <4> QED
          BY <3>2, <4>1, <4>2, <4>3
      <3> QED
        BY <3>1, <3>2
    <2>2. Aside(w, v)
      BY <1>1, ZenonT(40) DEF Aside, Worker, NotReady, AddTimer, DelTimer, e
    <2>3. Indexed(v)
      BY <1>1, <2>1 DEF Indexed
    <2> QED
      BY <2>1, <2>2, <2>3, AsideEnds
  <1>3. Sound(DelIfActive(w, e), ls)
    <2>1. CASE e \notin w.active
      BY <2>1 DEF DelIfActive
    <2>2. CASE e \in w.active
      <3> DEFINE v == DelEvent(w, e)
      <3>1. v \in Worker /\ Indexed(v) /\ v.active = w.active \ {e}
        BY <1>1, DelKeeps
      <3>2. /\ v.free = w.free /\ v.open = w.open /\ v.phase = w.phase
            /\ v.reusable = w.reusable /\ v.idle = w.idle /\ v.ready = w.ready
            /\ v.accepts = w.accepts /\ v.posted = w.posted /\ v.timer = w.timer
        BY <1>1, WatchFields
      <3>3. DelIfActive(w, e) = v
        BY <2>2 DEF DelIfActive
      <3> HIDE DEF v
      <3>4. Aside(w, v)
        BY <1>1, <3>1, <3>2 DEF Aside, e
      <3> QED
        BY <3>1, <3>3, <3>4, AsideEnds
    <2> QED
      BY <2>1, <2>2
  <1> QED
    BY <1>2, <1>3 DEF e

\* ngx_event_accept()
LEMMA AcceptHandlerEnds ==
  ASSUME NEW w, NEW ls, Sound(w, ls)
  PROVE  \A v \in AcceptHandler(w) : Sound(v, ls)
  <1> DEFINE e == Read(Listener)
             added == AddEvent(w, e)
             on == IF w.timedout THEN [added EXCEPT !.timedout = FALSE] ELSE w
             w1 == NotReady(on, e)
             off == DelIfActive(w1, e)
  <1>1. CASE Listener \notin w.open
    <2>1. AcceptHandler(w) = {NotReady([w EXCEPT !.timedout = FALSE], e)}
      BY <1>1 DEF AcceptHandler
    <2>2. PICK b \in BOOLEAN : b = FALSE
      OBVIOUS
    <2>3. Sound([w EXCEPT !.timedout = b], ls)
      BY AcceptFlags
    <2>4. Sound([w EXCEPT !.timedout = FALSE], ls)
      BY <2>2, <2>3
    <2> QED
      BY <2>1, <2>4, AcceptFlags
  <1>2. CASE Listener \in w.open /\ w.timedout /\ AddFails(w, e)
    <2>1. AcceptHandler(w) = {w}
      BY <1>2 DEF AcceptHandler
    <2> QED
      BY <2>1
  <1>3. CASE Listener \in w.open /\ ~ (w.timedout /\ AddFails(w, e))
    <2>1. AcceptHandler(w) = {w1, AddTimer(off, e)} \union AcceptOne(w1)
      BY <1>3 DEF AcceptHandler
    <2>2. /\ w \in Worker /\ Indexed(w) /\ e \in Event /\ ls = {Listener}
      BY <1>3, Events, Listening DEF Sound, Core
    <2>3. w.timedout => Sound(added, ls)
      <3> SUFFICES ASSUME w.timedout PROVE Sound(added, ls)
        OBVIOUS
      <3>1. added \in Worker /\ Indexed(added) /\ added.active = w.active \union {e}
        BY <1>3, <2>2, AddKeeps
      <3>2. /\ added.free = w.free /\ added.open = w.open /\ added.phase = w.phase
            /\ added.reusable = w.reusable /\ added.idle = w.idle /\ added.ready = w.ready
            /\ added.accepts = w.accepts /\ added.posted = w.posted
            /\ added.timer = w.timer
        BY <2>2, WatchFields
      <3> HIDE DEF added, e
      <3>3. Aside(w, added)
        BY <1>3, <3>1, <3>2 DEF Aside, e
      <3> QED
        BY <3>1, <3>3, AsideEnds
    <2> HIDE DEF added
    <2>4. Sound(on, ls)
      <3>1. PICK b \in BOOLEAN : b = FALSE
        OBVIOUS
      <3>2. w.timedout => Sound([added EXCEPT !.timedout = b], ls)
        BY <2>3, AcceptFlags
      <3> QED
        BY <3>1, <3>2
    <2> HIDE DEF on
    <2>5. Sound(w1, ls)
      BY <2>4, AcceptFlags
    <2> HIDE DEF w1
    <2>6. Sound(off, ls)
      BY <2>5, AcceptFlags
    <2> HIDE DEF off
    <2>7. Sound(AddTimer(off, e), ls)
      BY <2>6, AcceptFlags
    <2>8. \A v \in AcceptOne(w1) : Sound(v, ls)
      BY <2>2, <2>5, AcceptOneEnds
    <2> QED
      BY <2>1, <2>5, <2>7, <2>8
  <1> QED
    BY <1>1, <1>2, <1>3

\* The handler of a timer, which has left the tree.
LEMMA ExpiredEnds ==
  ASSUME NEW w, NEW ls, Sound(w, ls), NEW e \in w.timer
  PROVE  \A v \in Expired(DelTimer(w, e), e) : Sound(v, ls)
  <1> DEFINE u == DelTimer(w, e)
             x == [u EXCEPT !.timedout = TRUE]
             c == e[1]
  <1>1. CASE e = Read(Listener)
    <2>1. Sound(u, ls)
      BY <1>1, AcceptFlags
    <2>2. PICK b \in BOOLEAN : b = TRUE
      OBVIOUS
    <2>3. Expired(u, e) = AcceptHandler(x)
      BY <1>1 DEF Expired
    <2> HIDE DEF u
    <2>4. Sound([u EXCEPT !.timedout = b], ls)
      BY <2>1, AcceptFlags
    <2>5. Sound(x, ls)
      BY <2>2, <2>4
    <2> HIDE DEF x
    <2>6. \A v \in AcceptHandler(x) : Sound(v, ls)
      BY <2>5, AcceptHandlerEnds
    <2> QED
      BY <2>3, <2>6 DEF u
  <1>2. CASE e # Read(Listener)
    <2>1. c \in Clients(w) /\ e \in {Read(c), Write(c)}
      <3>1. e \in Event
        BY DEF Sound, Core, Worker
      <3> QED
        BY <1>2, <3>1, Events DEF Sound, Core, Owned, Clients
    <2>2. Expired(u, e) = {Close(u, c)}
      BY <1>2 DEF Expired
    <2>3. SoundBut(w, c, ls)
      BY <2>1, BeginsBut
    <2> HIDE DEF c
    <2>4. SoundBut(u, c, ls)
      BY <2>1, <2>3, DelTimerBut
    <2> HIDE DEF u
    <2>5. Sound(Close(u, c), ls)
      BY <2>4, CloseEnds
    <2> QED
      BY <2>2, <2>5 DEF u
  <1> QED
    BY <1>1, <1>2

\* The listening event leaves its queue.
LEMMA AcceptsTailEnds ==
  ASSUME NEW w, NEW ls, Sound(w, ls), w.accepts # <<>>
  PROVE  Sound([w EXCEPT !.accepts = Tail(@)], ls)
  <1> DEFINE q == Tail(w.accepts)
             v == [w EXCEPT !.accepts = q]
  <1>1. /\ w \in Worker /\ Indexed(w) /\ Owned(w) /\ w.accepts \in Seq(Event) /\ Core(w, ls)
    BY DEF Sound, Core, Worker
  <1>2. q \in Seq(Event) /\ ToSet(q) \subseteq ToSet(w.accepts)
    BY <1>1, TailHolds
  <1>3. v = [w EXCEPT !.accepts = q]
    OBVIOUS
  <1> HIDE DEF q, v
  <1>4. /\ v \in Worker /\ v.open = w.open /\ v.phase = w.phase /\ v.reusable = w.reusable
        /\ v.idle = w.idle /\ v.active = w.active /\ v.posted = w.posted /\ v.timer = w.timer
    BY <1>1, <1>2, <1>3 DEF Worker
  <1>5. Core(v, ls)
    BY <1>1, <1>2, <1>3 DEF Core, Worker, Indexed, Owned
  <1>6. Sound(v, ls)
    BY <1>4, <1>5 DEF Sound, Served, Clients
  <1> QED
    BY <1>6 DEF v, q

\* ngx_close_listening_sockets()
LEMMA CloseListeningEnds ==
  ASSUME NEW w, Sound(w, {Listener})
  PROVE  LET v == CloseListening(w) IN Sound(v, {}) /\ v.posted = w.posted
  <1> DEFINE e == Read(Listener)
             u == DelIfActive(w, e)
             v == CloseListening(w)
             q == <<Listener>> \o u.free
  <1>1. /\ w \in Worker /\ Indexed(w) /\ Owned(w) /\ e \in Event
        /\ e # Write(Listener) /\ e[1] = Listener /\ Listener \in Conn
        /\ Listener \in w.open
    BY Events, Names, Listening DEF Sound, Core
  <1>2. Sound(u, {Listener})
    BY AcceptFlags
  <1>3. u.active = w.active \ {e} /\ u.posted = w.posted
    <2>1. CASE e \in w.active
      BY <1>1, <2>1, DelKeeps, WatchFields DEF DelIfActive
    <2>2. CASE e \notin w.active
      BY <2>2 DEF DelIfActive
    <2> QED
      BY <2>1, <2>2
  <1> HIDE DEF u
  <1>4. /\ u \in Worker /\ Core(u, {Listener}) /\ Owned(u) /\ Indexed(u)
        /\ Listener \in u.open /\ u.free \in Seq(Conn) /\ u.open \subseteq Conn
        /\ u.active \subseteq Event
    BY <1>2 DEF Sound, Core, Worker
  <1>5. \A f \in u.active : f[1] # Listener
    <2>1. \A f \in u.active : f # e /\ f # Write(Listener) /\ f \in Event
      BY <1>3, <1>4 DEF Owned
    <2> QED
      BY <2>1, Events
  <1>6. q \in Seq(Conn) /\ ToSet(q) = ToSet(u.free) \union {Listener} /\ IsInjective(q)
    <2>1. Listener \notin ToSet(u.free) /\ IsInjective(u.free)
      BY <1>4 DEF Owned
    <2> QED
      BY <1>1, <1>4, <2>1, ConsHolds
  <1>7. v = [u EXCEPT !.free = q, !.open = @ \ {Listener}, !.phase[Listener] = "none"]
    BY DEF CloseListening, FreeConnection, u
  <1> HIDE DEF v, q, e
  <1>8. /\ v \in Worker /\ v.free = q /\ v.open = u.open \ {Listener}
        /\ v.phase = [u.phase EXCEPT ![Listener] = "none"]
        /\ v.reusable = u.reusable /\ v.idle = u.idle /\ v.list = u.list
        /\ v.index = u.index /\ v.active = u.active /\ v.max = u.max
        /\ v.ready = u.ready /\ v.accepts = u.accepts /\ v.posted = u.posted
        /\ v.timer = u.timer
    <2>1. "none" \in Phases
      BY DEF Phases
    <2> QED
      BY <1>4, <1>6, <1>7, <2>1 DEF Worker
  <1>9. Owned(v)
    <2>1. ToSet(v.free) = Conn \ v.open
      BY <1>1, <1>4, <1>6, <1>8 DEF Owned
    <2> QED
      BY <1>4, <1>5, <1>6, <1>8, <2>1 DEF Owned
  <1>10. Core(v, {})
    BY <1>4, <1>8, <1>9 DEF Core, Indexed
  <1>11. ASSUME NEW c \in Clients(v)
         PROVE  Served(v, c)
    <2>1. c \in Clients(u) /\ c # Listener /\ c \in Conn
      BY <1>4, <1>8, <1>11 DEF Clients
    <2>2. Served(u, c)
      BY <1>2, <2>1 DEF Sound
    <2> QED
      BY <1>4, <1>8, <2>1, <2>2 DEF Served, Worker
  <1> QED
    BY <1>3, <1>8, <1>10, <1>11 DEF Sound, v

-----------------------------------------------------------------------------
(***************************************************************************)
(* The invariant is inductive: the initial state, then one lemma for each  *)
(* action of the loop.                                                     *)
(***************************************************************************)
LEMMA InitHolds == Init => IInv
  <1> SUFFICES ASSUME Init PROVE IInv
    OBVIOUS
  <1> DEFINE e == Read(Listener)
             q == [i \in 1 .. NC - 1 |-> i]
  <1>1. /\ NC \in Nat /\ MaxFds \in Nat \ {0} /\ Listener \in Conn /\ e \in Event
        /\ Listener = 0 /\ Conn = 0 .. NC - 1 /\ NC > 1 /\ e[2] = "read" /\ e[1] = Listener
        /\ e # Write(Listener)
    BY EventLoopAssumption, Listening, Events, Names DEF Conn, Listener
  <1>2. /\ free = q /\ open = {Listener}
        /\ phase = [c \in Conn |-> IF c = Listener THEN "listen" ELSE "none"]
        /\ reusable = <<>> /\ idle = {} /\ list = <<e>>
        /\ index = [f \in Event |-> IF f = e THEN 1 ELSE 0]
        /\ active = {e}
        /\ max = [d \in {"read", "write"} |-> IF d = "read" THEN 1 ELSE 0]
        /\ ready = {} /\ accepts = <<>> /\ posted = <<>> /\ timer = {}
        /\ timedout = FALSE /\ exiting = FALSE /\ pc = "select"
    BY DEF Init
  <1>3. /\ W.free = free /\ W.open = open /\ W.phase = phase /\ W.reusable = reusable
        /\ W.idle = idle /\ W.list = list /\ W.index = index /\ W.active = active
        /\ W.max = max /\ W.ready = ready /\ W.accepts = accepts /\ W.posted = posted
        /\ W.timer = timer
    BY DEF W
  <1> HIDE DEF e
  <1>4. q \in Seq(Conn) /\ ToSet(q) = Conn \ {Listener} /\ IsInjective(q)
    <2>1. q \in Seq(Conn) /\ DOMAIN q = 1 .. NC - 1
      BY <1>1
    <2>2. ToSet(q) = 1 .. NC - 1
      BY <2>1 DEF ToSet
    <2> QED
      BY <1>1, <2>1, <2>2 DEF IsInjective
  <1> HIDE DEF q
  <1>5. /\ <<e>> \in Seq(Event) /\ Len(<<e>>) = 1 /\ <<e>>[1] = e /\ ToSet(<<e>>) = {e}
    <2>1. <<e>> \in Seq(Event) /\ Len(<<e>>) = 1 /\ <<e>>[1] = e /\ DOMAIN <<e>> = {1}
      BY <1>1
    <2> QED
      BY <2>1 DEF ToSet
  <1>6. /\ <<>> \in Seq(Conn) /\ <<>> \in Seq(Event) /\ ToSet(<<>>) = {} /\ IsInjective(<<>>)
    BY DEF ToSet, IsInjective
  <1>7. W \in Worker
    <2>1. phase \in [Conn -> Phases]
      BY <1>2 DEF Phases
    <2>2. max \in [Dirs -> 0 .. MaxFds] /\ index \in [Event -> Nat]
      BY <1>1, <1>2 DEF Dirs
    <2> QED
      BY <1>1, <1>2, <1>4, <1>5, <1>6, <2>1, <2>2 DEF W, Worker
  <1>8. Indexed(W)
    <2>1. \A i \in 1 .. Len(list) : index[list[i]] = i
      BY <1>1, <1>2, <1>5
    <2>2. \A f \in Event : index[f] = 0 <=> f \notin active
      BY <1>1, <1>2
    <2>3. Watched({e}, "read") = {e} /\ Watched({e}, "write") = {}
      BY <1>1 DEF Watched
    <2>4. \A d \in Dirs : max[d] = Cardinality(Watched(active, d))
      BY <1>2, <2>3, FS_EmptySet, FS_Singleton DEF Dirs
    <2> QED
      BY <1>2, <1>3, <1>5, <2>1, <2>2, <2>4 DEF Indexed
  <1>9. Owned(W)
    BY <1>1, <1>2, <1>3, <1>4, <1>6 DEF Owned
  <1>10. Sound(W, {Listener})
    BY <1>2, <1>3, <1>7, <1>8, <1>9 DEF Sound, Core, Clients
  <1> QED
    BY <1>2, <1>10 DEF IInv

\* A handler or a loop returns in a sound state: so is the state after the step.
LEMMA Returns ==
  ASSUME NEW v, NEW ls, Sound(v, ls), Becomes(v), exiting' = exiting
  PROVE  Sound(W, ls)'
  <1>1. v \in Worker
    BY DEF Sound, Core
  <1>2. W' = v
    BY <1>1 DEF Worker, Becomes, W
  <1> QED
    BY <1>2 DEF Sound, Core

LEMMA SelectHolds == IInv /\ Select => IInv'
  <1> SUFFICES ASSUME IInv, Select PROVE IInv'
    OBVIOUS
  <1> DEFINE ls == IF exiting THEN {} ELSE {Listener}
  <1>1. PICK found \in SUBSET ToSet(list) : Becomes(ProcessEvents(W, found))
    BY DEF Select
  <1>2. pc' = "accept" /\ exiting' = exiting
    BY DEF Select
  <1>3. Sound(ProcessEvents(W, found), ls)
    BY ProcessEventsEnds DEF IInv
  <1>4. PICK n : n = ls
    OBVIOUS
  <1>5. Sound(W, n)'
    BY <1>1, <1>2, <1>3, <1>4, Returns
  <1> QED
    BY <1>2, <1>4, <1>5 DEF IInv

LEMMA ProcessAcceptHolds == IInv /\ ProcessAccept => IInv'
  <1> SUFFICES ASSUME IInv, ProcessAccept PROVE IInv'
    OBVIOUS
  <1> DEFINE u == [W EXCEPT !.accepts = Tail(@)]
  <1>1. PICK n : n = IF exiting THEN {} ELSE {Listener}
    OBVIOUS
  <1>2. PICK v \in AcceptHandler(u) : Becomes(v)
    BY DEF ProcessAccept
  <1>3. pc = "accept" /\ pc' = pc /\ exiting' = exiting /\ accepts # <<>>
    BY DEF ProcessAccept
  <1>4. Sound(W, n) /\ W.accepts # <<>>
    BY <1>1, <1>3 DEF IInv, W
  <1>5. Sound(u, n)
    BY <1>4, AcceptsTailEnds
  <1>6. Sound(v, n)
    BY <1>2, <1>5, AcceptHandlerEnds
  <1>7. Sound(W, n)'
    BY <1>2, <1>3, <1>6, Returns
  <1> QED
    BY <1>1, <1>3, <1>7 DEF IInv

LEMMA ExpireTimerHolds == IInv /\ ExpireTimer => IInv'
  <1> SUFFICES ASSUME IInv, ExpireTimer PROVE IInv'
    OBVIOUS
  <1>1. PICK n : n = IF exiting THEN {} ELSE {Listener}
    OBVIOUS
  <1>2. PICK e \in timer : \E v \in Expired(DelTimer(W, e), e) : Becomes(v)
    BY DEF ExpireTimer
  <1>3. PICK v \in Expired(DelTimer(W, e), e) : Becomes(v)
    BY <1>2
  <1>4. pc = "timers" /\ pc' = pc /\ exiting' = exiting
    BY DEF ExpireTimer
  <1>5. Sound(W, n) /\ e \in W.timer
    BY <1>1 DEF IInv, W
  <1>6. Sound(v, n)
    BY <1>3, <1>5, ExpiredEnds
  <1>7. Sound(W, n)'
    BY <1>3, <1>4, <1>6, Returns
  <1> QED
    BY <1>1, <1>4, <1>7 DEF IInv

LEMMA ProcessPostedHolds == IInv /\ ProcessPosted => IInv'
  <1> SUFFICES ASSUME IInv, ProcessPosted PROVE IInv'
    OBVIOUS
  <1>1. PICK n : n = IF exiting THEN {} ELSE {Listener}
    OBVIOUS
  <1>2. pc = "posted" /\ pc' = pc /\ exiting' = exiting /\ posted # <<>> /\ W.posted = posted
    BY DEF ProcessPosted, W
  <1>3. PICK v \in Handler([W EXCEPT !.posted = Tail(@)], Head(posted)) : Becomes(v)
    BY DEF ProcessPosted
  <1>4. Sound(W, n)
    BY <1>1 DEF IInv
  <1>5. \A x \in Handler([W EXCEPT !.posted = Tail(@)], Head(W.posted)) : Sound(x, n)
    BY <1>2, <1>4, HandlerEnds
  <1>6. Sound(v, n)
    BY <1>2, <1>3, <1>5
  <1>7. Sound(W, n)'
    BY <1>2, <1>3, <1>6, Returns
  <1> QED
    BY <1>1, <1>2, <1>7 DEF IInv

LEMMA QuitHolds == IInv /\ Quit => IInv'
  <1> SUFFICES ASSUME IInv, Quit PROVE IInv'
    OBVIOUS
  <1> DEFINE u == CloseListening(W)
             v == CloseIdleConnections(u)
  <1>1. pc = "select" /\ ~ exiting /\ exiting' = TRUE /\ pc' = pc /\ Becomes(v)
    BY DEF Quit
  <1>2. Sound(W, {Listener}) /\ W.posted = <<>>
    BY <1>1 DEF IInv, W
  <1>3. Sound(u, {}) /\ u.posted = <<>>
    BY <1>2, CloseListeningEnds
  <1> HIDE DEF u
  <1>4. Sound(v, {}) /\ v.idle = {} /\ ToSet(v.posted) \subseteq ToSet(u.posted)
    BY <1>3, CloseIdleConnectionsEnds
  <1>5. v.posted = <<>>
    <2>1. v.posted \in Seq(Event)
      BY <1>4 DEF Sound, Core, Worker
    <2>2. ToSet(v.posted) = {}
      BY <1>3, <1>4 DEF ToSet
    <2> HIDE DEF v
    <2>3. Len(v.posted) \in Nat /\ \A i \in 1 .. Len(v.posted) : v.posted[i] \in ToSet(v.posted)
      BY <2>1, Places
    <2>4. Len(v.posted) = 0
      <3>1. Len(v.posted) # 0 => 1 \in 1 .. Len(v.posted)
        BY <2>3
      <3>2. 1 \notin 1 .. Len(v.posted)
        BY <2>2, <2>3, Zenon
      <3> QED
        BY <3>1, <3>2
    <2> QED
      BY <2>1, <2>4, EmptySeq
  <1>6. PICK x : x = v
    OBVIOUS
  <1> HIDE DEF v
  <1>7. Sound(x, {}) /\ x.idle = {} /\ x.posted = <<>> /\ Becomes(x) /\ x \in Worker
    BY <1>1, <1>4, <1>5, <1>6 DEF Sound, Core
  <1>8. W' = x /\ posted' = <<>>
    BY <1>7 DEF Worker, Becomes, W
  <1>9. Sound(W, {})'
    BY <1>7, <1>8 DEF Sound, Core
  <1> QED
    BY <1>1, <1>8, <1>9 DEF IInv

\* Advance, Exit and a stuttering step leave the worker's state alone.
LEMMA Stays ==
  ASSUME NEW ls, Sound(W, ls), exiting' = exiting,
         UNCHANGED <<free, open, phase, reusable, idle, list, index, active, max,
                     ready, accepts, posted, timer, timedout>>
  PROVE  Sound(W, ls)'
  <1>1. W' = W
    BY DEF W
  <1> QED
    BY <1>1 DEF Sound, Core

LEMMA AdvanceHolds == IInv /\ Advance => IInv'
  <1> SUFFICES ASSUME IInv, Advance PROVE IInv'
    OBVIOUS
  <1>1. PICK n : n = IF exiting THEN {} ELSE {Listener}
    OBVIOUS
  <1>2. Sound(W, n)'
    BY <1>1, Stays DEF IInv, Advance
  <1> QED
    BY <1>1, <1>2 DEF IInv, Advance

\* No timer is left, so no client is.
LEMMA ExitHolds == IInv /\ Exit => IInv'
  <1> SUFFICES ASSUME IInv, Exit PROVE IInv'
    OBVIOUS
  <1>1. PICK n : n = IF exiting THEN {} ELSE {Listener}
    OBVIOUS
  <1>2. Sound(W, n)'
    BY <1>1, Stays DEF IInv, Exit
  <1>3. Sound(W, {}) /\ pc = "select" /\ exiting /\ timer = {} /\ posted = <<>>
    BY DEF IInv, Exit
  <1>4. open = {}
    <2>1. \A c \in Clients(W) : Served(W, c)
      BY <1>3 DEF Sound
    <2>2. W.timer = {} /\ ToSet(W.posted) = {} /\ W.open = open
      BY <1>3 DEF W, ToSet
    <2>3. Clients(W) = {}
      BY <2>1, <2>2 DEF Served
    <2>4. W.open \intersect {Listener} = {}
      BY <1>3 DEF Sound, Core
    <2> QED
      BY <2>2, <2>3, <2>4 DEF Clients
  <1> QED
    BY <1>1, <1>2, <1>4 DEF IInv, Exit

-----------------------------------------------------------------------------
(***************************************************************************)
(* What the invariant says of the variables.                               *)
(***************************************************************************)
LEMMA Fields ==
  /\ W.free = free /\ W.open = open /\ W.phase = phase /\ W.reusable = reusable
  /\ W.idle = idle /\ W.list = list /\ W.index = index /\ W.active = active
  /\ W.max = max /\ W.ready = ready /\ W.accepts = accepts /\ W.posted = posted
  /\ W.timer = timer /\ W.timedout = timedout
  BY DEF W

LEMMA InvFacts ==
  ASSUME IInv
  PROVE  /\ W \in Worker /\ Indexed(W) /\ Owned(W)
         /\ \A c \in open \ {Listener} : Served(W, c)
         /\ exiting => idle = {}
         /\ exiting => Listener \notin open
         /\ ~ exiting => Listener \in open
  BY Fields DEF IInv, Sound, Core, Clients

LEMMA EventsCounted == Cardinality(Event) = 2 * NC
  <1> DEFINE dirs == {"read", "write"}
  <1>1. NC \in Nat /\ Conn = 0 .. NC - 1
    BY Listening DEF Conn
  <1>2. IsFiniteSet(Conn) /\ Cardinality(Conn) = NC
    BY <1>1, FS_Interval
  <1>3. IsFiniteSet(dirs) /\ Cardinality(dirs) = 2
    <2>1. IsFiniteSet({"read"}) /\ Cardinality({"read"}) = 1
      BY FS_Singleton
    <2>2. /\ IsFiniteSet({"read"} \union {"write"})
          /\ Cardinality({"read"} \union {"write"}) = 2
      BY <2>1, FS_AddElement
    <2>3. {"read"} \union {"write"} = dirs
      OBVIOUS
    <2> QED
      BY <2>2, <2>3
  <1> HIDE DEF dirs
  <1>4. Cardinality(Conn \X dirs) = Cardinality(Conn) * Cardinality(dirs)
    BY <1>2, <1>3, FS_Product
  <1> QED
    BY <1>1, <1>2, <1>3, <1>4 DEF Event, dirs

LEMMA InvType == IInv => TypeOK
  <1> SUFFICES ASSUME IInv PROVE TypeOK
    OBVIOUS
  <1>1. W \in Worker /\ Indexed(W)
    BY InvFacts
  <1> DEFINE n == Len(list)
  <1>2. /\ list \in Seq(Event) /\ n \in Nat /\ ToSet(list) = active
        /\ \A i \in 1 .. n : list[i] \in Event /\ index[list[i]] = i
        /\ \A e \in active : \E i \in 1 .. n : list[i] = e
        /\ DOMAIN list = 1 .. n
    <2>1. list \in Seq(Event)
      BY <1>1, Fields DEF Worker
    <2>2. /\ n \in Nat /\ DOMAIN list = 1 .. n
          /\ \A i \in 1 .. n : list[i] \in Event
          /\ \A e : e \in ToSet(list) <=> \E i \in 1 .. n : e = list[i]
      BY <2>1, Places
    <2> QED
      BY <1>1, <2>1, <2>2, Fields DEF Indexed
  <1>3. n <= 2 * NC
    <2>1. list \in [1 .. n -> Event]
      BY <1>2, SeqDef
    <2>2. list \in Injection(1 .. n, Event)
      BY <1>2, <2>1, Fun_IsInj
    <2>3. Cardinality(1 .. n) <= Cardinality(Event)
      BY <2>2, EventsFinite, FS_Injection
    <2>4. Cardinality(1 .. n) = n
      <3>1. 1 \in Int /\ n \in Int
        BY <1>2
      <3>2. Cardinality(1 .. n) = IF 1 > n THEN 0 ELSE n - 1 + 1
        BY <3>1, FS_Interval
      <3> QED
        BY <1>2, <3>2
    <2> QED
      BY <2>3, <2>4, EventsCounted
  <1>4. index \in [Event -> 0 .. 2 * NC]
    <2>1. index \in [Event -> Nat]
      BY <1>1, Fields DEF Worker
    <2>2. ASSUME NEW e \in Event
          PROVE  index[e] \in 0 .. 2 * NC
      <3>1. CASE e \in active
        BY <1>2, <1>3, <3>1, Listening
      <3>2. CASE e \notin active
        <4>1. index[e] = 0
          BY <1>1, <3>2, Fields DEF Indexed
        <4> QED
          BY <4>1, Listening
      <3> QED
        BY <3>1, <3>2
    <2> QED
      BY <2>1, <2>2
  <1> QED
    BY <1>1, <1>4, Fields DEF TypeOK, Worker, IInv, Dirs

LEMMA InvNothingStale == IInv => NothingStale
  <1> SUFFICES ASSUME IInv PROVE NothingStale
    OBVIOUS
  <1>1. Owned(W) /\ ToSet(list) = active
    BY InvFacts, Fields DEF Indexed
  <1>2. /\ ToSet(free) = Conn \ open
        /\ IsInjective(free) /\ IsInjective(reusable) /\ IsInjective(posted)
        /\ ToSet(reusable) \union idle \subseteq open
    BY <1>1, Fields DEF Owned
  <1>3. \A e \in ToSet(list) \union ToSet(posted) \union ToSet(accepts)
              \union active \union ready \union timer :
          e[1] \in open \/ e = Read(Listener)
    BY <1>1, Fields DEF Owned
  <1>4. Listener \notin open => Read(Listener) \notin active
    BY <1>1, Fields, Listening, Events DEF Owned
  <1> QED
    BY <1>2, <1>3, <1>4 DEF NothingStale

LEMMA InvIndexExact == IInv => IndexExact
  <1> SUFFICES ASSUME IInv PROVE IndexExact
    OBVIOUS
  <1>1. /\ \A i \in 1 .. Len(list) : index[list[i]] = i
        /\ ToSet(list) = active
        /\ \A e \in Event : index[e] = 0 <=> e \notin active
        /\ \A d \in Dirs : max[d] = Cardinality(Watched(active, d))
    BY InvFacts, Fields DEF Indexed
  <1> QED
    BY <1>1 DEF IndexExact, Watched, Dirs

LEMMA InvReusableExact == IInv => ReusableExact
  <1> SUFFICES ASSUME IInv PROVE ReusableExact
    OBVIOUS
  <1>1. /\ ToSet(reusable) \subseteq open \ {Listener} /\ idle \subseteq open \ {Listener}
        /\ Listener \in open => phase[Listener] = "listen"
    BY InvFacts, Fields DEF Owned
  <1>2. \A c \in open \ {Listener} :
          /\ c \in ToSet(reusable) <=> phase[c] \in {"wait", "keepalive"}
          /\ c \in idle <=> phase[c] = "keepalive"
    BY InvFacts, Fields DEF Served
  <1> QED
    BY <1>1, <1>2 DEF ReusableExact

LEMMA InvInputAwaited == IInv => InputAwaited
  <1> SUFFICES ASSUME IInv, NEW c \in open
               PROVE  /\ phase[c] \in {"wait", "header", "keepalive", "lingering"} =>
                           Read(c) \in active \/ IsPosted(W, Read(c))
                      /\ phase[c] = "request" => Write(c) \in active
    BY DEF InputAwaited
  <1>1. CASE c = Listener
    <2>1. phase[c] = "listen"
      BY <1>1, InvFacts, Fields DEF Owned
    <2> QED
      BY <2>1
  <1>2. CASE c # Listener
    <2>1. /\ phase[c] # "request" => Read(c) \in active \union ToSet(posted)
          /\ phase[c] = "request" => Write(c) \in active
      BY <1>2, InvFacts, Fields DEF Served
    <2> QED
      BY <2>1, Fields DEF IsPosted
  <1> QED
    BY <1>1, <1>2

LEMMA InvExitLosesNoClient == IInv => ExitLosesNoClient
  <1> SUFFICES ASSUME IInv PROVE ExitLosesNoClient
    OBVIOUS
  <1>1. ASSUME pc = "select", NEW c \in open \ {Listener}
        PROVE  {Read(c), Write(c)} \intersect timer # {}
    <2>1. Served(W, c) /\ ToSet(posted) = {}
      BY <1>1, InvFacts DEF IInv, ToSet
    <2> QED
      BY <2>1, Fields DEF Served
  <1>2. /\ pc = "exit" => open = {}
        /\ exiting => idle = {}
    BY InvFacts DEF IInv
  <1> QED
    BY <1>1, <1>2 DEF ExitLosesNoClient

-----------------------------------------------------------------------------
(***************************************************************************)
(* The theorems.                                                           *)
(***************************************************************************)
THEOREM AlwaysInductive == Spec => []IInv
  <1>1. IInv /\ [Next]_vars => IInv'
    <2> SUFFICES ASSUME IInv, [Next]_vars PROVE IInv'
      OBVIOUS
    <2>1. CASE UNCHANGED vars
      <3>1. PICK n : n = IF exiting THEN {} ELSE {Listener}
        OBVIOUS
      <3>2. Sound(W, n)'
        BY <2>1, <3>1, Stays DEF IInv, vars
      <3> QED
        BY <2>1, <3>1, <3>2 DEF IInv, vars
    <2> QED
      BY <2>1, SelectHolds, ProcessAcceptHolds, ExpireTimerHolds, ProcessPostedHolds,
         AdvanceHolds, QuitHolds, ExitHolds DEF Next
  <1> QED
    BY <1>1, InitHolds, PTL DEF Spec

\* The worker's records, queues and sets hold what their types say.
THEOREM TypeCorrect == Spec => []TypeOK
  BY AlwaysInductive, InvType, PTL

\* ngx_close_connection() leaves no event of the connection watched, posted or
\* timed, and a connection is free or open, never both and never lost.
THEOREM AlwaysNothingStale == Spec => []NothingStale
  BY AlwaysInductive, InvNothingStale, PTL

\* The index of ngx_select_add_event() and ngx_select_del_event() is that of the
\* active events, and max_read and max_write count them.
THEOREM AlwaysIndexExact == Spec => []IndexExact
  BY AlwaysInductive, InvIndexExact, PTL

\* Exactly the connections that wait for a request are in the queue that
\* ngx_drain_connections() takes from, and those between two requests are idle.
THEOREM AlwaysReusableExact == Spec => []ReusableExact
  BY AlwaysInductive, InvReusableExact, PTL

\* A client's input is never forgotten: its read event is watched for or posted,
\* and a response that waits has its write event watched for.
THEOREM AlwaysInputAwaited == Spec => []InputAwaited
  BY AlwaysInductive, InvInputAwaited, PTL

\* When ngx_event_no_timers_left() lets a worker exit, no client is connected.
THEOREM AlwaysExitLosesNoClient == Spec => []ExitLosesNoClient
  BY AlwaysInductive, InvExitLosesNoClient, PTL
=============================================================================
