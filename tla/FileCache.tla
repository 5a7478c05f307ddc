------------------------------ MODULE FileCache ------------------------------
(***************************************************************************)
(* The index of a file cache in shared memory (http/ngx_http_file_cache.c) *)
(* and the requests of all workers that use it, the cache manager and the  *)
(* cache loader.                                                           *)
(*                                                                         *)
(* A section under the mutex of the zone (module ShmMutex) is one step,    *)
(* with the system calls on files before it. Each location has its own     *)
(* min_uses and cache lock, and the zone has room for the nodes Node       *)
(* (module Slab). Time, sizes and what is on the disk are choices: a lock  *)
(* may be past its age, a node at the end of the queue past its inactive   *)
(* time, a response past its validity, the cache above max_size or its     *)
(* watermark, a file there or not. Outside the model: Vary and its         *)
(* secondary keys, bypassed requests, updates in the background, reading   *)
(* by threads.                                                             *)
(***************************************************************************)
EXTENDS Integers, Sequences, FiniteSets, SequencesExt

CONSTANTS
  Keys, Requests,
  Node,             \* nodes the zone has room for
  Manager,          \* the thread of the cache manager
  NULL,
  Locations,        \* what locations are set to: min_uses and the cache lock
  MaxFiles,         \* bound: files of an earlier run in the directory
  MaxCrashes        \* bound: requests whose worker dies

Actors  == Requests \union {Manager}

VARIABLES
  fcn,        \* the nodes of the tree, NULL where none is allocated
  queue,      \* sh->queue, the most recently used first
  cold,       \* sh->cold
  unread,     \* files the loader has still to find
  c,          \* the cache contexts of the requests, NULL where there is none
  pc,         \* where every actor is
  victim      \* the node an actor deletes

shared == <<fcn, queue, cold, unread>>
vars   == <<shared, c, pc, victim>>

Nodes == {n \in Node : fcn[n] # NULL}
Most  == CHOOSE m \in {l.min : l \in Locations} : \A l \in Locations : l.min <= m

\* No larger count of uses is told apart.
Cap(u) == IF u < Most THEN u ELSE Most

\* A node as ngx_slab_calloc_locked() and the insertion leave it.
NewNode(k) == [key |-> k, count |-> 0, uses |-> 1, error |-> FALSE,
               exists |-> FALSE, updating |-> FALSE, deleting |-> FALSE]

\* A request's context: its key, its node (NULL when it holds none), min_uses,
\* the cache lock ("timedout" when lock_timeout is zero), u->cacheable,
\* c->updating, whether c->lock_time is the node's, and c->error.
Context(k, l) == [key |-> k, node |-> NULL, min |-> l.min, lock |-> l.lock,
                  cacheable |-> TRUE, updating |-> FALSE, current |-> FALSE,
                  error |-> FALSE]

Contexts == [key : Keys, node : Node \union {NULL}, min : {l.min : l \in Locations},
             lock : {"off", "on", "timedout"}, cacheable : BOOLEAN,
             updating : BOOLEAN, current : BOOLEAN, error : BOOLEAN]

NodeFields == [key : Keys, count : Nat, uses : 1 .. Most, error : BOOLEAN,
               exists : BOOLEAN, updating : BOOLEAN, deleting : BOOLEAN]

ASSUME FileCacheAssumption ==
  /\ Manager \notin Requests
  /\ IsFiniteSet(Requests)
  /\ NULL \notin Node \union Keys \union NodeFields \union Contexts
  /\ Locations \subseteq [min : Nat \ {0}, lock : {"off", "on"}]
  /\ \E most \in Locations : \A l \in Locations : l.min <= most.min
  /\ MaxFiles \in Nat /\ MaxCrashes \in Nat

TypeOK ==
  /\ fcn \in [Node -> NodeFields \union {NULL}]
  /\ queue \in Seq(Node)
  /\ cold \in BOOLEAN /\ unread \subseteq Keys
  /\ c \in [Requests -> Contexts \union {NULL}]
  /\ pc \in [Actors -> {"idle", "exists", "forced", "unlink", "realloc", "open",
                        "validate", "lock", "waiting", "upstream", "free", "dead"}]
  /\ victim \in [Actors -> Node \union {NULL}]

\* The zone is new and the directory may hold files of an earlier run.
Init ==
  /\ fcn = [n \in Node |-> NULL]
  /\ queue = <<>>
  /\ cold = TRUE
  /\ unread \in SUBSET Keys /\ Cardinality(unread) <= MaxFiles
  /\ c = [r \in Requests |-> NULL]
  /\ pc = [a \in Actors |-> "idle"]
  /\ victim = [a \in Actors |-> NULL]

-----------------------------------------------------------------------------
(* Helpers.                                                                *)

At(a, from)  == pc[a] = from
Go(a, to)    == pc' = [pc EXCEPT ![a] = to]
Place(n)     == CHOOSE i \in DOMAIN queue : queue[i] = n
Without(n)   == RemoveAt(queue, Place(n))
ToFront(n)   == <<n>> \o Without(n)
Room         == Node \ Nodes

\* The end of the thing an actor was doing when a deletion is finished.
After(a) == IF a \in Requests THEN "realloc" ELSE "idle"

\* ngx_http_file_cache_delete() of a node nobody holds, the last of the queue
\* which is q now.  A node with a file is held while the mutex is released for
\* the system call.
Delete(a, n, q) ==
  IF fcn[n].exists
  THEN /\ fcn' = [fcn EXCEPT ![n].count = @ + 1, ![n].deleting = TRUE]
       /\ queue' = q
       /\ victim' = [victim EXCEPT ![a] = n]
       /\ Go(a, "unlink")
  ELSE /\ fcn' = [fcn EXCEPT ![n] = NULL]
       /\ queue' = Front(q)
       /\ Go(a, After(a))
       /\ UNCHANGED victim

\* A mutation: a node taken meanwhile is freed nevertheless.
MutFinishFrees(a) ==
  /\ At(a, "unlink")
  /\ fcn' = [fcn EXCEPT ![victim[a]] = NULL]
  /\ queue' = Without(victim[a])
  /\ victim' = [victim EXCEPT ![a] = NULL]
  /\ Go(a, After(a))
  /\ UNCHANGED <<cold, unread, c>>

\* The file is gone and the mutex taken again.
Finish(a) ==
  /\ At(a, "unlink")
  /\ LET n == victim[a]
     IN IF fcn[n].count = 1
        THEN /\ fcn' = [fcn EXCEPT ![n] = NULL]
             /\ queue' = Without(n)
        ELSE /\ fcn' = [fcn EXCEPT ![n].count = @ - 1, ![n].deleting = FALSE]
             /\ UNCHANGED queue
  /\ victim' = [victim EXCEPT ![a] = NULL]
  /\ Go(a, After(a))
  /\ UNCHANGED <<cold, unread, c>>

\* ngx_http_file_cache_forced_expire(): nodes in use that are met from the end
\* of the queue are moved to its front; the first that is not is deleted.  The
\* 20 tries are more than the nodes here.
ForcedExpire(a) ==
  /\ At(a, "forced")
  /\ \/ /\ \A i \in DOMAIN queue : fcn[queue[i]].count > 0
        /\ Go(a, After(a))
        /\ UNCHANGED <<fcn, queue, victim>>
     \/ \E i \in DOMAIN queue :
          /\ fcn[queue[i]].count = 0
          /\ \A j \in i + 1 .. Len(queue) : fcn[queue[j]].count > 0
          /\ Delete(a, queue[i],
                    SubSeq(queue, i + 1, Len(queue)) \o SubSeq(queue, 1, i))
  /\ UNCHANGED <<cold, unread, c>>

-----------------------------------------------------------------------------
(* Requests.                                                               *)

\* What follows ngx_http_file_cache_exists() when it has declined.
Declined(v) ==
  LET w == [v EXCEPT !.cacheable = (v.min = 1)]
  IN [c |-> w, pc |-> IF cold THEN "open" ELSE IF w.cacheable THEN "lock" ELSE "upstream"]

\* The contexts with which a request may open the cache: one that comes in, or
\* the one it has waited with.
Opening(r) ==
  IF At(r, "idle") THEN {Context(k, l) : k \in Keys, l \in Locations}
  ELSE IF At(r, "exists") THEN {c[r]} ELSE {}

\* ngx_http_file_cache_exists() finds a node, or the request has one already.
ExistsFound(r, n, fresh) ==
  \E x \in Opening(r) :
    LET first   == x.node = NULL
        v       == IF first THEN [fcn[n] EXCEPT !.count = @ + 1, !.uses = Cap(@ + 1)]
                   ELSE fcn[n]
        renewed == [v EXCEPT !.error = FALSE, !.exists = FALSE]
        held    == [x EXCEPT !.node = n, !.cacheable = TRUE]
        out     == IF v.error
                   THEN IF fresh THEN [c |-> [held EXCEPT !.error = TRUE], pc |-> "free"]
                        ELSE Declined(held)
                   ELSE IF v.exists THEN [c |-> held, pc |-> "open"]
                   ELSE IF v.uses >= held.min THEN [c |-> held, pc |-> "lock"]
                   ELSE [c |-> [held EXCEPT !.cacheable = FALSE], pc |-> "upstream"]
    IN /\ IF first THEN n \in Nodes /\ fcn[n].key = x.key ELSE n = x.node
       /\ fcn' = [fcn EXCEPT ![n] = IF v.error /\ ~ fresh THEN renewed ELSE v]
       /\ queue' = ToFront(n)
       /\ c' = [c EXCEPT ![r] = out.c]
       /\ Go(r, out.pc)
       /\ UNCHANGED <<cold, unread, victim>>

\* A node is allocated for the request; after a forced expiration the tree is
\* not searched again.
Insert(r, x, n) ==
  LET out == Declined([x EXCEPT !.node = n])
  IN /\ fcn' = [fcn EXCEPT ![n] = [NewNode(x.key) EXCEPT !.count = 1]]
     /\ queue' = <<n>> \o queue
     /\ c' = [c EXCEPT ![r] = out.c]
     /\ Go(r, out.pc)
     /\ UNCHANGED <<cold, unread, victim>>

ExistsNew(r) ==
  \E x \in Opening(r) :
    /\ x.node = NULL
    /\ \A n \in Nodes : fcn[n].key # x.key
    /\ \/ \E n \in Room : Insert(r, x, n)
       \/ /\ Room = {}
          /\ c' = [c EXCEPT ![r] = x]
          /\ Go(r, "forced")
          /\ UNCHANGED <<shared, victim>>

Realloc(r) ==
  /\ At(r, "realloc")
  /\ \/ \E n \in Room : Insert(r, c[r], n)
     \/ /\ Room = {}
        /\ c' = [c EXCEPT ![r] = NULL]
        /\ Go(r, "idle")
        /\ UNCHANGED <<shared, victim>>

\* ngx_open_cached_file() finds no file, or ngx_http_file_cache_read() finds one
\* that is none of ours, or one of them fails, or the file is read up to its
\* validity.  While the loader has not finished, that makes the node exist.
OpenFile(r) ==
  LET n     == c[r].node
      found == cold /\ ~ fcn[n].exists
  IN /\ At(r, "open")
     /\ \/ /\ Go(r, IF c[r].cacheable THEN "lock" ELSE "upstream")
           /\ UNCHANGED <<fcn, c>>
        \/ /\ Go(r, "free")
           /\ UNCHANGED <<fcn, c>>
        \/ /\ Go(r, "upstream")
           /\ c' = [c EXCEPT ![r].cacheable = TRUE]
           /\ UNCHANGED fcn
        \/ /\ Go(r, "validate")
           /\ c' = [c EXCEPT ![r].cacheable = TRUE]
           /\ fcn' = IF found THEN [fcn EXCEPT ![n].uses = 1, ![n].exists = TRUE]
                     ELSE fcn
     /\ UNCHANGED <<queue, cold, unread, victim>>

\* A valid response is sent.  A stale one is updated by one request; another is
\* answered with the stale response or goes to the server as well.
Validate(r) ==
  LET n == c[r].node
  IN /\ At(r, "validate")
     /\ \/ Go(r, "free") /\ UNCHANGED <<fcn, c>>
        \/ /\ fcn[n].updating
           /\ Go(r, "free") \/ Go(r, "upstream")
           /\ UNCHANGED <<fcn, c>>
        \/ /\ ~ fcn[n].updating
           /\ fcn' = [fcn EXCEPT ![n].updating = TRUE]
           /\ c' = [c EXCEPT ![r].updating = TRUE, ![r].current = TRUE]
           /\ Go(r, "upstream")
     /\ UNCHANGED <<queue, cold, unread, victim>>

\* The contexts when the node's lock_time is set anew.
Overtaken(n) == [q \in Requests |-> IF c[q] # NULL /\ c[q].node = n
                                    THEN [c[q] EXCEPT !.current = FALSE] ELSE c[q]]

\* ngx_http_file_cache_lock().  A lock that is held may be past its age.
Lock(r) ==
  LET n == c[r].node
  IN /\ At(r, "lock")
     /\ \/ /\ c[r].lock = "off"
           /\ Go(r, "upstream")
           /\ UNCHANGED <<fcn, c>>
        \/ /\ c[r].lock # "off"
           /\ fcn' = [fcn EXCEPT ![n].updating = TRUE]
           /\ c' = [Overtaken(n) EXCEPT ![r] = [@ EXCEPT !.updating = TRUE,
                                                         !.current = TRUE]]
           /\ Go(r, "upstream")
        \/ /\ c[r].lock = "timedout" /\ fcn[n].updating
           /\ c' = [c EXCEPT ![r].cacheable = FALSE]
           /\ Go(r, "upstream")
           /\ UNCHANGED fcn
        \/ /\ c[r].lock = "on" /\ fcn[n].updating
           /\ Go(r, "waiting")
           /\ UNCHANGED <<fcn, c>>
     /\ UNCHANGED <<queue, cold, unread, victim>>

\* ngx_http_file_cache_lock_wait(): lock_timeout has passed, or the lock is free
\* or past its age; the request opens the cache again.
LockWait(r) ==
  /\ At(r, "waiting")
  /\ c' = [c EXCEPT ![r].lock = "timedout"] \/ UNCHANGED c
  /\ Go(r, "exists")
  /\ UNCHANGED <<shared, victim>>

\* A mutation: c->updated is not set, and the node is let go of a second time.
MutUpdateTwice(r, ok) ==
  /\ c[r] # NULL /\ c[r].node \in Nodes
  /\ At(r, "upstream") /\ c[r].cacheable
  /\ fcn' = [fcn EXCEPT ![c[r].node] = [@ EXCEPT !.count = @ - 1, !.error = FALSE,
                                                 !.updating = FALSE,
                                                 !.exists = @ \/ ok]]
  /\ UNCHANGED <<queue, cold, unread, c, pc, victim>>

\* ngx_http_file_cache_update(): the temporary file has become the cached one, or
\* that has failed, and the node is changed.
Update(r, ok) ==
  /\ At(r, "upstream") /\ c[r].cacheable
  /\ LET n == c[r].node
         v == [fcn[n] EXCEPT !.count = @ - 1, !.error = FALSE, !.updating = FALSE,
                             !.exists = @ \/ ok]
     IN fcn' = [fcn EXCEPT ![n] = v]
  /\ c' = [c EXCEPT ![r] = NULL]
  /\ Go(r, "idle")
  /\ UNCHANGED <<queue, cold, unread, victim>>

\* A mutation: remembering an error leaves the node marked as being updated.
MutFreeKeepsMark(r, error) ==
  LET n == c[r].node
      v == [fcn[n] EXCEPT !.count = @ - 1,
                          !.updating = @ /\ ~ (c[r].updating /\ c[r].current /\ ~ error),
                          !.error = @ \/ error]
  IN /\ \/ At(r, "free") /\ error = c[r].error
        \/ At(r, "waiting") /\ ~ error
        \/ At(r, "upstream")
     /\ IF ~ error /\ ~ v.exists /\ v.count = 0 /\ c[r].min = 1
        THEN /\ fcn' = [fcn EXCEPT ![n] = NULL]
             /\ queue' = Without(n)
        ELSE /\ fcn' = [fcn EXCEPT ![n] = v]
             /\ UNCHANGED queue
     /\ c' = [c EXCEPT ![r] = NULL]
     /\ Go(r, "idle")
     /\ UNCHANGED <<cold, unread, victim>>

\* ngx_http_file_cache_free(), called when the request is finalized or from the
\* cleanup of its pool: it was answered from the cache, or its client has gone, or
\* the response of the server is not for the cache, or it is an error that is
\* remembered in the node.
Free(r, error) ==
  LET n == c[r].node
      v == [fcn[n] EXCEPT !.count = @ - 1,
                          !.updating = @ /\ ~ (c[r].updating /\ c[r].current),
                          !.error = @ \/ error]
  IN /\ \/ At(r, "free") /\ error = c[r].error
        \/ At(r, "waiting") /\ ~ error
        \/ At(r, "upstream")
     /\ IF ~ error /\ ~ v.exists /\ v.count = 0 /\ c[r].min = 1
        THEN /\ fcn' = [fcn EXCEPT ![n] = NULL]
             /\ queue' = Without(n)
        ELSE /\ fcn' = [fcn EXCEPT ![n] = v]
             /\ UNCHANGED queue
     /\ c' = [c EXCEPT ![r] = NULL]
     /\ Go(r, "idle")
     /\ UNCHANGED <<cold, unread, victim>>

-----------------------------------------------------------------------------
(* The cache manager, the loader and the rest of the world.                *)

\* One round of the loop of ngx_http_file_cache_expire(), which may be its last
\* by manager_threshold: the last node is past its inactive time.
Expire ==
  /\ At(Manager, "idle")
  /\ queue # <<>>
  /\ LET n == Last(queue)
     IN \/ fcn[n].count = 0 /\ Delete(Manager, n, queue)
        \/ /\ fcn[n].count > 0 /\ ~ fcn[n].deleting
           /\ queue' = ToFront(n)
           /\ UNCHANGED <<fcn, pc, victim>>
  /\ UNCHANGED <<cold, unread, c>>

\* ngx_http_file_cache_manager() has found the cache too large.
ManagerCheck ==
  /\ At(Manager, "idle")
  /\ Go(Manager, "forced")
  /\ UNCHANGED <<shared, c, victim>>

\* ngx_http_file_cache_add() for a file the loader has found; without room for a
\* node the file is deleted.
LoaderAdd(k) ==
  /\ k \in unread
  /\ unread' = unread \ {k}
  /\ \/ \E n \in Nodes :
          /\ fcn[n].key = k
          /\ queue' = ToFront(n)
          /\ UNCHANGED fcn
     \/ /\ \A n \in Nodes : fcn[n].key # k
        /\ \E n \in Room :
             /\ fcn' = [fcn EXCEPT ![n] = [NewNode(k) EXCEPT !.exists = TRUE]]
             /\ queue' = <<n>> \o queue
     \/ /\ \A n \in Nodes : fcn[n].key # k
        /\ Room = {}
        /\ UNCHANGED <<fcn, queue>>
  /\ UNCHANGED <<cold, c, pc, victim>>

LoaderDone ==
  /\ cold /\ unread = {}
  /\ cold' = FALSE
  /\ UNCHANGED <<fcn, queue, unread, c, pc, victim>>

\* The worker of a request dies between two sections; of its context the model
\* remembers the node.
Crash(r) ==
  /\ pc[r] \notin {"idle", "dead"}
  /\ Cardinality({q \in Requests : At(q, "dead")}) < MaxCrashes
  /\ c' = [c EXCEPT ![r] = IF @.node = NULL THEN NULL
                            ELSE [Context(@.key, [min |-> Most, lock |-> "off"]) EXCEPT
                                    !.node = c[r].node, !.updating = c[r].updating,
                                    !.current = c[r].current]]
  /\ Go(r, "dead")
  /\ UNCHANGED <<shared, victim>>

RequestStep(r) ==
  \/ \E n \in Node, fresh \in BOOLEAN : ExistsFound(r, n, fresh)
  \/ ExistsNew(r) \/ Realloc(r) \/ OpenFile(r) \/ Validate(r)
  \/ Lock(r) \/ LockWait(r)
  \/ \E ok \in BOOLEAN : Update(r, ok)
  \/ \E error \in BOOLEAN : Free(r, error)
  \/ Crash(r)

Next ==
  \/ \E r \in Requests : RequestStep(r)
  \/ \E a \in Actors : ForcedExpire(a) \/ Finish(a)
  \/ Expire \/ ManagerCheck
  \/ \E k \in Keys : LoaderAdd(k)
  \/ LoaderDone

Spec == Init /\ [][Next]_vars

-----------------------------------------------------------------------------
\* The requests that hold a node, those of dead workers among them, and the
\* actors that delete it.
Held(r)     == IF c[r] = NULL THEN NULL ELSE c[r].node
Holders(n)  == {r \in Requests : Held(r) = n}
Deleters(n) == {a \in Actors : victim[a] = n}

(***************************************************************************)
(* A node is never freed while a request or a deletion still uses it: its  *)
(* count is the number of those, through renewals, waits, forced           *)
(* expirations and deaths of workers; and the queue has every node once.   *)
(***************************************************************************)
NodesHeld ==
  /\ \A r \in Requests : Held(r) \in Nodes \union {NULL}
  /\ \A a \in Actors : victim[a] # NULL => victim[a] \in Nodes
  /\ \A n \in Nodes :
       fcn[n].count = Cardinality(Holders(n)) + Cardinality(Deleters(n))
  /\ ToSet(queue) = Nodes /\ IsInjective(queue)

(***************************************************************************)
(* A node marked as being updated is updated by some request, unless its   *)
(* worker has died: no request that fails, times out, or is overtaken      *)
(* after lock_age leaves the mark behind it.                               *)
(***************************************************************************)
UpdateOwned ==
  \A n \in Nodes : fcn[n].updating =>
    \E r \in Holders(n) : c[r].updating /\ c[r].current
=============================================================================
