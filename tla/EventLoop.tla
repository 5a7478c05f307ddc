----------------------------- MODULE EventLoop -----------------------------
(***************************************************************************)
(* The connections and events of one worker: the free list and the queue   *)
(* of reusable connections (core/ngx_connection.c), the descriptors that   *)
(* select() watches (event/modules/ngx_win32_select_module.c), the posted  *)
(* events and the timers (event/ngx_event_posted.c, ngx_event_timer.h).    *)
(*                                                                         *)
(* A handler calls these functions in sequence, so each of them is an      *)
(* operator from a record of the worker's state to the next one, and       *)
(* module HttpConnections composes them into handlers and into the loop.   *)
(* A descriptor stands for its connection; the order of timers in the tree *)
(* is not kept, any of them may be the next to expire.                     *)
(***************************************************************************)
EXTENDS Integers, Sequences, FiniteSets, SequencesExt

CONSTANTS
  NC,      \* worker_connections
  MaxFds   \* FD_SETSIZE, the limit of each descriptor set

ASSUME EventLoopAssumption == NC \in Nat \ {0, 1} /\ MaxFds \in Nat \ {0}

Conn     == 0 .. NC - 1
Listener == 0            \* ngx_event_process_init() takes the first connection
Read(c)  == <<c, "read">>
Write(c) == <<c, "write">>
Event    == Conn \X {"read", "write"}

Phases == {"none", "listen", "wait", "header", "request", "keepalive", "lingering"}

VARIABLES
  free,      \* free_connections, the next to be given first
  open,      \* connections with a descriptor
  phase,     \* the handlers of a connection's events
  reusable,  \* reusable_connections_queue, head first
  idle,      \* connections with c->idle
  list,      \* event_index: the events select() watches
  index,     \* ev->index, 0 for NGX_INVALID_INDEX
  active,    \* events with ev->active
  max,       \* max_read and max_write
  ready,     \* events with ev->ready
  accepts,   \* ngx_posted_accept_events
  posted,    \* ngx_posted_events
  timer,     \* events with ev->timer_set
  timedout   \* ev->timedout of the listening event

W == [free |-> free, open |-> open, phase |-> phase, reusable |-> reusable,
      idle |-> idle, list |-> list, index |-> index, active |-> active,
      max |-> max, ready |-> ready, accepts |-> accepts, posted |-> posted,
      timer |-> timer, timedout |-> timedout]

\* The worker's state is w when a handler returns.
Becomes(w) ==
  /\ free' = w.free /\ open' = w.open /\ phase' = w.phase
  /\ reusable' = w.reusable /\ idle' = w.idle /\ list' = w.list
  /\ index' = w.index /\ active' = w.active /\ max' = w.max
  /\ ready' = w.ready /\ accepts' = w.accepts /\ posted' = w.posted
  /\ timer' = w.timer /\ timedout' = w.timedout

-----------------------------------------------------------------------------
(* The select() event module.                                              *)

\* Mutant: one event too many for the set of descriptors.
MutAddFailsLate(w, e) == w.index[e] = 0 /\ w.max[e[2]] > MaxFds

AddFails(w, e) == w.index[e] = 0 /\ w.max[e[2]] >= MaxFds

AddEvent(w, e) ==
  IF w.index[e] # 0 THEN w
  ELSE [w EXCEPT !.active = @ \union {e},
                 !.max[e[2]] = @ + 1,
                 !.list = Append(@, e),
                 !.index[e] = Len(w.list) + 1]

\* Mutant: the event that is moved keeps its old index.
MutDelEventKeepsIndex(w, e) ==
  IF w.index[e] = 0 THEN [w EXCEPT !.active = @ \ {e}]
  ELSE LET n == Len(w.list)
       IN [w EXCEPT !.active = @ \ {e},
                    !.max[e[2]] = @ - 1,
                    !.list = SubSeq([@ EXCEPT ![w.index[e]] = w.list[n]], 1, n - 1),
                    !.index[e] = 0]

\* The last event of the index takes the place of the deleted one.
DelEvent(w, e) ==
  IF w.index[e] = 0 THEN [w EXCEPT !.active = @ \ {e}]
  ELSE LET n    == Len(w.list)
           last == w.list[n]
       IN [w EXCEPT !.active = @ \ {e},
                    !.max[e[2]] = @ - 1,
                    !.list = SubSeq([@ EXCEPT ![w.index[e]] = last], 1, n - 1),
                    !.index = [@ EXCEPT ![last] = w.index[e], ![e] = 0]]

\* ngx_handle_read_event() and ngx_handle_write_event() of a level-triggered
\* event module.
Adds(w, e)        == e \notin w.active /\ e \notin w.ready
RearmFails(w, e)  == Adds(w, e) /\ AddFails(w, e)
Rearm(w, e) ==
  IF Adds(w, e) THEN AddEvent(w, e)
  ELSE IF e \in w.active /\ e \in w.ready THEN DelEvent(w, e)
  ELSE w

DelIfActive(w, e) == IF e \in w.active THEN DelEvent(w, e) ELSE w

\* ngx_queue_remove(): an element leaves its queue.
Without(s, x) ==
  IF x \in ToSet(s) THEN RemoveAt(s, CHOOSE i \in DOMAIN s : s[i] = x) ELSE s

\* The event is a member of a posted queue exactly while ev->posted is set.
IsPosted(w, e) == e \in ToSet(w.posted) \union ToSet(w.accepts)
Post(w, e)     == IF IsPosted(w, e) THEN w ELSE [w EXCEPT !.posted = Append(@, e)]
Unpost(w, e)   == [w EXCEPT !.posted = Without(@, e), !.accepts = Without(@, e)]

\* ngx_select_process_events(): the events found ready are posted in the
\* order of the index.
PostFound(w, e) ==
  LET w1 == [w EXCEPT !.ready = @ \union {e}]
  IN IF e = Read(Listener) /\ ~ IsPosted(w, e)
     THEN [w1 EXCEPT !.accepts = Append(@, e)]
     ELSE Post(w1, e)

ProcessEvents(w, found) ==
  LET processed[i \in 0 .. Len(w.list)] ==
        IF i = 0 THEN w
        ELSE LET v == processed[i - 1]
                 e == w.list[i]
             IN IF e \in found THEN PostFound(v, e) ELSE v
  IN processed[Len(w.list)]

AddTimer(w, e) == [w EXCEPT !.timer = @ \union {e}]
DelTimer(w, e) == [w EXCEPT !.timer = @ \ {e}]
NotReady(w, e) == [w EXCEPT !.ready = @ \ {e}]

-----------------------------------------------------------------------------
(* Connections.                                                            *)

SetReusable(w, c, on) ==
  LET rest == Without(w.reusable, c)
  IN [w EXCEPT !.reusable = IF on THEN <<c>> \o rest ELSE rest]

FreeConnection(w, c) ==
  [w EXCEPT !.free = <<c>> \o @, !.open = @ \ {c}, !.phase[c] = "none"]

\* Mutant: the events that are posted stay posted.
MutCloseStaysPosted(w, c) ==
  LET w1 == DelTimer(DelTimer(w, Read(c)), Write(c))
      w2 == DelIfActive(DelIfActive(w1, Read(c)), Write(c))
      w3 == FreeConnection(SetReusable(w2, c, FALSE), c)
  IN [w3 EXCEPT !.ready = @ \ {Read(c), Write(c)}, !.idle = @ \ {c}]

\* ngx_close_connection().  The flags of the dead events, which
\* ngx_get_connection() clears, are cleared here.
Close(w, c) ==
  LET w1 == DelTimer(DelTimer(w, Read(c)), Write(c))
      w2 == DelIfActive(DelIfActive(w1, Read(c)), Write(c))
      w3 == Unpost(Unpost(w2, Read(c)), Write(c))
      w4 == FreeConnection(SetReusable(w3, c, FALSE), c)
  IN [w4 EXCEPT !.ready = @ \ {Read(c), Write(c)}, !.idle = @ \ {c}]

\* The read handler called with c->close set: those of a connection that waits
\* for a request close it, another one does not look at the flag first.
CloseIdle(w, c) ==
  IF w.phase[c] \in {"wait", "keepalive"} THEN Close(w, c) ELSE w

\* ngx_drain_connections(): the connections that have been reusable longest.
DrainCount(w) ==
  LET eighth == Len(w.reusable) \div 8
  IN IF eighth > 32 THEN 32 ELSE IF eighth < 1 THEN 1 ELSE eighth

Drain(w) ==
  LET drained[i \in 0 .. DrainCount(w)] ==
        IF i = 0 THEN w
        ELSE LET v == drained[i - 1]
             IN IF v.reusable = <<>> THEN v ELSE CloseIdle(v, Last(v.reusable))
  IN drained[DrainCount(w)]

\* ngx_get_connection(): the state to take the first free connection from.
Provided(w) == IF w.free = <<>> THEN Drain(w) ELSE w

GetConnection(w) ==
  LET c == Head(w.free)
  IN [w EXCEPT !.free = Tail(@), !.open = @ \union {c},
               !.index[Read(c)] = 0, !.index[Write(c)] = 0]

\* ngx_close_idle_connections()
CloseIdleConnections(w) ==
  LET closed[i \in 0 .. NC] ==   \* the connections below i are looked at
        IF i = 0 THEN w
        ELSE LET v == closed[i - 1]
             IN IF i - 1 \in v.open \intersect v.idle THEN CloseIdle(v, i - 1) ELSE v
  IN closed[NC]

\* Mutant: the listening socket is still watched.
MutCloseListeningWatched(w) == w

\* ngx_close_listening_sockets() leaves the timer of the listening event.
CloseListening(w) == FreeConnection(DelIfActive(w, Read(Listener)), Listener)
=============================================================================
