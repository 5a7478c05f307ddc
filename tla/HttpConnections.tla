-------------------------- MODULE HttpConnections --------------------------
(***************************************************************************)
(* The loop of a worker's main thread (event/ngx_event.c) and the handlers *)
(* it runs: accepting (event/ngx_event_accept.c) and the life of a client  *)
(* connection between requests (http/ngx_http_request.c).                  *)
(*                                                                         *)
(* A handler runs to its end before the next one, so a step of the loop is *)
(* one handler; what the client does, what the parser finds and whether a  *)
(* response could be sent at once are chosen nondeterministically, which   *)
(* makes a handler the set of the states it may leave.  Outside the model: *)
(* request bodies and subrequests, upstream connections, SSL and HTTP/2,   *)
(* limit_rate, multi_accept and worker_shutdown_timeout.                   *)
(***************************************************************************)
EXTENDS EventLoop

VARIABLES
  exiting,  \* ngx_exiting
  pc        \* where the loop is

vars == <<free, open, phase, reusable, idle, list, index, active, max, ready,
          accepts, posted, timer, timedout, exiting, pc>>

TypeOK ==
  /\ free \in Seq(Conn) /\ reusable \in Seq(Conn)
  /\ open \subseteq Conn /\ idle \subseteq Conn
  /\ phase \in [Conn -> Phases]
  /\ list \in Seq(Event) /\ accepts \in Seq(Event) /\ posted \in Seq(Event)
  /\ index \in [Event -> 0 .. 2 * NC]
  /\ max \in [{"read", "write"} -> 0 .. MaxFds]
  /\ active \subseteq Event /\ ready \subseteq Event /\ timer \subseteq Event
  /\ timedout \in BOOLEAN /\ exiting \in BOOLEAN
  /\ pc \in {"select", "accept", "timers", "posted", "exit"}

\* ngx_event_process_init() has opened the listening connection.
Init ==
  /\ free = [i \in 1 .. NC - 1 |-> i]
  /\ open = {Listener}
  /\ phase = [c \in Conn |-> IF c = Listener THEN "listen" ELSE "none"]
  /\ reusable = <<>> /\ idle = {}
  /\ list = <<Read(Listener)>>
  /\ index = [e \in Event |-> IF e = Read(Listener) THEN 1 ELSE 0]
  /\ active = {Read(Listener)}
  /\ max = [d \in {"read", "write"} |-> IF d = "read" THEN 1 ELSE 0]
  /\ ready = {} /\ accepts = <<>> /\ posted = <<>> /\ timer = {}
  /\ timedout = FALSE /\ exiting = FALSE
  /\ pc = "select"

-----------------------------------------------------------------------------
(* Handlers.  Each is the set of the states in which it may return.        *)

\* After bytes are received the event stays ready if they filled the buffer.
Received(w, c) == {w, NotReady(w, Read(c))}

\* Wait for the client with the read timer armed.
RearmOrClose(w, c, e) == IF RearmFails(w, e) THEN Close(w, c) ELSE Rearm(w, e)

\* Mutant: bytes that are in already do not post the read event.
MutSetKeepaliveForgets(w, c) ==
  LET w1 == Rearm(w, Read(c))
      w2 == SetReusable([DelIfActive(w1, Write(c)) EXCEPT
                           !.phase[c] = "keepalive", !.idle = @ \union {c}],
                        c, TRUE)
  IN IF RearmFails(w, Read(c)) THEN {Close(w, c)} ELSE {AddTimer(w2, Read(c))}

SetKeepalive(w, c) ==
  LET w1 == Rearm(w, Read(c))
      w2 == SetReusable([DelIfActive(w1, Write(c)) EXCEPT
                           !.phase[c] = "keepalive", !.idle = @ \union {c}],
                        c, TRUE)
      w3 == AddTimer(w2, Read(c))
      pipelined == Post(DelTimer([w1 EXCEPT !.phase[c] = "header"], Read(c)), Read(c))
  IN IF RearmFails(w, Read(c)) THEN {Close(w, c)}
     ELSE {IF Read(c) \in w3.ready THEN Post(w3, Read(c)) ELSE w3, pipelined}

\* Bytes are discarded until the client has closed or is silent.
LingeringHandler(w, c) ==
  {Close(w, c),
   RearmOrClose(AddTimer(NotReady(w, Read(c)), Read(c)), c, Read(c))}

SetLingering(w, c) ==
  LET w1 == AddTimer([w EXCEPT !.phase[c] = "lingering"], Read(c))
      w2 == DelIfActive(Rearm(w1, Read(c)), Write(c))
  IN IF RearmFails(w1, Read(c)) THEN {Close(w, c)}
     ELSE IF Read(c) \in w2.ready THEN LingeringHandler(w2, c) ELSE {w2}

\* ngx_http_finalize_request() of a response that has been sent.
Finalize(w, c) ==
  LET w1 == DelTimer(DelTimer(w, Read(c)), Write(c))
  IN {Close(w1, c)} \union SetLingering(w1, c)
       \union (IF exiting THEN {} ELSE SetKeepalive(w1, c))

\* Mutant: the write timer is not armed.
MutBlockedNoTimer(w, c) == RearmOrClose(NotReady(w, Write(c)), c, Write(c))

\* ngx_http_set_write_handler(), ngx_http_writer(): the socket takes no more.
Blocked(w, c) ==
  RearmOrClose(AddTimer(NotReady(w, Write(c)), Write(c)), c, Write(c))

Output(w, c) == {Blocked(w, c), Close(w, c)} \union Finalize(w, c)

\* ngx_http_process_request() and the content handler.
Process(w, c) == Output(DelTimer([w EXCEPT !.phase[c] = "request"], Read(c)), c)

\* ngx_http_process_request_line(): the request is complete, or more is needed.
Await(w, c) ==
  LET w1 == AddTimer([NotReady(w, Read(c)) EXCEPT !.phase[c] = "header"], Read(c))
  IN RearmOrClose(w1, c, Read(c))

ReadHeader(w, c) ==
  {Await(w, c), Close(w, c)} \union UNION {Process(w1, c) : w1 \in Received(w, c)}

\* ngx_http_wait_request_handler()
WaitHandler(w, c) ==
  LET none == NotReady(w, Read(c))
      again == IF Read(c) \in w.timer THEN none
               ELSE SetReusable(AddTimer(none, Read(c)), c, TRUE)
  IN {Close(w, c), RearmOrClose(again, c, Read(c))}
       \union UNION {ReadHeader(SetReusable(w1, c, FALSE), c) : w1 \in Received(w, c)}

\* Mutant: the connection stays reusable when its next request begins.
MutKeepaliveStaysReusable(w, c) ==
  LET busy(v) == DelTimer([v EXCEPT !.idle = @ \ {c}], Read(c))
  IN {Close(w, c), RearmOrClose(NotReady(w, Read(c)), c, Read(c))}
       \union UNION {ReadHeader(busy(w1), c) : w1 \in Received(w, c)}

\* ngx_http_keepalive_handler()
KeepaliveHandler(w, c) ==
  LET busy(v) == DelTimer(SetReusable([v EXCEPT !.idle = @ \ {c}], c, FALSE), Read(c))
  IN {Close(w, c), RearmOrClose(NotReady(w, Read(c)), c, Read(c))}
       \union UNION {ReadHeader(busy(w1), c) : w1 \in Received(w, c)}

\* ngx_http_test_reading() while the response waits: the client is gone, or
\* its next bytes are left for later.
TestReading(w, c) == {Close(w, c), DelIfActive(w, Read(c))}

\* ngx_http_init_connection()
InitConnection(w, c) ==
  LET w1 == [w EXCEPT !.phase[c] = "wait", !.ready = @ \union {Write(c)}]
      w2 == SetReusable(AddTimer(w1, Read(c)), c, TRUE)
  IN RearmOrClose(w2, c, Read(c))

\* ngx_event_accept(), called by the posted event or by its timer: nothing to
\* accept; no descriptor left, so accepting is disabled for a while; no
\* connection left; no memory; accepted.
AcceptOne(w) ==
  LET provided == Provided(w)
      c  == Head(provided.free)
      w1 == GetConnection(provided)
  IN IF provided.free = <<>> THEN {provided}
     ELSE {FreeConnection(w1, c), InitConnection(w1, c)}

AcceptHandler(w) ==
  LET e  == Read(Listener)
      on == IF w.timedout THEN [AddEvent(w, e) EXCEPT !.timedout = FALSE] ELSE w
      w1 == NotReady(on, e)
  IN IF Listener \notin w.open THEN {NotReady([w EXCEPT !.timedout = FALSE], e)}
     ELSE IF w.timedout /\ AddFails(w, e) THEN {w}
     ELSE {w1, AddTimer(DelIfActive(w1, e), e)} \union AcceptOne(w1)

\* The handler of a posted event.
Handler(w, e) ==
  LET c == e[1]
  IN CASE w.phase[c] = "request" ->
            IF e = Write(c) THEN Output(w, c) ELSE TestReading(w, c)
       [] w.phase[c] # "request" /\ e = Write(c) -> {w}   \* the empty handler
       [] w.phase[c] = "wait"      /\ e = Read(c) -> WaitHandler(w, c)
       [] w.phase[c] = "header"    /\ e = Read(c) -> ReadHeader(w, c)
       [] w.phase[c] = "keepalive" /\ e = Read(c) -> KeepaliveHandler(w, c)
       [] w.phase[c] = "lingering" /\ e = Read(c) -> LingeringHandler(w, c)
       [] OTHER -> AcceptHandler(w)

\* The handler of an expired timer: a client is closed.
Expired(w, e) ==
  IF e = Read(Listener) THEN AcceptHandler([w EXCEPT !.timedout = TRUE])
  ELSE {Close(w, e[1])}

-----------------------------------------------------------------------------
(* The loop.                                                               *)

\* select() returns with some of the watched events ready, or none.
Select ==
  /\ pc = "select"
  /\ ~ (exiting /\ timer = {})
  /\ \E found \in SUBSET ToSet(list) : Becomes(ProcessEvents(W, found))
  /\ pc' = "accept"
  /\ UNCHANGED exiting

ProcessAccept ==
  /\ pc = "accept"
  /\ accepts # <<>>
  /\ \E w \in AcceptHandler([W EXCEPT !.accepts = Tail(@)]) : Becomes(w)
  /\ UNCHANGED <<exiting, pc>>

ExpireTimer ==
  /\ pc = "timers"
  /\ \E e \in timer : \E w \in Expired(DelTimer(W, e), e) : Becomes(w)
  /\ UNCHANGED <<exiting, pc>>

ProcessPosted ==
  /\ pc = "posted"
  /\ posted # <<>>
  /\ \E w \in Handler([W EXCEPT !.posted = Tail(@)], Head(posted)) : Becomes(w)
  /\ UNCHANGED <<exiting, pc>>

Advance ==
  /\ \/ pc = "accept" /\ accepts = <<>> /\ pc' = "timers"
     \/ pc = "timers" /\ pc' = "posted"
     \/ pc = "posted" /\ posted = <<>> /\ pc' = "select"
  /\ UNCHANGED <<free, open, phase, reusable, idle, list, index, active, max,
                 ready, accepts, posted, timer, timedout, exiting>>

\* The quit event is seen when the events have been processed.
Quit ==
  /\ pc = "select"
  /\ ~ exiting
  /\ exiting' = TRUE
  /\ Becomes(CloseIdleConnections(CloseListening(W)))
  /\ UNCHANGED pc

\* A worker that is exiting leaves when no timer is left.
Exit ==
  /\ pc = "select"
  /\ exiting
  /\ timer = {}
  /\ pc' = "exit"
  /\ UNCHANGED <<free, open, phase, reusable, idle, list, index, active, max,
                 ready, accepts, posted, timer, timedout, exiting>>

Next ==
  \/ Select \/ ProcessAccept \/ ExpireTimer \/ ProcessPosted \/ Advance
  \/ Quit \/ Exit

(***************************************************************************)
(* The worker runs until it exits.  A timer that is armed over and over    *)
(* may be put off, but not for ever: the timer of a header is armed once,  *)
(* lingering has a limit, a response ends.  These are the weak fairness of *)
(* a turn and the strong fairness of an expiry, with what enables them     *)
(* written out: every handler returns.                                     *)
(***************************************************************************)
Turn == Select \/ ProcessAccept \/ ProcessPosted \/ Advance \/ Exit

Fairness ==
  /\ <>[](pc # "exit") => []<><<Turn>>_vars
  /\ []<>(pc = "timers" /\ timer # {}) => []<><<ExpireTimer>>_vars

Spec == Init /\ [][Next]_vars /\ Fairness

-----------------------------------------------------------------------------
(***************************************************************************)
(* A closed connection leaves nothing behind: whatever is watched, posted, *)
(* reusable or idle belongs to an open connection, and so does a timer,    *)
(* unless it is that of the listening event when the sockets are closed    *)
(* while accepting is disabled.  A connection is free or open, never both  *)
(* and never lost.                                                         *)
(***************************************************************************)
NothingStale ==
  /\ \A e \in ToSet(list) \union ToSet(posted) \union ToSet(accepts)
              \union active \union ready \union timer :
       e[1] \in open \/ e = Read(Listener)
  /\ Listener \notin open => Read(Listener) \notin active
  /\ ToSet(reusable) \union idle \subseteq open
  /\ ToSet(free) = Conn \ open
  /\ IsInjective(free) /\ IsInjective(reusable) /\ IsInjective(posted)

(***************************************************************************)
(* The index of watched events and the events agree both ways through the  *)
(* moves of ngx_select_del_event(), and the counters that enforce          *)
(* FD_SETSIZE count the events of each set.                                *)
(***************************************************************************)
IndexExact ==
  /\ \A i \in 1 .. Len(list) : index[list[i]] = i
  /\ \A e \in Event : (e \in active) = (e \in ToSet(list))
                      /\ (index[e] = 0) = (e \notin active)
  /\ \A d \in {"read", "write"} :
       max[d] = Cardinality({e \in active : e[2] = d})

(***************************************************************************)
(* Only connections between requests are reusable: draining closes no      *)
(* request in progress, and finds a connection to close whenever one waits *)
(* for its client.                                                         *)
(***************************************************************************)
ReusableExact ==
  /\ ToSet(reusable) = {c \in open : phase[c] \in {"wait", "keepalive"}}
  /\ idle = {c \in open : phase[c] = "keepalive"}

(***************************************************************************)
(* A connection that waits for its client is watched for it, or its event  *)
(* is posted already: input is never forgotten until the timeout.          *)
(***************************************************************************)
InputAwaited ==
  \A c \in open :
    /\ phase[c] \in {"wait", "header", "keepalive", "lingering"} =>
         Read(c) \in active \/ IsPosted(W, Read(c))
    /\ phase[c] = "request" => Write(c) \in active

(***************************************************************************)
(* When the worker looks for timers to decide that it may exit, every      *)
(* client connection has one; so it leaves no client behind.               *)
(***************************************************************************)
ExitLosesNoClient ==
  /\ pc = "select" =>
       \A c \in open \ {Listener} : {Read(c), Write(c)} \intersect timer # {}
  /\ pc = "exit" => open = {}
  /\ exiting /\ pc = "select" => idle = {}

(***************************************************************************)
(* A worker told to quit gracefully leaves: it accepts nobody any more,    *)
(* keeps no connection alive, and each client it still has finishes or     *)
(* times out.                                                              *)
(***************************************************************************)
ExitingEnds == exiting ~> pc = "exit"
=============================================================================
