-------------------------------- MODULE Smacks --------------------------------
(***************************************************************************)
(* Stream management for one client session (plugins/mod_smacks.lua), with *)
(* what it drives: the connection table, close and disconnect handling of  *)
(* plugins/mod_c2s.lua, session destruction and transplanting of           *)
(* core/sessionmanager.lua, the hibernation watchdog of util/watchdog.lua  *)
(* and the session's runner thread (util/async.lua).                       *)
(*                                                                         *)
(* The session under study, "S", is bound on connection 1.  A client that  *)
(* lost its connection opens the next one, where a fresh session "N"       *)
(* authenticates and asks to resume S.  The client is honest: it counts    *)
(* what it handled, acknowledges that, and on resumption sends again what  *)
(* the server did not count.  A connection carries a FIFO of items each    *)
(* way; the client may lose it at any moment and the server notices later, *)
(* having read any prefix of what was sent.                                *)
(***************************************************************************)
EXTENDS SmQueueOps, Functions

CONSTANTS MaxConn,     \* bound: connections the client opens
          MaxOut,      \* bound: stanzas routed to the session
          MaxIn,       \* bound: stanzas the client sends
          MaxAsk,      \* bound: acks the client volunteers or requests on its own
          MaxUnacked,  \* smacks_max_unacked_stanzas
          MayWait,     \* handlers may wait (util/async), blocking the thread
          MayCut,      \* a connection may break in the middle of a stanza
          MayCloseEarly, \* a session may be ended before stream management is on
          MayStop      \* the server may be stopped and started again, once

ASSUME SmacksAssumption ==
  /\ MaxConn \in Nat \ {0} /\ MaxOut \in Nat /\ MaxIn \in Nat /\ MaxAsk \in Nat /\ MaxUnacked \in Nat
  /\ {MayWait, MayCut, MayCloseEarly, MayStop} \subseteq BOOLEAN

Conn == 1..MaxConn
None == 0             \* no connection
NoH == -1             \* no h attribute

VARIABLES
  srv,     \* the session, the tables that refer to it, and for each connection
           \* what is in flight: up[c] to the server, down[c] to the client
  thread,  \* "ready" or "waiting": the state of session.thread
  inbox,   \* the items queued in session.thread
  chunk,   \* [c, n]: n items of the data read from c are still to be parsed
  paused,  \* connections the runner paused while waiting
  partial, \* the session's XML parser holds an incomplete stanza
  cl,      \* the client
  hist     \* what happened, for the properties

vars == <<srv, thread, inbox, chunk, paused, partial, cl, hist>>

Item(t, n) == [t |-> t, n |-> n]

SmacksInit ==
  /\ srv = [smacks |-> "nil", token |-> FALSE, registered |-> FALSE, q |-> NewQueue,
            hibernating |-> FALSE, watchdog |-> "none", awaiting_ack |-> FALSE,
            last_requested_h |-> 0, handled |-> 0, destroyed |-> FALSE,
            conn |-> 1, closing |-> FALSE, grace |-> FALSE, old_h |-> NoH,
            owner |-> [c \in Conn |-> IF c = 1 THEN "S" ELSE "none"],
            closed |-> {}, up |-> [c \in Conn |-> <<>>], down |-> [c \in Conn |-> <<>>],
            failed |-> {}]
  /\ thread = "ready"
  /\ inbox = <<>>
  /\ chunk = [c |-> None, n |-> 0]
  /\ paused = {}
  /\ partial = FALSE
  /\ cl = [phase |-> "bound", conn |-> 1, got |-> <<>>, sent |-> 0, acked |-> 0, asks |-> 0]
  /\ hist = [out |-> 0, lost |-> {}, done |-> <<>>, rejected |-> FALSE, stopped |-> FALSE]
-----------------------------------------------------------------------------
(* Handlers, as functions of the server's state x. *)

(* Bytes written to a connection the client has left reach nobody. *)
Transmit(x, c, items) ==
  IF c = cl.conn THEN [x EXCEPT !.down[c] = @ \o items] ELSE x

(* session.send for anything that is not a stanza; closing sessions and    *)
(* sessions without a connection swallow it.                               *)
Send(x, i) ==
  IF x.conn # None /\ ~x.closing THEN Transmit(x, x.conn, <<i>>) ELSE x

CloseConn(x, c) ==
  IF c = None THEN x ELSE [x EXCEPT !.closed = @ \union {c}, !.owner[c] = "none",
                                        !.up[c] = <<>>]

should_ack(x, force) ==
  /\ ~x.destroyed /\ x.smacks = "on" /\ ~x.hibernating /\ ~x.awaiting_ack
  /\ force \/ /\ CountUnacked(x.q) > MaxUnacked
              /\ CountAcked(x.q) + CountUnacked(x.q) # x.last_requested_h

request_ack_now_if_needed(x, force) ==
  IF should_ack(x, force)
    THEN [Send(x, Item("r", 0)) EXCEPT !.awaiting_ack = TRUE,
                                       !.last_requested_h = CountAcked(x.q) + CountUnacked(x.q)]
    ELSE x

(* Every stanza still held goes to delivery/failure: stored offline or     *)
(* answered with an error.                                                 *)
handle_unacked_stanzas(x) ==
  IF CountUnacked(x.q) > 0
    THEN [x EXCEPT !.smacks = "off", !.q = Consume(@),
                   !.failed = @ \union Range(x.q.queue)]
    ELSE x

(* Mutant: hibernates without a watchdog to end it. *)
hibernate_nodog(x) ==
  [CloseConn(x, x.conn) EXCEPT !.hibernating = TRUE, !.conn = None]

hibernate(x) ==
  [CloseConn(x, x.conn) EXCEPT !.hibernating = TRUE, !.watchdog = "armed", !.conn = None]

(* retire_session: no field of the session survives, and neither does its  *)
(* entry among the user's resources.  The registry is not touched.         *)
retire(x) ==
  [x EXCEPT !.destroyed = TRUE, !.smacks = "nil", !.token = FALSE, !.hibernating = FALSE,
            !.watchdog = "none", !.conn = None, !.q = Consume(@)]

(* Mutant: forgets the stanzas of a session that cannot be resumed. *)
destroy_session_drop(x) ==
  CASE x.destroyed -> x
    [] ~x.destroyed /\ x.smacks = "on" /\ x.token /\ ~x.hibernating -> hibernate(x)
    [] OTHER -> retire(x)

(* destroy_session, with mod_smacks' pre-resource-unbind hook: a resumable *)
(* session hibernates instead.                                             *)
destroy_session(x) ==
  CASE x.destroyed -> x
    [] ~x.destroyed /\ x.smacks = "on" /\ x.token /\ ~x.hibernating -> hibernate(x)
    [] ~x.destroyed /\ x.smacks = "on" /\ ~x.token -> retire(handle_unacked_stanzas(x))
    [] OTHER -> retire(x)

pre_session_close(x) ==
  IF x.smacks = "nil" THEN x
    ELSE LET y == [x EXCEPT !.token = FALSE, !.watchdog = "none",
                            !.registered = @ /\ ~x.token]
         IN IF y.smacks = "on" THEN Send(y, Item("a", y.handled)) ELSE y

(* session:close(reason): "error" is a stream error or a shutdown,         *)
(* "client" the answer to the client's </stream:stream>, "none" a clean    *)
(* close by the server, which leaves the client time to answer.            *)
session_close(x, reason) ==
  LET y == pre_session_close(x)
  IN CASE x.destroyed -> x
       [] ~x.destroyed /\ y.conn = None -> destroy_session(y)
       [] ~x.destroyed /\ y.conn # None /\ reason = "none" ->
            [Send(y, Item("end", 0)) EXCEPT !.closing = TRUE, !.grace = TRUE]
       [] OTHER -> CloseConn(destroy_session([Send(y, Item("end", 0)) EXCEPT !.closing = TRUE]),
                             y.conn)

(* listener.ondisconnect *)
ondisconnect(x, c) ==
  CloseConn(IF x.owner[c] = "S" THEN destroy_session(x) ELSE x, c)

(* The watchdog's callback, once it runs in the session's thread. *)
expire(x) ==
  destroy_session([x EXCEPT !.old_h = x.handled, !.registered = FALSE, !.token = FALSE])

handle_enable(x) ==
  IF x.smacks = "on" THEN Send(x, Item("failed", NoH))
    ELSE [Send(x, Item("enabled", 0)) EXCEPT
            !.smacks = "on", !.token = TRUE, !.registered = TRUE,
            !.q = NewQueue, !.handled = 0]

handle_a(x, h) ==
  LET y == [x EXCEPT !.awaiting_ack = FALSE]
  IN CASE x.smacks # "on" -> x
       [] x.smacks = "on" /\ AckError(x.q, h) # "none" -> session_close(y, "error")
       [] OTHER -> request_ack_now_if_needed([y EXCEPT !.q = Ack(@, h)], FALSE)

handle_r(x) ==
  IF x.smacks # "on" THEN x
    ELSE request_ack_now_if_needed(Send(x, Item("a", x.handled)), FALSE)

(* outgoing_stanza_filter behind session.send: the copy kept is the one    *)
(* resent.                                                                 *)
send_stanza(x, n) ==
  IF x.hibernating THEN [x EXCEPT !.q = Push(@, n)]
    ELSE Send([x EXCEPT !.q = Push(@, n)], Item("stanza", n))

(* Mutant: the replaced connection still belongs to S. *)
update_session_keep(x, c) ==
  [x EXCEPT !.conn = c, !.owner[c] = "S", !.hibernating = FALSE]

(* update_session and the c2s-session-updated hook: S takes over the       *)
(* connection of N; the connection it may still have is closed.            *)
update_session(x, c) ==
  [CloseConn(x, x.conn) EXCEPT !.conn = c, !.owner[c] = "S", !.hibernating = FALSE]

(* The finish function of do_resume: what the client did not acknowledge   *)
(* is sent again as it stands in the queue, then an ack is requested.      *)
finish_resume(x) ==
  LET resent == [i \in DOMAIN x.q.queue |-> Item("stanza", x.q.queue[i])]
  IN request_ack_now_if_needed([Transmit(x, x.conn, resent) EXCEPT !.awaiting_ack = FALSE], TRUE)

(* Mutant: resumes although stanzas have dropped out of the queue. *)
handle_resume_overflow(x, c, h) ==
  IF ~x.registered \/ x.destroyed
    THEN Transmit([x EXCEPT !.registered = FALSE, !.old_h = NoH], c, <<Item("failed", x.old_h)>>)
    ELSE LET y == [x EXCEPT !.watchdog = "none"]
             z == [y EXCEPT !.q = Ack(@, h)]
         IN IF AckError(x.q, h) # "none" THEN Transmit(y, c, <<Item("failed", NoH)>>)
              ELSE finish_resume(Send(update_session(z, c), Item("resumed", z.handled)))

(* Mutant: the watchdog is left armed. *)
handle_resume_dog(x, c, h) ==
  IF ~x.registered \/ x.destroyed
    THEN Transmit([x EXCEPT !.registered = FALSE, !.old_h = NoH], c, <<Item("failed", x.old_h)>>)
    ELSE LET z == [x EXCEPT !.q = Ack(@, h)]
         IN CASE AckError(x.q, h) # "none" -> Transmit(x, c, <<Item("failed", NoH)>>)
              [] AckError(x.q, h) = "none" /\ ~Resumable(z.q) ->
                   Transmit(z, c, <<Item("failed", NoH)>>)
              [] OTHER -> finish_resume(Send(update_session(z, c), Item("resumed", z.handled)))

(* handle_resume with do_resume, run by N on connection c.                 *)
handle_resume(x, c, h) ==
  IF ~x.registered \/ x.destroyed
    THEN Transmit([x EXCEPT !.registered = FALSE, !.old_h = NoH], c, <<Item("failed", x.old_h)>>)
    ELSE LET y == [x EXCEPT !.watchdog = "none"]
             z == [y EXCEPT !.q = Ack(@, h)]
         IN CASE AckError(x.q, h) # "none" -> Transmit(y, c, <<Item("failed", NoH)>>)
              [] AckError(x.q, h) = "none" /\ ~Resumable(z.q) ->
                   Transmit(z, c, <<Item("failed", NoH)>>)
              [] OTHER -> finish_resume(Send(update_session(z, c), Item("resumed", z.handled)))

(* mod_smacks' server-stopping hook, then mod_c2s', then the process ends; *)
(* only the stored h survives.                                             *)
server_stopping(x) ==
  LET y == IF x.token
             THEN session_close([CloseConn(handle_unacked_stanzas(
                    [x EXCEPT !.old_h = x.handled, !.registered = FALSE, !.token = FALSE]),
                    x.conn) EXCEPT !.conn = None], "error")
             ELSE session_close(x, "error")
  IN [y EXCEPT !.owner = [c \in Conn |-> "none"], !.registered = FALSE,
                !.closed = @ \union {c \in Conn : y.owner[c] # "none"}]
-----------------------------------------------------------------------------
(* The server is single-threaded: what follows one event runs to its end,  *)
(* unless the session's thread waits.                                      *)
Settled == thread = "waiting" \/ inbox = <<>>
Idle == Settled /\ chunk.n = 0

(* The core routes stanza hist.out + 1 to the session. *)
RouteStanza ==
  /\ Idle /\ ~srv.destroyed /\ srv.smacks = "on" /\ ~srv.closing /\ hist.out < MaxOut
  /\ srv' = send_stanza(srv, hist.out + 1)
  /\ hist' = [hist EXCEPT !.out = @ + 1,
                          !.lost = @ \union (Range(srv.q.queue) \ Range(srv'.q.queue))]
  /\ UNCHANGED <<thread, inbox, chunk, paused, partial, cl>>

(* c2s-pre-ondrain and csi-flushing do not force a request, csi-client-    *)
(* active does.                                                            *)
RequestAck(force) ==
  /\ Idle /\ should_ack(srv, force) /\ ~srv.closing
  /\ srv' = request_ack_now_if_needed(srv, force)
  /\ UNCHANGED <<thread, inbox, chunk, paused, partial, cl, hist>>

(* handle_read_timeout: kick the session if it owes an answer, else ask. *)
ReadTimeout ==
  /\ Idle /\ srv.conn # None /\ srv.smacks = "on" /\ ~srv.closing
  /\ srv' = IF srv.awaiting_ack THEN ondisconnect(srv, srv.conn)
              ELSE request_ack_now_if_needed(srv, TRUE)
  /\ UNCHANGED <<thread, inbox, chunk, paused, partial, cl, hist>>

Disconnect(c) ==
  /\ Idle /\ srv.owner[c] # "none" /\ cl.conn # c
  /\ srv' = ondisconnect(srv, c)
  /\ UNCHANGED <<thread, inbox, chunk, paused, partial, cl, hist>>

(* An operator ends the session, or another module closes it. *)
CloseSession(reason) ==
  /\ Idle /\ ~srv.destroyed /\ ~srv.closing
  /\ reason = "none" => srv.smacks = "on" \/ MayCloseEarly
  /\ srv' = session_close(srv, reason)
  /\ UNCHANGED <<thread, inbox, chunk, paused, partial, cl, hist>>

(* The client did not answer a clean close in time. *)
GraceTimeout ==
  /\ Idle /\ srv.grace
  /\ srv' = IF srv.destroyed THEN [srv EXCEPT !.grace = FALSE]
              ELSE CloseConn(destroy_session([srv EXCEPT !.grace = FALSE]), srv.conn)
  /\ UNCHANGED <<thread, inbox, chunk, paused, partial, cl, hist>>

(* The watchdog's timer: the checks are made now, the rest when the        *)
(* session's thread gets to it.                                            *)
WatchdogFires ==
  /\ Idle /\ srv.watchdog = "armed"
  /\ srv' = [srv EXCEPT !.watchdog = "fired"]
  /\ inbox' = IF srv.token THEN Append(inbox, Item("expire", 0)) ELSE inbox
  /\ UNCHANGED <<thread, chunk, paused, partial, cl, hist>>

ServerStops ==
  /\ Idle /\ MayStop /\ ~hist.stopped
  /\ srv' = server_stopping(srv)
  /\ inbox' = <<>>
  /\ thread' = "ready"
  /\ hist' = [hist EXCEPT !.stopped = TRUE]
  /\ UNCHANGED <<chunk, paused, partial, cl>>
-----------------------------------------------------------------------------
(* Mutant: counts nothing. *)
count_incoming_none(x, i) == x

count_incoming_stanzas(x, i) ==
  IF i.t = "stanza" /\ x.smacks # "nil" THEN [x EXCEPT !.handled = @ + 1] ELSE x

(* The parser hands one item to the session: filtered at once, queued for  *)
(* the thread.  Data for a resumed session still goes through the parser   *)
(* S was created with, whatever that holds.                                *)
FeedItem(c) ==
  LET i == Head(srv.up[c])
      x == [srv EXCEPT !.up[c] = Tail(@)]
  IN /\ \/ /\ srv.owner[c] = "N" /\ i.t = "resume"
           /\ srv' = handle_resume(x, c, i.n)
           /\ UNCHANGED <<inbox, partial>>
        \/ /\ srv.owner[c] = "S" /\ ~srv.destroyed /\ ~partial
           /\ srv' = count_incoming_stanzas(x, i)
           /\ inbox' = IF i.t = "half" THEN inbox ELSE Append(inbox, i)
           /\ partial' = (i.t = "half")
        \/ /\ \/ srv.owner[c] = "N" /\ i.t # "resume"
              \/ srv.owner[c] = "S" /\ (srv.destroyed \/ partial)
           /\ srv' = x
           /\ UNCHANGED <<inbox, partial>>
     /\ UNCHANGED <<thread, paused, cl, hist>>

(* Data arrives: some items, parsed one after the other. *)
ReadChunk(c) ==
  /\ Idle /\ srv.owner[c] # "none" /\ c \notin paused /\ srv.up[c] # <<>>
  /\ \E n \in IF MayWait THEN 1..Len(srv.up[c]) ELSE {1} : chunk' = [c |-> c, n |-> n - 1]
  /\ FeedItem(c)

FeedRest ==
  /\ Settled /\ chunk.n > 0
  /\ IF srv.up[chunk.c] # <<>>
       THEN chunk' = [chunk EXCEPT !.n = @ - 1] /\ FeedItem(chunk.c)
       ELSE chunk' = [chunk EXCEPT !.n = 0]
            /\ UNCHANGED <<srv, inbox, partial, thread, paused, cl, hist>>

(* The session's thread takes its next item.  A stanza's handler may wait. *)
RunItem ==
  LET i == Head(inbox)
  IN /\ thread = "ready" /\ inbox # <<>>
     /\ inbox' = Tail(inbox)
     /\ srv' = CASE srv.destroyed \/ i.t = "stanza" -> srv
                 [] ~srv.destroyed /\ i.t = "enable" -> handle_enable(srv)
                 [] ~srv.destroyed /\ i.t = "a" -> handle_a(srv, i.n)
                 [] ~srv.destroyed /\ i.t = "r" -> handle_r(srv)
                 [] ~srv.destroyed /\ i.t = "expire" -> expire(srv)
                 [] ~srv.destroyed /\ i.t = "close" -> session_close(srv, "client")
     /\ hist' = [hist EXCEPT
          !.done = IF i.t = "stanza" /\ i.n > 0 /\ ~srv.destroyed THEN Append(@, i.n) ELSE @,
          !.rejected = @ \/ (/\ i.t = "a" /\ ~srv.destroyed /\ srv.smacks = "on"
                             /\ srv.conn # None /\ srv.conn = cl.conn
                             /\ AckError(srv.q, i.n) # "none")]
     /\ \/ UNCHANGED <<thread, paused>>
        \/ /\ MayWait /\ i.t = "stanza" /\ ~srv.destroyed
           /\ thread' = "waiting"
           /\ paused' = paused \union ({srv.conn} \ {None})
     /\ UNCHANGED <<chunk, partial, cl>>

(* What the handler waited for happened; the queued items run next. *)
Wake ==
  /\ thread = "waiting" /\ chunk.n = 0
  /\ thread' = "ready"
  /\ paused' = paused \ {srv.conn}
  /\ UNCHANGED <<srv, inbox, chunk, partial, cl, hist>>
-----------------------------------------------------------------------------
(* The client (external).  It acts between two turns of the server's event *)
(* loop; what it sends on a closed connection is lost.                     *)

Deliver(x, items) ==
  IF x.owner[cl.conn] = "none" THEN x ELSE [x EXCEPT !.up[cl.conn] = @ \o items]

ClientSends(items) ==
  /\ Idle
  /\ srv' = Deliver(srv, items)
  /\ UNCHANGED <<thread, inbox, chunk, paused, partial, hist>>

(* Before enabling stream management: a request that is not counted. *)
ClientEarlyStanza ==
  /\ MayWait /\ cl.phase = "bound" /\ cl.asks < MaxAsk
  /\ ClientSends(<<Item("stanza", 0)>>)
  /\ cl' = [cl EXCEPT !.asks = @ + 1]

ClientEnable ==
  /\ cl.phase = "bound"
  /\ ClientSends(<<Item("enable", 0)>>)
  /\ cl' = [cl EXCEPT !.phase = "enabling"]

ClientStanza ==
  /\ cl.phase \in {"enabling", "on"} /\ cl.sent < MaxIn
  /\ ClientSends(<<Item("stanza", cl.sent + 1)>>)
  /\ cl' = [cl EXCEPT !.sent = @ + 1]

(* The client asks for, or volunteers, an acknowledgement. *)
ClientAckItem(t) ==
  /\ cl.phase = "on" /\ cl.asks < MaxAsk
  /\ ClientSends(<<Item(t, IF t = "a" THEN Len(cl.got) ELSE 0)>>)
  /\ cl' = [cl EXCEPT !.asks = @ + 1]

ClientClose ==
  /\ cl.phase = "on"
  /\ ClientSends(<<Item("close", 0)>>)
  /\ cl' = [cl EXCEPT !.phase = "gone"]

Off(x) == [x EXCEPT !.conn = None,
                    !.phase = IF @ \in {"on", "resuming"} THEN "off" ELSE "gone"]

(* What the client makes of the next item the server sent. *)
ClientRead ==
  LET c == cl.conn
      i == Head(srv.down[c])
      reply == CASE i.t = "r" /\ cl.phase # "gone" -> <<Item("a", Len(cl.got))>>
                 [] i.t = "resumed" -> [k \in 1..(cl.sent - i.n) |-> Item("stanza", i.n + k)]
                 [] OTHER -> <<>>
  IN /\ Idle /\ c # None /\ srv.down[c] # <<>>
     /\ srv' = Deliver([srv EXCEPT !.down[c] = Tail(@)], reply)
     /\ cl' = CASE i.t = "stanza" -> [cl EXCEPT !.got = Append(@, i.n)]
                [] i.t = "r" -> cl
                [] i.t = "a" -> [cl EXCEPT !.acked = i.n]
                [] i.t = "enabled" -> [cl EXCEPT !.phase = "on"]
                [] i.t = "resumed" -> [cl EXCEPT !.phase = "on", !.acked = i.n]
                [] i.t = "failed" -> [cl EXCEPT !.phase = "fresh",
                                                !.acked = IF i.n = NoH THEN @ ELSE i.n]
                [] i.t = "end" -> Off(cl)
     /\ UNCHANGED <<thread, inbox, chunk, paused, partial, hist>>

(* The connection breaks, maybe in the middle of a stanza. *)
ClientLoses ==
  /\ Idle /\ cl.conn # None
  /\ \E cut \in {FALSE, MayCut} :
       srv' = Deliver([srv EXCEPT !.down[cl.conn] = <<>>],
                      IF cut THEN <<Item("half", 0)>> ELSE <<>>)
  /\ cl' = Off(cl)
  /\ UNCHANGED <<thread, inbox, chunk, paused, partial, hist>>

Used(c) == srv.owner[c] # "none" \/ c \in srv.closed

(* On its next connection the client authenticates and asks to resume. *)
ClientResumes ==
  \E c \in Conn :
    /\ Idle /\ cl.phase = "off" /\ ~Used(c) /\ \A d \in 1..(c - 1) : Used(d)
    /\ srv' = [srv EXCEPT !.owner[c] = "N", !.up[c] = <<Item("resume", Len(cl.got))>>]
    /\ cl' = [cl EXCEPT !.conn = c, !.phase = "resuming"]
    /\ UNCHANGED <<thread, inbox, chunk, paused, partial, hist>>

(* After a failed resumption the client binds anew.  If it asks for its    *)
(* old resource, bind_resource closes the session that has it.             *)
ClientRebinds ==
  /\ Idle /\ cl.phase = "fresh"
  /\ \E same \in BOOLEAN :
       srv' = IF same /\ ~srv.destroyed THEN session_close(srv, "error") ELSE srv
  /\ cl' = [cl EXCEPT !.phase = "gone"]
  /\ UNCHANGED <<thread, inbox, chunk, paused, partial, hist>>

Next ==
  \/ RouteStanza \/ ReadTimeout \/ GraceTimeout \/ WatchdogFires \/ ServerStops
  \/ \E force \in BOOLEAN : RequestAck(force)
  \/ \E reason \in {"error", "none"} : CloseSession(reason)
  \/ \E c \in Conn : Disconnect(c) \/ ReadChunk(c)
  \/ FeedRest \/ RunItem \/ Wake
  \/ ClientEarlyStanza \/ ClientEnable \/ ClientStanza \/ ClientClose
  \/ \E t \in {"a", "r"} : ClientAckItem(t)
  \/ ClientRead \/ ClientLoses \/ ClientResumes \/ ClientRebinds

(* Time passes and the network reports what happened: timers fire, a       *)
(* connection the client left is noticed, data that arrived is read.       *)
Fairness ==
  /\ WF_vars(FeedRest) /\ WF_vars(RunItem) /\ WF_vars(Wake) /\ WF_vars(ClientRead)
  /\ WF_vars(WatchdogFires) /\ WF_vars(GraceTimeout)
  /\ \A c \in Conn : WF_vars(Disconnect(c)) /\ SF_vars(ReadChunk(c))

Spec == SmacksInit /\ [][Next]_vars
FairSpec == Spec /\ Fairness
-----------------------------------------------------------------------------
ItemType == [t : {"stanza", "a", "r", "enable", "enabled", "resume", "resumed", "failed",
                  "close", "end", "half", "expire"},
             n : {NoH} \union 0..(MaxOut + MaxIn)]

TypeOK ==
  /\ srv.smacks \in {"nil", "on", "off"}
  /\ {srv.token, srv.registered, srv.hibernating, srv.awaiting_ack, srv.destroyed,
      srv.closing, srv.grace, partial, hist.rejected, hist.stopped} \subseteq BOOLEAN
  /\ srv.watchdog \in {"none", "armed", "fired"}
  /\ srv.conn \in Conn \union {None} /\ cl.conn \in Conn \union {None}
  /\ srv.owner \in [Conn -> {"none", "S", "N"}]
  /\ srv.handled \in 0..MaxIn /\ srv.old_h \in {NoH} \union 0..MaxIn
  /\ thread \in {"ready", "waiting"}
  /\ inbox \in Seq(ItemType)
  /\ srv.up \in [Conn -> Seq(ItemType)] /\ srv.down \in [Conn -> Seq(ItemType)]
  /\ cl.phase \in {"bound", "enabling", "on", "off", "resuming", "fresh", "gone"}

(* Downstream, across every lost connection and resumption, the client     *)
(* gets each stanza once and in the order the server sent them.            *)
DeliveredOnceInOrder == \A k \in DOMAIN cl.got : cl.got[k] = k

(* A stanza routed to the session is with the client, still held for it,   *)
(* or was given to delivery/failure: only an overflow of the queue loses   *)
(* one, and a destroyed session holds nothing.                             *)
NothingLost ==
  \A n \in 1..hist.out :
    n \in Range(cl.got) \union Range(srv.q.queue) \union srv.failed \union hist.lost

(* What the client acknowledged it has, and it is never reported as        *)
(* undelivered.                                                            *)
AckedNotFailed ==
  /\ srv.q.tail <= Len(cl.got)
  /\ \A n \in srv.failed : n > srv.q.tail

(* What handle_a, resume and handle_unacked_stanzas promise the sender of  *)
(* a stanza: delivered once and in order or reported, and not both.        *)
DownstreamDelivery == DeliveredOnceInOrder /\ NothingLost /\ AckedNotFailed

(* An honest client that is still on the session's connection is never     *)
(* told that its counts are wrong.                                         *)
HonestNotRejected == ~hist.rejected

(* Upstream, stanzas are processed once and in order, although the client  *)
(* repeats on every resumption what it believes was not counted.           *)
ProcessedOnceInOrder == \A k \in DOMAIN hist.done : hist.done[k] = k

(* The server never claims to have handled what it has not: every h it     *)
(* has sent or stored covers only processed stanzas.                       *)
ClaimedMeansProcessed ==
  /\ cl.acked <= Len(hist.done)
  /\ \A c \in Conn : \A k \in DOMAIN srv.down[c] :
       srv.down[c][k].t \in {"a", "resumed", "failed"} => srv.down[c][k].n <= Len(hist.done)

(* Once everything the client sent on its live connection has been read,   *)
(* the server has counted all of it.                                       *)
QuiescentAllCounted ==
  (/\ cl.phase = "on" /\ cl.conn = srv.conn /\ ~srv.destroyed /\ ~srv.closing
   /\ srv.up[cl.conn] = <<>> /\ Idle /\ thread = "ready"
   /\ \A k \in DOMAIN srv.down[cl.conn] : srv.down[cl.conn][k].t # "resumed")
    => srv.handled = cl.sent

(* What count_incoming_stanzas promises the client: what it repeats after  *)
(* a resumption is processed once, what it does not repeat was, everything *)
(* read is counted, and an honest client's own counts are never refused.   *)
UpstreamProcessing ==
  ProcessedOnceInOrder /\ ClaimedMeansProcessed /\ QuiescentAllCounted /\ HonestNotRejected

(* A registered token leads to a session that can be resumed (do_resume:   *)
(* "Tried to resume a destroyed session. This should not happen!").        *)
RegisteredIsResumable ==
  srv.registered => srv.token /\ ~srv.destroyed /\ (srv.hibernating <=> srv.conn = None)

(* The connection table and the session agree: S owns exactly the          *)
(* connection it sends on, so input is never fed to it from two.           *)
OneConnection ==
  ~srv.destroyed => \A c \in Conn : srv.owner[c] = "S" <=> srv.conn = c

(* The registry of tokens, the table of connections and the session agree  *)
(* whatever order closes, losses, resumptions and timeouts come in: a      *)
(* token never leads to a dead session, nor two connections to one.        *)
SessionRegistry == TypeOK /\ RegisteredIsResumable /\ OneConnection

(* A hibernating session has a watchdog to end it (do_resume: "Hibernating *)
(* session has no watchdog!").                                             *)
HibernatingHasWatchdog == srv.hibernating => srv.watchdog # "none"

(* Only a session that is still hibernating is destroyed for hibernating   *)
(* too long.                                                               *)
ExpiresOnlyHibernating ==
  [][(inbox # <<>> /\ inbox' = Tail(inbox) /\ Head(inbox).t = "expire" /\ srv'.destroyed)
       => srv.hibernating \/ srv.destroyed]_vars

(* Every stanza routed to the session is eventually received, failed, or   *)
(* was lost to an overflow.                                                *)
StanzasSettle ==
  \A n \in 1..MaxOut :
    (hist.out >= n) ~> (n \in Range(cl.got) \union srv.failed \union hist.lost)
=============================================================================
