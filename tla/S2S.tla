--------------------------------- MODULE S2S ----------------------------------
(***************************************************************************)
(* Server-to-server connections (plugins/mod_s2s.lua, core/s2smanager.lua) *)
(* with their authentication by dialback (plugins/mod_dialback.lua) or     *)
(* SASL EXTERNAL (plugins/mod_saslauth.lua) and bidirectional streams      *)
(* (plugins/mod_s2s_bidi.lua), between two servers that both run this      *)
(* code, one domain each.                                                  *)
(*                                                                         *)
(* Connection <<h, k>> is the k-th that h opens to the other server; it    *)
(* has an outgoing session at h and an incoming one at the other end, and  *)
(* a FIFO of items each way.  Connection <<h, 0>> is opened by somebody    *)
(* else who only claims to be h.  Connections are secure from the start;   *)
(* STARTTLS is not modelled.  A handler is a function of the state net and *)
(* runs to its end.                                                        *)
(***************************************************************************)
EXTENDS Integers, Sequences, FiniteSets, Functions

CONSTANTS Host,       \* the two domains
          External,   \* domains whose certificate the other server may accept
          Bidi,       \* mod_s2s_bidi is loaded at both servers
          SendqSize,  \* s2s_send_queue_size
          MaxConn,    \* bound: connections each server opens
          MaxMsg,     \* bound: stanzas the users of each server send
          MaxBreak,   \* bound: failures, timeouts and closes
          Forged      \* domains in whose name somebody else connects

ASSUME S2sAssumption ==
  /\ \E g, h \in Host : g # h /\ Host = {g, h}
  /\ External \subseteq Host
  /\ Forged \subseteq Host /\ Bidi \in BOOLEAN
  /\ SendqSize \in Nat \ {0} /\ {MaxConn, MaxBreak} \subseteq Nat /\ MaxMsg \in [Host -> Nat]

Remote(h) == CHOOSE g \in Host : g # h
Conn == Host \X (0..MaxConn)
NoConn == <<>>

VARIABLES net,     \* both servers and the connections between them
          breaks  \* failures, timeouts and closes so far

s2sVars == <<net, breaks>>

Item(t, c, ok) == [t |-> t, c |-> c, ok |-> ok, n |-> 0]
Msg(n) == [t |-> "msg", c |-> NoConn, ok |-> TRUE, n |-> n]

(* new_outgoing and new_incoming *)
NewOut(item) == [type |-> "s2sout_unauthed", conn |-> FALSE, key |-> FALSE, ext |-> "nil",
                 incoming |-> FALSE, authed |-> FALSE, reset |-> FALSE, sendq |-> <<item>>]
NewIn == [type |-> "s2sin_unauthed", ext |-> "nil", outgoing |-> FALSE, authed |-> FALSE,
          notopen |-> TRUE, closing |-> FALSE]

(* retire_session: nothing of the session remains. *)
RestingOut(s) == [s EXCEPT !.type = "s2s_destroyed", !.sendq = <<>>]
RestingIn(s) == [s EXCEPT !.type = "s2s_destroyed"]

S2sInit ==
  /\ \E valid \in SUBSET External :
     net = [certs |-> valid, tab |-> [h \in Host |-> NoConn],
          out |-> [c \in Conn |-> [NewOut(Msg(0)) EXCEPT !.type = "none", !.sendq = <<>>]],
          inc |-> [c \in Conn |-> [NewIn EXCEPT !.type = "none"]],
          up |-> [c \in Conn |-> <<>>], down |-> [c \in Conn |-> <<>>], cut |-> {},
          req |-> [h \in Host |-> {}],
          routed |-> [h \in Host |-> 0], sent |-> [h \in Host |-> {}],
          bounced |-> [h \in Host |-> {}],
          dropped |-> FALSE, early |-> {}, overflow |-> FALSE, got |-> [c \in Conn |-> [h \in Host |-> <<>>]]]
  /\ breaks = 0

LiveOut(y, c) == y.out[c].type \in {"s2sout_unauthed", "s2sout"}
LiveIn(y, c) == y.inc[c].type \in {"s2sin_unauthed", "s2sin"}
-----------------------------------------------------------------------------
(* session.sends2s at the two ends.  What is written to a connection that  *)
(* is down is lost without notice.                                         *)
Up(y, c, items) == IF c \in y.cut THEN y ELSE [y EXCEPT !.up[c] = @ \o items]

Down(y, c, items) ==
  IF c \in y.cut \/ y.inc[c].closing THEN y ELSE [y EXCEPT !.down[c] = @ \o items]

Numbers(items) == {items[i].n : i \in {j \in DOMAIN items : items[j].t = "msg"}}

(* Stanzas written by h, on its outgoing session or on one it accepted. *)
Write(y, h, c, items) ==
  LET z == [y EXCEPT !.sent[h] = @ \union Numbers(items)]
  IN IF c[1] = h THEN Up(z, c, items) ELSE Down(z, c, items)

(* bounce_sendq: queued stanzas are answered with an error, everything     *)
(* else is discarded.                                                      *)
bounce_sendq(y, h, items) == [y EXCEPT !.bounced[h] = @ \union Numbers(items)]

(* sendq is full: the sender gets an error.  A db:verify has no sender to  *)
(* tell and is lost.                                                       *)
Refuse(y, h, i) == [bounce_sendq(y, h, <<i>>) EXCEPT !.overflow = TRUE]

(* Mutant: every stanza waits for the session to be authenticated. *)
route_to_existing_session_all(y, h, i) ==
  LET c == y.tab[h]
  IN IF c[1] = h /\ y.out[c].type = "s2sout_unauthed"
       THEN IF Len(y.out[c].sendq) < SendqSize
              THEN [y EXCEPT !.out[c].sendq = Append(@, i)] ELSE Refuse(y, h, i)
       ELSE Write(y, h, c, <<i>>)

(* Stanzas wait in sendq for an unauthenticated session, except that a     *)
(* db:verify goes out at once if the own key has.                          *)
route_to_existing_session(y, h, i) ==
  LET c == y.tab[h]
  IN IF c[1] = h /\ y.out[c].type = "s2sout_unauthed" /\ (i.t # "verify" \/ ~y.out[c].key)
       THEN IF Len(y.out[c].sendq) < SendqSize
              THEN [y EXCEPT !.out[c].sendq = Append(@, i)] ELSE Refuse(y, h, i)
       ELSE Write(y, h, c, <<i>>)

(* A session with the stanza in its queue; it starts connecting.  Beyond   *)
(* the bound the name does not resolve: the session fails at once.         *)
route_to_new_session(y, h, i) ==
  LET new == {c \in Conn : c[1] = h /\ c[2] > 0 /\ y.out[c].type = "none"}
      c == CHOOSE d \in new : \A e \in new : d[2] <= e[2]
  IN IF new = {} THEN bounce_sendq([y EXCEPT !.tab[h] = NoConn], h, <<i>>)
       ELSE [y EXCEPT !.out[c] = NewOut(i), !.tab[h] = c]

(* The route/remote event.  A bidirectional session that is being closed   *)
(* does not take the stanza.                                               *)
route(y, h, i) ==
  LET c == y.tab[h]
  IN IF c = NoConn \/ (c # NoConn /\ c[1] # h /\ y.inc[c].closing)
       THEN route_to_new_session(y, h, i)
       ELSE route_to_existing_session(y, h, i)

(* A user's stanza, or one that a module sends when it is told of an error. *)
SendStanza(y, h) ==
  route([y EXCEPT !.routed[h] = @ + 1], h, Msg(y.routed[h] + 1))
-----------------------------------------------------------------------------
(* Destroying and closing.                                                 *)

(* Mutant: leaves the table only after bouncing. *)
destroy_out_late(y, c, again) ==
  LET w == bounce_sendq(y, c[1], y.out[c].sendq)
      z == IF again /\ Numbers(y.out[c].sendq) # {} /\ y.routed[c[1]] < MaxMsg[c[1]]
             THEN SendStanza([w EXCEPT !.out[c].sendq = <<>>], c[1]) ELSE w
  IN IF LiveOut(y, c) THEN [z EXCEPT !.tab[c[1]] = NoConn, !.out[c] = RestingOut(@)] ELSE y

(* destroy_session of an outgoing session.  The table entry goes first, so *)
(* that what is sent in answer to a bounce (again) opens a new session.    *)
destroy_out(y, c, again) ==
  LET z == bounce_sendq([y EXCEPT !.tab[c[1]] = NoConn, !.out[c] = RestingOut(@)],
                        c[1], y.out[c].sendq)
  IN CASE ~LiveOut(y, c) -> y
       [] LiveOut(y, c) /\ again /\ Numbers(y.out[c].sendq) # {} /\ y.routed[c[1]] < MaxMsg[c[1]] ->
            SendStanza(z, c[1])
       [] OTHER -> z

(* Mutant: a bidirectional session stays in the table. *)
destroy_in_keep(y, c) ==
  IF LiveIn(y, c) THEN [y EXCEPT !.inc[c] = RestingIn(@)] ELSE y

(* destroy_session of an incoming session. *)
destroy_in(y, c) ==
  LET g == Remote(c[1])
  IN IF ~LiveIn(y, c) THEN y
       ELSE [y EXCEPT !.inc[c] = RestingIn(@),
                      !.tab[g] = IF y.inc[c].outgoing /\ @ = c THEN NoConn ELSE @]

(* session_close: an error or the answer to the peer's close ends the      *)
(* session and the connection at once; the peer can still read what was    *)
(* written.                                                                *)
close_out(y, c, again) ==
  IF ~y.out[c].conn THEN y
    ELSE [destroy_out(Up(y, c, <<Item("end", NoConn, TRUE)>>), c, again)
            EXCEPT !.cut = @ \union {c}, !.down[c] = <<>>]

close_in(y, c) ==
  [destroy_in(Down(y, c, <<Item("end", NoConn, TRUE)>>), c)
     EXCEPT !.cut = @ \union {c}, !.up[c] = <<>>]

(* A clean close of an accepted session: it is left open for what the peer *)
(* is still sending.                                                       *)
close_in_clean(y, c) ==
  [Down(y, c, <<Item("end", NoConn, TRUE)>>) EXCEPT !.inc[c].closing = TRUE]
-----------------------------------------------------------------------------
(* Authentication.                                                         *)

(* Mutant: sends the newest stanza first. *)
mark_connected_lifo(y, c) ==
  LET q == y.out[c].sendq
  IN [Write(y, c[1], c, [i \in DOMAIN q |-> q[Len(q) + 1 - i]]) EXCEPT !.out[c].sendq = <<>>]

(* mark_connected for an outgoing session: the queue is sent. *)
mark_connected(y, c) ==
  [Write(y, c[1], c, y.out[c].sendq) EXCEPT !.out[c].sendq = <<>>]

(* make_authenticated for an outgoing session; with EXTERNAL the stream is *)
(* first opened again.                                                     *)
make_authenticated_out(y, c) ==
  LET z == [y EXCEPT !.out[c].type = "s2sout", !.out[c].authed = y.out[c].incoming]
  IN IF y.out[c].ext = "succeeded" THEN z ELSE mark_connected(z, c)

(* make_authenticated and mark_connected for an incoming session: if it is *)
(* bidirectional and there is no other way to the peer, this is it.        *)
make_authenticated_in(y, c) ==
  LET g == Remote(c[1])
  IN IF ~LiveIn(y, c) THEN y
       ELSE [y EXCEPT !.inc[c].type = "s2sin", !.inc[c].authed = TRUE,
                      !.tab[g] = IF y.inc[c].outgoing /\ @ = NoConn THEN c ELSE @]

initiate_dialback(y, c) ==
  Up([y EXCEPT !.out[c].key = TRUE], c, <<Item("result", c, TRUE)>>)

(* The features hooks of an outgoing session, in their order: the stream   *)
(* is made bidirectional; EXTERNAL is tried if offered; else dialback; on  *)
(* an authenticated stream, mark_connected.                                *)
request_bidi(y, c) ==
  IF Bidi /\ y.out[c].type = "s2sout_unauthed"
    THEN Up([y EXCEPT !.out[c].incoming = TRUE], c, <<Item("bidi", NoConn, TRUE)>>)
    ELSE y

start_external(y, c) ==
  Up([y EXCEPT !.out[c].ext = "attempting"], c, <<Item("auth", NoConn, TRUE)>>)

features(y, c, offered) ==
  LET z == request_bidi(y, c)
  IN CASE y.out[c].type = "s2sout" -> mark_connected(z, c)
       [] y.out[c].type # "s2sout" /\ offered -> start_external(z, c)
       [] OTHER -> initiate_dialback(z, c)

(* streamopened at the opener; the features come with the stream header. *)
reopened(y, c) == [y EXCEPT !.out[c].reset = FALSE]

(* The bidi request at the accepting end. *)
accept_bidi(y, c) ==
  [y EXCEPT !.inc[c].outgoing = @ \/ y.inc[c].type = "s2sin_unauthed"]

(* <success/>: the stream is reset, so that nothing but a new header is    *)
(* taken, and opened again.                                                *)
success(y, c) ==
  make_authenticated_out(Up([y EXCEPT !.out[c].ext = "succeeded", !.out[c].reset = TRUE],
                            c, <<Item("open", NoConn, TRUE)>>), c)

(* <failure/>: falls back to dialback. *)
failure(y, c) == initiate_dialback([y EXCEPT !.out[c].ext = "failed"], c)

(* streamopened at the accepting end: header and features, with EXTERNAL   *)
(* only for a certificate it accepts.                                      *)
streamopened(y, c) ==
  LET offer == c[2] # 0 /\ c[1] \in y.certs /\ y.inc[c].type = "s2sin_unauthed"
  IN Down([y EXCEPT !.inc[c].ext = IF offer THEN "offered" ELSE @, !.inc[c].notopen = FALSE],
          c, <<Item("features", NoConn, offer)>>)

(* The accepting end waits for a new stream header. *)
reset_stream(y, c) == [y EXCEPT !.inc[c].notopen = TRUE]

(* s2s_external_auth; a server with another policy may refuse.  The        *)
(* session counts as connected before its stream is reset.                 *)
s2s_external_auth(y, c, accept) ==
  IF y.inc[c].ext # "offered" THEN close_in(y, c)
    ELSE IF accept
      THEN reset_stream(make_authenticated_in(Down([y EXCEPT !.inc[c].ext = "succeeded"], c,
                                                   <<Item("success", NoConn, TRUE)>>), c), c)
      ELSE Down(y, c, <<Item("failure", NoConn, TRUE)>>)

(* db:result at the accepting end: the authoritative server is asked. *)
dialback_request(y, c, i) ==
  LET g == Remote(c[1])
  IN route([y EXCEPT !.req[g] = @ \union {c}, !.inc[c].authed = FALSE],
           g, Item("verify", c, i.ok))

(* db:verify at the authoritative server: is the key the one it would      *)
(* generate?                                                               *)
verify_dialback(y, c, i) == Down(y, c, <<Item("verified", i.c, i.ok)>>)

(* Mutant: whatever the answer, the session is authenticated. *)
dialback_verified_any(y, h, i) ==
  IF i.c \notin y.req[h] THEN y
    ELSE LET z == make_authenticated_in([y EXCEPT !.req[h] = @ \ {i.c}], i.c)
         IN IF LiveIn(z, i.c) THEN Down(z, i.c, <<Item("dbresult", i.c, i.ok)>>) ELSE z

(* The authoritative server's answer, at h. *)
dialback_verified(y, h, i) ==
  LET y1 == [y EXCEPT !.req[h] = @ \ {i.c}]
      z == IF i.ok THEN make_authenticated_in(y1, i.c) ELSE y1
  IN IF i.c \notin y.req[h] THEN y
       ELSE IF LiveIn(z, i.c) THEN Down(z, i.c, <<Item("dbresult", i.c, i.ok)>>) ELSE z

(* db:result at the end that opened the connection: whether it passed. *)
dialback_result(y, c, i, again) ==
  IF y.tab[c[1]] # c \/ ~i.ok THEN close_out(y, c, again) ELSE make_authenticated_out(y, c)

(* core_process_stanza for a stanza from the peer: it must have            *)
(* authenticated on this stream, which is closed if another domain has.    *)
(* Before that it is not even answered.                                    *)
Receive(y, r, c, s, closed, n) ==
  CASE s.type \in {"s2sin", "s2sout"} /\ s.authed -> [y EXCEPT !.got[c][r] = Append(@, n)]
    [] s.type \in {"s2sin", "s2sout"} /\ ~s.authed -> [closed EXCEPT !.dropped = TRUE]
    [] OTHER -> [y EXCEPT !.dropped = @ \/ c[2] > 0]

(* The no-stream error: on a stream that was reset anything before the new *)
(* header ("features" stands for the header, too) closes the session.      *)
(* What came, and how the session stood, is kept in early.                 *)
no_stream(y, c, i, again) ==
  [close_out(y, c, again) EXCEPT
     !.early = @ \union {[t |-> i.t, ext |-> y.out[c].ext, incoming |-> y.out[c].incoming]}]
-----------------------------------------------------------------------------
(* What the session that accepted c does with the next item.  The opener   *)
(* writes nothing before its stream header.                                *)
RecvIn(c) ==
  LET i == Head(net.up[c])
      y == [net EXCEPT !.up[c] = Tail(@)]
  IN /\ net.up[c] # <<>> /\ LiveIn(net, c)
     /\ \E accept \in BOOLEAN :
          /\ ~accept => i.t = "auth" /\ breaks < MaxBreak
          /\ breaks' = IF accept THEN breaks ELSE breaks + 1
          /\ net' = CASE i.t = "open" -> streamopened(y, c)
                    [] i.t = "bidi" -> accept_bidi(y, c)
                    [] i.t = "auth" -> s2s_external_auth(y, c, accept)
                    [] i.t = "result" -> dialback_request(y, c, i)
                    [] i.t = "verify" -> verify_dialback(y, c, i)
                    [] i.t = "msg" -> Receive(y, Remote(c[1]), c, y.inc[c], close_in(y, c), i.n)
                    [] i.t = "end" -> close_in(y, c)

(* What the session that opened c does with the next item.  A db:verify    *)
(* that arrives here is taken for an answer.                               *)
RecvOut(c) ==
  LET i == Head(net.down[c])
      y == [net EXCEPT !.down[c] = Tail(@)]
  IN /\ net.down[c] # <<>> /\ LiveOut(net, c)
     /\ \E again \in BOOLEAN :
          net' = IF y.out[c].reset /\ i.t \notin {"features", "end"} THEN no_stream(y, c, i, again)
                 ELSE CASE i.t = "features" -> features(reopened(y, c), c, i.ok)
                      [] i.t = "success" -> success(y, c)
                      [] i.t = "failure" -> failure(y, c)
                      [] i.t = "dbresult" -> dialback_result(y, c, i, again)
                      [] i.t \in {"verified", "verify"} -> dialback_verified(y, c[1], i)
                      [] i.t = "msg" -> Receive(y, c[1], c, y.out[c], close_out(y, c, again), i.n)
                      [] i.t = "end" -> close_out(y, c, again)
     /\ UNCHANGED breaks

(* onattach and onconnect at one end, onconnect at the other. *)
Connect(c) ==
  /\ LiveOut(net, c) /\ ~net.out[c].conn
  /\ net' = [net EXCEPT !.out[c].conn = TRUE, !.inc[c] = NewIn,
                    !.up[c] = <<Item("open", NoConn, TRUE)>>]
  /\ UNCHANGED breaks

(* Somebody else connects in h's name, with a key h did not make. *)
Forge(c) ==
  /\ c[1] \in Forged /\ c[2] = 0 /\ net.inc[c].type = "none"
  /\ net' = [net EXCEPT !.inc[c] = NewIn, !.up[c] = <<Item("open", NoConn, TRUE),
                                                  Item("result", c, FALSE), Msg(0)>>]
  /\ UNCHANGED breaks

UserSends(h) ==
  /\ net.routed[h] < MaxMsg[h]
  /\ net' = SendStanza(net, h)
  /\ UNCHANGED breaks

Failure(y) ==
  /\ breaks < MaxBreak
  /\ net' = y
  /\ breaks' = breaks + 1

(* listener.onfail *)
ConnectFails(c, again) == LiveOut(net, c) /\ ~net.out[c].conn /\ Failure(destroy_out(net, c, again))

(* connect_timeout *)
TimeoutOut(c, again) ==
  net.out[c].type = "s2sout_unauthed" /\ net.out[c].conn /\ Failure(close_out(net, c, again))
TimeoutIn(c) == net.inc[c].type = "s2sin_unauthed" /\ Failure(close_in(net, c))

(* The connection breaks; each end learns of it later (listener.ondisconnect). *)
Break(c) == net.out[c].conn /\ c \notin net.cut /\ Failure([net EXCEPT !.cut = @ \union {c}])

DisconnectOut(c, again) ==
  /\ c \in net.cut /\ LiveOut(net, c)
  /\ net' = [destroy_out(net, c, again) EXCEPT !.down[c] = <<>>]
  /\ UNCHANGED breaks

DisconnectIn(c) ==
  /\ c \in net.cut /\ LiveIn(net, c)
  /\ net' = [destroy_in(net, c) EXCEPT !.up[c] = <<>>]
  /\ UNCHANGED breaks

(* An administrator or a module closes a session; one that waits for a     *)
(* stream header is not left open.                                         *)
CloseOut(c, again) == LiveOut(net, c) /\ net.out[c].conn /\ Failure(close_out(net, c, again))
CloseIn(c) ==
  /\ LiveIn(net, c) /\ ~net.inc[c].closing
  /\ Failure(IF net.inc[c].notopen THEN close_in(net, c) ELSE close_in_clean(net, c))

(* stream_close_timeout *)
CloseTimeout(c) ==
  /\ LiveIn(net, c) /\ net.inc[c].closing
  /\ net' = close_in(net, c)
  /\ UNCHANGED breaks

S2sNext ==
  \/ \E h \in Host : UserSends(h)
  \/ \E c \in Conn : \/ RecvIn(c) \/ RecvOut(c) \/ Connect(c) \/ Forge(c)
                     \/ TimeoutIn(c) \/ Break(c) \/ DisconnectIn(c)
                     \/ CloseIn(c) \/ CloseTimeout(c)
                     \/ \E again \in BOOLEAN : \/ ConnectFails(c, again) \/ TimeoutOut(c, again)
                                               \/ DisconnectOut(c, again) \/ CloseOut(c, again)

S2sSpec == S2sInit /\ [][S2sNext]_s2sVars
-----------------------------------------------------------------------------
ItemType == [t : {"open", "features", "bidi", "auth", "success", "failure", "result", "dbresult",
                  "verify", "verified", "msg", "end"},
             c : Conn \union {NoConn}, ok : BOOLEAN, n : Nat]

S2sTypeOK ==
  /\ net.tab \in [Host -> Conn \union {NoConn}]
  /\ \A c \in Conn :
       /\ net.out[c].type \in {"none", "s2sout_unauthed", "s2sout", "s2s_destroyed"}
       /\ net.inc[c].type \in {"none", "s2sin_unauthed", "s2sin", "s2s_destroyed"}
       /\ Len(net.out[c].sendq) <= SendqSize
       /\ \A i \in DOMAIN net.up[c] : net.up[c][i] \in ItemType
       /\ \A i \in DOMAIN net.down[c] : net.down[c][i] \in ItemType
  /\ net.cut \subseteq Conn /\ net.req \in [Host -> SUBSET Conn]

(* hosts[from].s2sout[to] names every live outgoing session, so there is   *)
(* one, and never a dead session or one that was not authenticated.        *)
OneRoute ==
  /\ S2sTypeOK
  /\ \A c \in Conn : LiveOut(net, c) => net.tab[c[1]] = c
  /\ \A h \in Host : LET c == net.tab[h] IN
       c # NoConn => IF c[1] = h THEN LiveOut(net, c) ELSE net.inc[c].type = "s2sin" /\ net.inc[c].authed

(* Every stanza for the other server is held by a live session, was        *)
(* written to a connection, or was returned to its sender, never both.     *)
SentOrBounced ==
  \A h \in Host :
    /\ net.sent[h] \intersect net.bounced[h] = {}
    /\ \A n \in 1..net.routed[h] :
         \/ n \in net.sent[h] \union net.bounced[h]
         \/ \E c \in Conn : LiveOut(net, c) /\ c[1] = h /\ n \in Numbers(net.out[c].sendq)

(* Nobody is authenticated as a domain whose server did not vouch for it,  *)
(* and no stanza is accepted from one who is not.                          *)
OnlyVouched == \A h \in Host : net.inc[<<h, 0>>].type # "s2sin" /\ net.got[<<h, 0>>] = [g \in Host |-> <<>>]

(* A stanza is not dropped for coming before its sender is authenticated;  *)
(* the other way to come too early, into a stream being reset, is only met *)
(* where EXTERNAL succeeded on a bidirectional connection.                 *)
NeverTooEarly ==
  ~net.dropped /\ \A e \in net.early : e.ext = "succeeded" /\ (e.t = "msg" => e.incoming)

(* Two servers that authenticate to each other at once do not wait for     *)
(* each other for ever: unless something failed, a queue was full or a     *)
(* stanza came into a stream being reset, when all is read both directions *)
(* are ready.                                                              *)
NoDialbackDeadlock ==
  LET quiet(c) == /\ LiveIn(net, c) => net.up[c] = <<>>
                  /\ LiveOut(net, c) => net.down[c] = <<>> /\ net.out[c].conn
  IN (breaks = 0 /\ ~net.overflow /\ net.early = {} /\ \A c \in Conn : quiet(c))
       => \A c \in Conn : /\ net.out[c].type \notin {"s2sout_unauthed", "s2s_destroyed"}
                          /\ net.out[c].sendq = <<>>

Increasing(s) == \A i, j \in DOMAIN s : i < j => s[i] < s[j]

(* On a session authenticated by dialback stanzas arrive in the order they *)
(* were sent, queued or not.                                               *)
DialbackInOrder ==
  \A c \in Conn : net.out[c].ext # "succeeded" => \A h \in Host : Increasing(net.got[c][h])

(* A session queues stanzas until it is authenticated, and either end may  *)
(* finish first: still no stanza comes before its sender is authenticated, *)
(* none comes into a stream being reset unless EXTERNAL and a              *)
(* bidirectional stream meet, and over dialback none overtakes another.    *)
OutboundOrder == NeverTooEarly /\ DialbackInOrder

(* The order of every session: stanzas are only sent when the stream is    *)
(* ready for them (features hook of mod_s2s: "Stream is authenticated and  *)
(* we are seem to be done with feature negotiation, so the stream is ready *)
(* for stanzas").                                                          *)
InOrder == \A c \in Conn : \A h \in Host : Increasing(net.got[c][h])
===============================================================================
