------------------------ MODULE SmacksUpstreamProofs -------------------------
(***************************************************************************)
(* Proofs about the other direction of stream management and about its     *)
(* timers and tables, for every bound on connections and stanzas and every *)
(* queue size.  A token that is registered leads to a session that can be  *)
(* resumed.  Where handlers do not wait, only a session that hibernates    *)
(* expires; where connections do not break inside a stanza either, what    *)
(* the client sends is processed once and in order, and no count the       *)
(* server gives exceeds what it processed.                                 *)
(***************************************************************************)
EXTENDS SmacksProofs


(* The token and the connection, when no session is closed before stream   *)
(* management is on: what is registered can be resumed, a session without  *)
(* a connection hibernates, and one that closes cannot be resumed.         *)
RegInv(x) ==
  /\ x.registered => x.token /\ ~x.destroyed
  /\ ~x.destroyed => (x.hibernating <=> x.conn = None)
  /\ x.closing /\ ~x.destroyed => x.smacks = "on" /\ ~x.token

(* What sends or closes a connection that is not the session's keeps it. *)
LEMMA RegSame ==
  ASSUME NEW x, NEW y, RegInv(x), Self(x, y), y.conn = x.conn
  PROVE  RegInv(y)
BY DEF RegInv, Self

(* Saying anything keeps it, *)
LEMMA RegSent ==
  ASSUME Around, NEW x, Right(x), RegInv(x), NEW i \in DownItem, i.t # "stanza"
  PROVE  RegInv(Send(x, i))
BY RightSent, RegSame DEF Links

(* and asking for an acknowledgement. *)
LEMMA RegRequested ==
  ASSUME Around, NEW x, Right(x), RegInv(x), NEW force
  PROVE  RegInv(request_ack_now_if_needed(x, force))
BY RightRequested, RegSame DEF Links

(* A session that cannot be resumed, or was hibernating, is gone. *)
LEMMA Destroys ==
  ASSUME Around, NEW x, Right(x), ~x.destroyed, ~x.token \/ x.hibernating
  PROVE  LET y == destroy_session(x)
         IN /\ y.destroyed /\ ~y.hibernating /\ y.conn = None /\ y.watchdog = "none"
            /\ y.registered = x.registered /\ y.handled = x.handled /\ y.old_h = x.old_h
            /\ y.smacks = "nil" /\ y.owner = x.owner /\ y.up = x.up /\ y.down = x.down
            /\ y.q.tail = x.q.tail
<1> DEFINE w == IF x.smacks = "on" /\ ~x.token THEN handle_unacked_stanzas(x) ELSE x
           y == retire(w)
<1>0. x \in Server /\ x.q \in Queue BY DEF Right, Server
<1>1. destroy_session(x) = y BY DEF destroy_session
<1>2. /\ w \in Server /\ w.registered = x.registered /\ w.handled = x.handled /\ w.old_h = x.old_h
      /\ w.owner = x.owner /\ w.up = x.up /\ w.down = x.down /\ w.q.tail = x.q.tail /\ w.q \in Queue
  BY <1>0, UnackedIs, ConsumeIs DEF Links
<1> HIDE DEF w
<1>3. /\ y.destroyed /\ ~y.hibernating /\ y.conn = None /\ y.watchdog = "none" /\ y.smacks = "nil"
      /\ y.registered = w.registered /\ y.handled = w.handled /\ y.old_h = w.old_h
      /\ y.owner = w.owner /\ y.up = w.up /\ y.down = w.down /\ y.q.tail = w.q.tail
  BY <1>2, RetireIs, ConsumeIs
<1> HIDE DEF y
<1> QED BY <1>1, <1>2, <1>3

(* and the end of a session, when one that hibernates is not registered. *)
LEMMA RegDestroyed ==
  ASSUME Around, NEW x, Right(x), RegInv(x), x.hibernating => ~x.registered
  PROVE  RegInv(destroy_session(x))
<1>0. x \in Server BY DEF Right
<1>1. CASE x.destroyed BY <1>1 DEF destroy_session
<1>2. CASE ~x.destroyed /\ x.smacks = "on" /\ x.token /\ ~x.hibernating
  <2>1. destroy_session(x) = hibernate(x) BY <1>2 DEF destroy_session
  <2> DEFINE y == hibernate(x)
  <2>2. /\ y.hibernating /\ y.conn = None /\ y.smacks = x.smacks /\ y.token = x.token
        /\ y.registered = x.registered /\ y.destroyed = x.destroyed /\ y.closing = x.closing
    BY <1>0, HibernateIs
  <2> HIDE DEF y
  <2>3. RegInv(y) BY <1>2, <2>2 DEF RegInv
  <2> QED BY <2>1, <2>3 DEF y
<1>3. CASE ~x.destroyed /\ ~(x.smacks = "on" /\ x.token /\ ~x.hibernating)
  <2>1. ~x.token \/ x.hibernating BY <1>3 DEF Right, Alive
  <2>2. ~x.registered BY <2>1 DEF RegInv
  <2> QED BY <1>3, <2>1, <2>2, Destroys DEF RegInv
<1> QED BY <1>1, <1>2, <1>3

(* After the pre-session-close hook the session is not registered. *)
LEMMA RegPreClose ==
  ASSUME Around, NEW x, Right(x), RegInv(x)
  PROVE  RegInv(pre_session_close(x)) /\ ~pre_session_close(x).registered
<1> DEFINE y == pre_session_close(x)
           w == [x EXCEPT !.token = FALSE, !.watchdog = "none", !.registered = @ /\ ~x.token]
<1>0. x \in Server BY DEF Right
<1>1. CASE x.smacks = "nil"
  <2>1. y = x BY <1>1 DEF pre_session_close
  <2>2. ~x.token BY <1>1 DEF Right, Alive
  <2> QED BY <2>1, <2>2 DEF RegInv
<1>2. CASE x.smacks # "nil"
  <2>1. y = IF w.smacks = "on" THEN Send(w, Item("a", w.handled)) ELSE w BY <1>2 DEF pre_session_close
  <2>2. /\ ~w.token /\ w.watchdog = "none" /\ (w.registered <=> x.registered /\ ~x.token)
        /\ w.smacks = x.smacks /\ w.hibernating = x.hibernating /\ w.destroyed = x.destroyed
        /\ w.conn = x.conn /\ w.closing = x.closing /\ w.handled \in Int
    BY <1>0 DEF Server
  <2>3. w \in Server
    <3> DEFINE r == x.registered /\ ~x.token
    <3>1. r \in BOOLEAN /\ w = [x EXCEPT !.token = FALSE, !.watchdog = "none", !.registered = r] OBVIOUS
    <3> HIDE DEF w, r
    <3> QED BY <1>0, <3>1 DEF Server
  <2> HIDE DEF w
  <2>4. RegInv(w) /\ ~w.registered BY <2>2 DEF RegInv
  <2>5. RegInv(y) /\ ~y.registered
    <3>1. CASE w.smacks = "on" /\ w.conn # None /\ ~w.closing
      <4>1. w.conn \in Conn BY <2>3, <3>1 DEF Server
      <4>2. Item("a", w.handled) \in DownItem BY <2>2, ItemIs
      <4>3. <<Item("a", w.handled)>> \in Seq(DownItem) BY <4>2
      <4>4. y = Transmit(w, w.conn, <<Item("a", w.handled)>>) BY <2>1, <3>1 DEF Send
      <4> HIDE DEF y
      <4>5. Self(w, y) /\ y.conn = w.conn BY <2>3, <4>1, <4>3, <4>4, TransmitIs DEF Links
      <4> QED BY <2>4, <4>5, RegSame DEF Self
    <3>2. CASE ~(w.smacks = "on" /\ w.conn # None /\ ~w.closing)
      <4>1. y = w BY <2>1, <3>2 DEF Send
      <4> QED BY <2>4, <4>1
    <3> QED BY <3>1, <3>2
  <2> QED BY <2>5
<1> QED BY <1>1, <1>2

(* What starting to close leaves as it is. *)
Shut(x, y) ==
  /\ y.conn = x.conn /\ y.token = x.token /\ y.registered = x.registered /\ y.smacks = x.smacks
  /\ y.destroyed = x.destroyed /\ y.hibernating = x.hibernating /\ y.watchdog = x.watchdog
  /\ y.handled = x.handled /\ y.old_h = x.old_h /\ y.q = x.q /\ y.owner = x.owner /\ y.up = x.up

(* A session that cannot be resumed any more starts to close. *)
LEMMA ClosingIs ==
  ASSUME Around, NEW x, Right(x), ~x.token
  PROVE  LET e == Send(x, Item("end", 0))
             a == [e EXCEPT !.closing = TRUE, !.grace = TRUE]
             b == [e EXCEPT !.closing = TRUE]
         IN /\ Right(a) /\ a.closing /\ Shut(x, a) /\ a.down = e.down
            /\ Right(b) /\ b.closing /\ Shut(x, b) /\ b.down = e.down
<1> DEFINE e == Send(x, Item("end", 0))
           a == [e EXCEPT !.closing = TRUE, !.grace = TRUE]
           b == [e EXCEPT !.closing = TRUE]
<1>1. Right(e) /\ Self(x, e) /\ Links(x, e)
  <2>1. Item("end", 0) \in DownItem /\ Item("end", 0).t # "stanza" BY ItemIs
  <2> QED BY <2>1, RightSent
<1>2. e \in Server /\ ~e.token /\ Shut(x, e) BY <1>1 DEF Right, Self, Links, Shut
<1> HIDE DEF e
<1>3. a \in Server /\ a.closing /\ Shut(e, a) /\ a.down = e.down /\ a.closed = e.closed /\ a.failed = e.failed
  BY <1>2 DEF Server, Shut
<1>4. b \in Server /\ b.closing /\ Shut(e, b) /\ b.down = e.down /\ b.closed = e.closed /\ b.failed = e.failed
  BY <1>2 DEF Server, Shut
<1> HIDE DEF a, b
<1>5. Right(a) BY <1>1, <1>2, <1>3, RightClosing DEF Links, Shut
<1>6. Right(b) BY <1>1, <1>2, <1>4, RightClosing DEF Links, Shut
<1>7. Shut(x, a) /\ Shut(x, b) BY <1>2, <1>3, <1>4 DEF Shut
<1> QED BY <1>3, <1>4, <1>5, <1>6, <1>7 DEF a, b, e

(* session:close keeps it: a clean close leaves a session that is closing. *)
LEMMA RegClose ==
  ASSUME Around, NEW x, Right(x), RegInv(x), NEW reason, reason = "none" => x.smacks = "on"
  PROVE  RegInv(session_close(x, reason))
<1> DEFINE y == pre_session_close(x)
           e == Send(y, Item("end", 0))
           a == [e EXCEPT !.closing = TRUE, !.grace = TRUE]
           b == [e EXCEPT !.closing = TRUE]
<1>1. CASE x.destroyed BY <1>1 DEF session_close
<1>2. CASE ~x.destroyed
  <2>1. /\ Right(y) /\ ~y.token /\ ~y.destroyed /\ y.smacks = x.smacks /\ RegInv(y) /\ ~y.registered
    BY <1>2, RightPreClose, RegPreClose
  <2>2. session_close(x, reason) =
          IF y.conn = None THEN destroy_session(y)
          ELSE IF reason = "none" THEN a ELSE CloseConn(destroy_session(b), y.conn)
    BY <1>2 DEF session_close
  <2> HIDE DEF y
  <2>3. a.closing /\ Shut(y, a) /\ Right(b) /\ Shut(y, b)
    BY <2>1, ClosingIs
  <2> HIDE DEF a, b
  <2>4. CASE y.conn = None BY <2>1, <2>2, <2>4, RegDestroyed
  <2>5. CASE y.conn # None /\ reason = "none"
    <3>1. RegInv(a) BY <2>1, <2>3, <2>5 DEF RegInv, Shut
    <3> QED BY <2>2, <2>5, <3>1
  <2>6. CASE y.conn # None /\ reason # "none"
    <3> DEFINE z == destroy_session(b)
    <3>1. z.destroyed /\ ~z.registered /\ z.watchdog = "none" /\ Right(z)
      BY <2>1, <2>3, Destroys, RightDestroyed DEF Shut
    <3> HIDE DEF z
    <3>2. Self(z, CloseConn(z, y.conn))
      <4>1. y.conn \in Conn BY <2>1, <2>6, ConnectedIs
      <4> QED BY <3>1, <4>1, CloseIs DEF Right
    <3>3. RegInv(CloseConn(z, y.conn)) BY <3>1, <3>2 DEF RegInv, Self
    <3> QED BY <2>2, <2>6, <3>3 DEF z
  <2> QED BY <2>4, <2>5, <2>6
<1> QED BY <1>1, <1>2

(* A connection is gone: if it was the session's, the session was there. *)
LEMMA RegDisconnected ==
  ASSUME Around, NEW x, Right(x), RegInv(x), NEW c \in Conn
  PROVE  RegInv(ondisconnect(x, c))
<1>1. CASE x.owner[c] = "S"
  <2>1. x.hibernating => x.destroyed
    <3>1. ~x.destroyed => x.conn = c BY <1>1 DEF Right, Owns
    <3> QED BY <3>1, NoneIsNoConn DEF Right, Alive
  <2>2. x.hibernating => ~x.registered BY <2>1 DEF RegInv
  <2> DEFINE y == destroy_session(x)
  <2>3. RegInv(y) BY <2>2, RegDestroyed
  <2>4. Right(y) /\ y.conn = None BY <2>1, RightDestroyed DEF Right, Alive
  <2> HIDE DEF y
  <2>5. Self(y, CloseConn(y, c)) /\ CloseConn(y, c).conn = y.conn BY <2>4, CloseIs DEF Right
  <2>6. RegInv(CloseConn(y, c)) BY <2>3, <2>5, RegSame
  <2> QED BY <1>1, <2>6 DEF ondisconnect, y
<1>2. CASE x.owner[c] # "S"
  <2>1. Self(x, CloseConn(x, c)) /\ CloseConn(x, c).conn = x.conn BY CloseIs DEF Right
  <2>2. RegInv(CloseConn(x, c)) BY <2>1, RegSame
  <2> QED BY <1>2, <2>2 DEF ondisconnect
<1> QED BY <1>1, <1>2

(* The watchdog's callback ends the session. *)
LEMMA RegExpired ==
  ASSUME Around, NEW x, Right(x), RegInv(x), ~x.destroyed
  PROVE  RegInv(expire(x))
<1> DEFINE y == [x EXCEPT !.old_h = x.handled, !.registered = FALSE, !.token = FALSE]
<1>1. Right(y) /\ ~y.token /\ ~y.destroyed BY RightUntoken
<1>2. expire(x) = destroy_session(y) BY DEF expire
<1>3. ~y.registered BY DEF Right, Server
<1> HIDE DEF y
<1>4. destroy_session(y).destroyed /\ ~destroy_session(y).registered /\ destroy_session(y).watchdog = "none"
  BY <1>1, <1>3, Destroys
<1> QED BY <1>2, <1>4 DEF RegInv

(* <enable/> gives a token to a session that is not closing. *)
LEMMA RegEnabled ==
  ASSUME Around, NEW x, Right(x), RegInv(x), ~x.destroyed
  PROVE  RegInv(handle_enable(x))
<1> DEFINE e == Send(x, Item("enabled", 0))
           y == [e EXCEPT !.smacks = "on", !.token = TRUE, !.registered = TRUE, !.q = NewQueue, !.handled = 0]
<1>1. CASE x.smacks = "on"
  <2>1. handle_enable(x) = Send(x, Item("failed", NoH)) BY <1>1 DEF handle_enable
  <2>2. NoH \in Int BY DEF NoH
  <2>3. Item("failed", NoH) \in DownItem /\ Item("failed", NoH).t # "stanza" BY <2>2, ItemIs
  <2> QED BY <2>1, <2>3, RegSent
<1>2. CASE x.smacks # "on"
  <2>1. handle_enable(x) = y BY <1>2 DEF handle_enable
  <2>2. e \in Server /\ Self(x, e) /\ Links(x, e)
    <3>1. Item("enabled", 0) \in DownItem /\ Item("enabled", 0).t # "stanza" BY ItemIs
    <3> QED BY <3>1, RightSent DEF Right
  <2> HIDE DEF e
  <2>3. /\ y.token /\ y.registered /\ y.destroyed = e.destroyed /\ y.hibernating = e.hibernating
        /\ y.conn = e.conn /\ y.closing = e.closing
    BY <2>2 DEF Server
  <2>4. ~e.closing /\ ~e.destroyed /\ (e.hibernating <=> e.conn = None)
    BY <1>2, <2>2 DEF RegInv, Self, Links
  <2> HIDE DEF y
  <2>5. RegInv(y) BY <2>3, <2>4 DEF RegInv
  <2> QED BY <2>1, <2>5
<1> QED BY <1>1, <1>2

(* <a/> leaves the registry alone, or ends the session. *)
LEMMA RegA ==
  ASSUME Around, NEW x, Right(x), RegInv(x), ~x.destroyed, NEW h \in Nat, h <= Len(cl.got)
  PROVE  RegInv(handle_a(x, h))
<1> DEFINE y == [x EXCEPT !.awaiting_ack = FALSE]
           z == [y EXCEPT !.q = Ack(@, h)]
<1>0. x \in Server BY DEF Right
<1>1. /\ y \in Server /\ Self(x, y) /\ Links(x, y) /\ y.down = x.down
  BY <1>0 DEF Server, Self, Links
<1>2. /\ x.smacks # "on" => handle_a(x, h) = x
      /\ x.smacks = "on" /\ AckError(x.q, h) # "none" => handle_a(x, h) = session_close(y, "error")
      /\ x.smacks = "on" /\ AckError(x.q, h) = "none" => handle_a(x, h) = request_ack_now_if_needed(z, FALSE)
  BY DEF handle_a
<1>3. z.registered = y.registered /\ z.token = y.token /\ z.destroyed = y.destroyed /\ z.smacks = y.smacks
      /\ z.hibernating = y.hibernating /\ z.conn = y.conn /\ z.closing = y.closing
  BY <1>1 DEF Server
<1>4. x.smacks = "on" /\ AckError(x.q, h) = "none" => Right(z) BY RightAckedA
<1> HIDE DEF y, z
<1>5. Right(y) /\ RegInv(y) BY <1>1, RightSelf, RegSame DEF Links
<1>6. RegInv(z) BY <1>3, <1>5 DEF RegInv
<1>7. CASE x.smacks # "on" BY <1>2, <1>7
<1>8. CASE x.smacks = "on" /\ AckError(x.q, h) # "none" BY <1>2, <1>5, <1>8, RegClose
<1>9. CASE x.smacks = "on" /\ AckError(x.q, h) = "none" BY <1>2, <1>4, <1>6, <1>9, RegRequested
<1> QED BY <1>7, <1>8, <1>9

(* <r/> does not touch it, *)
LEMMA RegR ==
  ASSUME Around, NEW x, Right(x), RegInv(x)
  PROVE  RegInv(handle_r(x))
<1>1. CASE x.smacks # "on" BY <1>1 DEF handle_r
<1>2. CASE x.smacks = "on"
  <2>1. x.handled \in Int BY DEF Right, Server
  <2>2. Item("a", x.handled) \in DownItem /\ Item("a", x.handled).t # "stanza" BY <2>1, ItemIs
  <2>3. Right(Send(x, Item("a", x.handled))) /\ RegInv(Send(x, Item("a", x.handled))) BY <2>2, RightSent, RegSent
  <2> QED BY <1>2, <2>3, RegRequested DEF handle_r
<1> QED BY <1>1, <1>2

(* <resume/> finds a session that can be resumed, or is refused. *)
LEMMA RegResumed ==
  ASSUME Around, NEW x, Right(x), RegInv(x), NEW c \in Conn, x.owner[c] = "N",
         x.up[c] = <<>> \/ x.up[c][1].t # "resume", NEW h \in Nat, h <= Len(cl.got),
         c = cl.conn => h = Len(cl.got) /\ x.down[c] = <<>>
  PROVE  RegInv(handle_resume(x, c, h))
<1> DEFINE y == handle_resume(x, c, h)
<1>1. Refused(x, y, c, h) \/ Accepted(x, y, c, h) BY RightResumed
<1> HIDE DEF y
<1>2. CASE Refused(x, y, c, h) BY <1>2 DEF RegInv, Refused, y
<1>3. CASE Accepted(x, y, c, h)
  <2>1. PICK f : Right(f) /\ Moved(x, f, c) /\ y = request_ack_now_if_needed(f, TRUE) BY <1>3 DEF Accepted
  <2>2. x.registered /\ ~x.destroyed BY <1>3 DEF Accepted
  <2>3. c # None BY NoneIsNoConn
  <2>4. RegInv(f) BY <2>1, <2>2, <2>3 DEF RegInv, Moved
  <2> QED BY <2>1, <2>4, RegRequested DEF y
<1> QED BY <1>1, <1>2, <1>3

(* Stopping the server leaves no session and no token. *)
LEMMA RegStopped ==
  ASSUME Around, NEW x, Right(x), RegInv(x)
  PROVE  RegInv(server_stopping(x))
<1> DEFINE y == IF x.token
             THEN session_close([CloseConn(handle_unacked_stanzas(
                    [x EXCEPT !.old_h = x.handled, !.registered = FALSE, !.token = FALSE]),
                    x.conn) EXCEPT !.conn = None], "error")
             ELSE session_close(x, "error")
           z == [y EXCEPT !.owner = [c \in Conn |-> "none"], !.registered = FALSE,
                          !.closed = @ \union {c \in Conn : y.owner[c] # "none"}]
<1>0. server_stopping(x) = z BY DEF server_stopping
<1>1. y \in Server /\ (y.destroyed \/ RegInv(y))
  <2>1. CASE x.token BY <2>1, RightStoppedToken DEF Right
  <2>2. CASE ~x.token BY <2>2, RightSessionClose, RegClose DEF Right
  <2> QED BY <2>1, <2>2
<1> HIDE DEF y
<1>2. /\ ~z.registered /\ z.destroyed = y.destroyed /\ z.hibernating = y.hibernating /\ z.conn = y.conn
      /\ z.closing = y.closing /\ z.smacks = y.smacks /\ z.token = y.token
  BY <1>1 DEF Server
<1> HIDE DEF z
<1> QED BY <1>0, <1>1, <1>2 DEF RegInv

(* What the parser hands over leaves the registry right, *)
LEMMA RegFed ==
  ASSUME SmacksInv, RegInv(srv), NEW c \in Conn, srv.up[c] # <<>>, FeedItem(c)
  PROVE  RegInv(srv')
<1> DEFINE i == Head(srv.up[c])
           x == [srv EXCEPT !.up[c] = Tail(@)]
<1>0. Right(srv) /\ Around BY InvAround DEF SmacksInv
<1>1. /\ Right(x) /\ Self(srv, x) /\ x.conn = srv.conn /\ x.owner = srv.owner /\ x.down = srv.down
      /\ (i.t \in {"a", "resume"} => i.n \in 0..Len(cl.got))
      /\ i.t = "resume" /\ c = cl.conn => i.n = Len(cl.got) /\ srv.down[c] = <<>>
      /\ x.up[c] = <<>> \/ x.up[c][1].t # "resume"
  BY <1>0, RightParsed
<1>2. \/ srv.owner[c] = "N" /\ i.t = "resume" /\ srv' = handle_resume(x, c, i.n)
      \/ srv' = count_incoming_stanzas(x, i)
      \/ srv' = x
  BY DEF FeedItem
<1> HIDE DEF i, x
<1>3. RegInv(x) BY <1>1, RegSame
<1>4. CASE srv.owner[c] = "N" /\ i.t = "resume" /\ srv' = handle_resume(x, c, i.n)
  <2>1. i.n \in Nat /\ i.n <= Len(cl.got) BY <1>0, <1>1, <1>4, AroundIs
  <2>2. c = cl.conn => i.n = Len(cl.got) /\ x.down[c] = <<>> BY <1>1, <1>4
  <2>3. x.owner[c] = "N" BY <1>1, <1>4
  <2> QED BY <1>0, <1>1, <1>3, <1>4, <2>1, <2>2, <2>3, RegResumed
<1>5. CASE srv' = count_incoming_stanzas(x, i)
  <2> DEFINE y == [x EXCEPT !.handled = @ + 1]
  <2>1. srv' \in {x, y} BY <1>5 DEF count_incoming_stanzas
  <2>2. /\ y.registered = x.registered /\ y.token = x.token /\ y.destroyed = x.destroyed
        /\ y.hibernating = x.hibernating /\ y.conn = x.conn /\ y.closing = x.closing /\ y.smacks = x.smacks
    BY <1>1 DEF Right, Server
  <2> HIDE DEF y
  <2>3. RegInv(y) BY <1>3, <2>2 DEF RegInv
  <2> QED BY <1>3, <2>1, <2>3
<1> QED BY <1>2, <1>3, <1>4, <1>5

(* and so does what the session's thread handles. *)
LEMMA RegRun ==
  ASSUME SmacksInv, RegInv(srv), RunItem
  PROVE  RegInv(srv')
<1> DEFINE i == Head(inbox)
<1>0. Right(srv) /\ Around BY InvAround DEF SmacksInv
<1>1. inbox # <<>> BY DEF RunItem
<1>2. i \in InItem /\ (i.t = "a" => i.n \in 0..Len(cl.got)) BY <1>1, TakenIs
<1>3. i.t \in {"stanza", "a", "r", "enable", "close", "expire"} BY <1>2 DEF InItem
<1>4. srv' = CASE srv.destroyed \/ i.t = "stanza" -> srv
               [] ~srv.destroyed /\ i.t = "enable" -> handle_enable(srv)
               [] ~srv.destroyed /\ i.t = "a" -> handle_a(srv, i.n)
               [] ~srv.destroyed /\ i.t = "r" -> handle_r(srv)
               [] ~srv.destroyed /\ i.t = "expire" -> expire(srv)
               [] ~srv.destroyed /\ i.t = "close" -> session_close(srv, "client")
  BY DEF RunItem
<1> HIDE DEF i
<1>5. CASE srv.destroyed \/ i.t = "stanza" BY <1>4, <1>5
<1>6. CASE ~srv.destroyed /\ i.t = "enable"
  <2>1. srv' = handle_enable(srv) BY <1>4, <1>6
  <2> QED BY <1>0, <1>6, <2>1, RegEnabled
<1>7. CASE ~srv.destroyed /\ i.t = "a"
  <2>1. srv' = handle_a(srv, i.n) BY <1>4, <1>7
  <2>2. i.n \in Nat /\ i.n <= Len(cl.got) BY <1>0, <1>2, <1>7, AroundIs
  <2> QED BY <1>0, <1>7, <2>1, <2>2, RegA
<1>8. CASE ~srv.destroyed /\ i.t = "r"
  <2>1. srv' = handle_r(srv) BY <1>4, <1>8
  <2> QED BY <1>0, <2>1, RegR
<1>9. CASE ~srv.destroyed /\ i.t = "expire"
  <2>1. srv' = expire(srv) BY <1>4, <1>9
  <2> QED BY <1>0, <1>9, <2>1, RegExpired
<1>10. CASE ~srv.destroyed /\ i.t = "close"
  <2>1. srv' = session_close(srv, "client") BY <1>4, <1>10
  <2> QED BY <1>0, <2>1, RegClose
<1> QED BY <1>3, <1>5, <1>6, <1>7, <1>8, <1>9, <1>10

(* The client touches the connections alone. *)
LEMMA DeliverIs ==
  ASSUME NEW x, NEW r
  PROVE  LET y == Deliver(x, r)
         IN /\ x \in Server => Self(x, y) /\ y.conn = x.conn /\ y.owner = x.owner /\ y.down = x.down
                               /\ y.closed = x.closed
            /\ y = x \/ (x.owner[cl.conn] # "none" /\ y = [x EXCEPT !.up[cl.conn] = @ \o r])
BY DEF Deliver, Self, Server

(* Losing what was on its way to the client, the session is the same. *)
LEMMA SelfLost ==
  ASSUME NEW x \in Server, NEW s, NEW r
  PROVE  LET y == Deliver([x EXCEPT !.down[cl.conn] = s], r)
         IN Self(x, y) /\ y.conn = x.conn
<1> DEFINE d == [x.down EXCEPT ![cl.conn] = s]
           z == [x EXCEPT !.down = d]
           u == [z.up EXCEPT ![cl.conn] = @ \o r]
           y == [z EXCEPT !.up = u]
<1>1. [x EXCEPT !.down[cl.conn] = s] = z OBVIOUS
<1>2. Deliver(z, r) = z \/ Deliver(z, r) = y BY DEF Deliver
<1> HIDE DEF d
<1>3. Self(x, z) /\ z.conn = x.conn BY DEF Server, Self
<1> HIDE DEF u
<1>4. Self(x, y) /\ y.conn = x.conn BY DEF Server, Self
<1> QED BY <1>1, <1>2, <1>3, <1>4

(* Every step keeps the registry right. *)
LEMMA RegStep ==
  ASSUME ~MayCloseEarly, SmacksInv, RegInv(srv), [Next]_vars
  PROVE  RegInv(srv)'
<1>0. Right(srv) /\ Around /\ srv \in Server BY InvAround DEF SmacksInv, Right
<1>1. CASE RouteStanza
  <2> DEFINE n == hist.out + 1
             y == [srv EXCEPT !.q = Push(@, n)]
  <2>1. srv' = IF srv.hibernating THEN y ELSE Send(y, Item("stanza", n)) BY <1>1 DEF RouteStanza, send_stanza
  <2>2. /\ y.registered = srv.registered /\ y.token = srv.token /\ y.destroyed = srv.destroyed
        /\ y.hibernating = srv.hibernating /\ y.conn = srv.conn /\ y.closing = srv.closing /\ y.smacks = srv.smacks
        /\ y \in Server
    <3>1. srv.q \in Queue /\ n \in Nat BY <1>0, AroundIs DEF Server
    <3>2. Push(srv.q, n) \in Queue BY <3>1, PushIs
    <3> QED BY <1>0, <3>2 DEF Server
  <2> HIDE DEF y
  <2>3. RegInv(y) BY <2>2 DEF RegInv
  <2>4. CASE srv' = y BY <2>3, <2>4
  <2>5. CASE srv' = Send(y, Item("stanza", n))
    <3>1. CASE y.conn # None /\ ~y.closing
      <4>1. n \in Int /\ y.conn \in Conn
        <5>1. n \in Int BY <1>0, AroundIs
        <5>2. y.conn \in Conn \union {None} BY <2>2 DEF Server
        <5> QED BY <3>1, <5>1, <5>2
      <4>2. Item("stanza", n) \in DownItem BY <4>1, ItemIs
      <4>3. <<Item("stanza", n)>> \in Seq(DownItem) BY <4>2
      <4>4. srv' = Transmit(y, y.conn, <<Item("stanza", n)>>) BY <2>5, <3>1 DEF Send
      <4>5. Self(y, srv') /\ Links(y, srv') BY <2>2, <4>1, <4>3, <4>4, TransmitIs
      <4> QED BY <2>3, <4>5, RegSame DEF Links
    <3>2. CASE ~(y.conn # None /\ ~y.closing) BY <2>3, <2>5, <3>2 DEF Send
    <3> QED BY <3>1, <3>2
  <2> QED BY <2>1, <2>4, <2>5
<1>2. CASE ReadTimeout
  <2>1. srv.conn \in Conn BY <1>0, <1>2 DEF ReadTimeout, Server
  <2>2. RegInv(ondisconnect(srv, srv.conn)) /\ RegInv(request_ack_now_if_needed(srv, TRUE))
    BY <1>0, <2>1, RegDisconnected, RegRequested
  <2> QED BY <1>2, <2>2 DEF ReadTimeout
<1>3. CASE GraceTimeout
  <2> DEFINE y == [srv EXCEPT !.grace = FALSE]
  <2>1. srv' = IF srv.destroyed THEN y ELSE CloseConn(destroy_session(y), srv.conn) BY <1>3 DEF GraceTimeout
  <2>2. /\ y.registered = srv.registered /\ y.token = srv.token /\ y.destroyed = srv.destroyed
        /\ y.hibernating = srv.hibernating /\ y.conn = srv.conn /\ y.closing = srv.closing /\ y.smacks = srv.smacks
    BY <1>0 DEF Server
  <2>3. Right(y) BY <1>0, RightUngraced
  <2> HIDE DEF y
  <2>4. RegInv(y) BY <2>2 DEF RegInv
  <2>5. CASE srv.destroyed BY <2>1, <2>4, <2>5
  <2>6. CASE ~srv.destroyed
    <3> DEFINE z == destroy_session(y)
    <3>1. ~y.token /\ ~y.registered BY <1>0, <1>3, <2>2, <2>4, <2>6 DEF GraceTimeout, Right, Alive, RegInv
    <3>2. Right(z) /\ RegInv(z) BY <1>0, <2>3, <2>4, <3>1, RightDestroyed, RegDestroyed
    <3> HIDE DEF z
    <3>3. srv.conn \in Conn \union {None} BY <1>0 DEF Server
    <3>4. RegInv(CloseConn(z, srv.conn))
      <4>1. CASE srv.conn = None BY <3>2, <4>1 DEF CloseConn
      <4>2. CASE srv.conn \in Conn
        <5>1. Self(z, CloseConn(z, srv.conn)) /\ CloseConn(z, srv.conn).conn = z.conn
          BY <3>2, <4>2, CloseIs DEF Right
        <5> QED BY <3>2, <5>1, RegSame
      <4> QED BY <3>3, <4>1, <4>2
    <3> QED BY <2>1, <2>6, <3>4 DEF z
  <2> QED BY <2>5, <2>6
<1>4. CASE WatchdogFires
  <2>1. srv' = [srv EXCEPT !.watchdog = "fired"] BY <1>4 DEF WatchdogFires
  <2> QED BY <1>0, <2>1 DEF RegInv, Server
<1>5. CASE ServerStops BY <1>0, <1>5, RegStopped DEF ServerStops
<1>6. ASSUME NEW force \in BOOLEAN, RequestAck(force) PROVE RegInv(srv')
  BY <1>0, <1>6, RegRequested DEF RequestAck
<1>7. ASSUME NEW reason \in {"error", "none"}, CloseSession(reason) PROVE RegInv(srv')
  <2>1. reason = "none" => srv.smacks = "on" BY <1>7 DEF CloseSession
  <2> QED BY <1>0, <1>7, <2>1, RegClose DEF CloseSession
<1>8. ASSUME NEW c \in Conn, Disconnect(c) PROVE RegInv(srv')
  BY <1>0, <1>8, RegDisconnected DEF Disconnect
<1>9. ASSUME NEW c \in Conn, ReadChunk(c) PROVE RegInv(srv')
  BY <1>9, RegFed DEF ReadChunk
<1>10. CASE FeedRest
  <2>1. chunk.c \in Conn BY <1>10 DEF FeedRest, SmacksInv, Types
  <2>2. CASE srv.up[chunk.c] # <<>>
    <3>1. FeedItem(chunk.c) BY <1>10, <2>2 DEF FeedRest
    <3> QED BY <2>1, <2>2, <3>1, RegFed
  <2>3. CASE srv.up[chunk.c] = <<>> BY <1>10, <2>3 DEF FeedRest
  <2> QED BY <2>2, <2>3
<1>11. CASE RunItem BY <1>11, RegRun
<1>12. CASE Wake BY <1>12 DEF Wake
<1>13. CASE ClientEarlyStanza \/ ClientEnable \/ ClientStanza \/ ClientClose \/ \E t \in {"a", "r"} : ClientAckItem(t)
  <2>1. PICK r : srv' = Deliver(srv, r)
    BY <1>13 DEF ClientEarlyStanza, ClientEnable, ClientStanza, ClientClose, ClientAckItem, ClientSends
  <2>2. Self(srv, srv') /\ srv'.conn = srv.conn BY ONLY <1>0, <2>1, DeliverIs, SMTT(60)
  <2> QED BY <2>2, RegSame
<1>14. CASE ClientRead \/ ClientLoses
  <2>1. PICK s, r : srv' = Deliver([srv EXCEPT !.down[cl.conn] = s], r)
    BY <1>14 DEF ClientRead, ClientLoses
  <2>2. Self(srv, srv') /\ srv'.conn = srv.conn BY <1>0, <2>1, SelfLost
  <2> QED BY <2>2, RegSame
<1>15. CASE ClientResumes
  <2>1. PICK c \in Conn : srv' = [srv EXCEPT !.owner[c] = "N", !.up[c] = <<Item("resume", Len(cl.got))>>]
    BY <1>15 DEF ClientResumes
  <2>2. Self(srv, srv') /\ srv'.conn = srv.conn BY <1>0, <2>1 DEF Server, Self
  <2> QED BY <2>2, RegSame
<1>16. CASE ClientRebinds
  <2>1. srv' = srv \/ srv' = session_close(srv, "error") BY <1>16 DEF ClientRebinds
  <2> QED BY <1>0, <2>1, RegClose
<1>17. CASE UNCHANGED vars BY <1>17 DEF vars
<1> QED
  BY <1>1, <1>2, <1>3, <1>4, <1>5, <1>6, <1>7, <1>8, <1>9, <1>10, <1>11, <1>12, <1>13, <1>14, <1>15, <1>16, <1>17
  DEF Next

(* Unless a session may be ended before stream management is on, a token   *)
(* in the registry leads to a session that is alive and can be resumed,    *)
(* whether handlers wait, connections break inside a stanza or the server  *)
(* is stopped.                                                             *)
THEOREM RegisteredIsResumableHolds ==
  ASSUME ~MayCloseEarly PROVE Spec => []RegisteredIsResumable
<1>1. SmacksInit => RegInv(srv)
  <2> SUFFICES ASSUME SmacksInit PROVE RegInv(srv) OBVIOUS
  <2>1. ~srv.registered /\ ~srv.hibernating /\ srv.conn = 1 /\ ~srv.closing BY DEF SmacksInit
  <2> QED BY <2>1 DEF RegInv, None
<1>2. SmacksInv /\ RegInv(srv) /\ [Next]_vars => RegInv(srv)' BY RegStep
<1>3. RegInv(srv) => RegisteredIsResumable BY DEF RegInv, RegisteredIsResumable
<1> QED BY <1>1, <1>2, <1>3, AlwaysSmacksInv, PTL DEF Spec

-----------------------------------------------------------------------------
(* Without waiting handlers every item is handled before the next event.   *)
Calm == thread = "ready" /\ chunk.n = 0 /\ Len(inbox) <= 1

(* The item the session's thread has still to handle. *)
Pending == IF inbox = <<>> THEN Item("none", 0) ELSE inbox[1]

(* None of the items of s is of type t. *)
Lacks(s, t) == \A k \in DOMAIN s : s[k].t # t

(* What is on its way to the session, of which it has counted x.handled    *)
(* stanzas, are the next ones, as far as the s the client has sent on the  *)
(* connection c it uses; before it knows how its resumption ended the      *)
(* client sends nothing.                                                   *)
Counted(x, p, c, ph, s) ==
  ~x.destroyed =>
    /\ x.handled <= s
    /\ \A d \in Conn : x.owner[d] = "S" =>
         p \/ \E e \in x.handled..s :
                Carries(x.up[d], x.handled, e) /\ (d = c => e = IF ph = "resuming" THEN x.handled ELSE s)

(* What is on its way on a session's connection d before stream management *)
(* is on: <enable/>, which may be the item to handle, and what follows it, *)
(* or nothing the session will handle.                                     *)
Offered(x, d, c, ph, en) ==
  /\ \A k \in DOMAIN x.down[d] : x.down[d][k].t = "end"
  /\ \/ en /\ ph # "bound" /\ Lacks(x.up[d], "enable")
     \/ /\ ~en /\ ph # "bound" /\ x.up[d] # <<>> /\ x.up[d][1].t = "enable"
        /\ \A k \in DOMAIN x.up[d] : k > 1 => x.up[d][k].t # "enable"
     \/ /\ ~en /\ Lacks(x.up[d], "stanza") /\ Lacks(x.up[d], "enable")
        /\ d = c => ph = "bound" /\ x.up[d] = <<>>

(* The client enables stream management once, before it sends a stanza.    *)
Enabling(x, p, c, ph, en) ==
  ~x.destroyed /\ ~p =>
    /\ x.smacks = "on" =>
         /\ ~en /\ ph # "bound"
         /\ \A d \in Conn : x.owner[d] = "S" => Lacks(x.up[d], "enable")
    /\ x.smacks = "nil" =>
         /\ x.handled = 0 /\ ph \in {"bound", "enabling", "gone"} /\ (c # None => c = x.conn)
         /\ \A d \in Conn : x.owner[d] # "N" /\ (x.owner[d] = "S" => Offered(x, d, c, ph, en))

(* On a connection that has not been handed to S the client asks to resume *)
(* and is refused; on one that has, the answer comes first and says what   *)
(* was counted.                                                            *)
Asked(x, c, ph) ==
  /\ \A d \in Conn : x.owner[d] = "N" => \A k \in DOMAIN x.up[d] : x.up[d][k].t \in {"resume", "half"}
  /\ c # None /\ x.owner[c] = "N" =>
       /\ ph \in {"resuming", "fresh", "gone"}
       /\ x.up[c] # <<>> /\ x.up[c][1].t = "resume" => ph = "resuming"
       /\ \A k \in DOMAIN x.down[c] : x.down[c][k].t = "failed"
  /\ c # None /\ x.owner[c] = "S" =>
       Lacks(x.down[c], "failed") /\ (ph = "resuming" => Lacks(x.down[c], "enabled"))
  /\ c # None => \A k \in DOMAIN x.down[c] : x.down[c][k].t = "resumed" =>
       k = 1 /\ ph = "resuming" /\ (~x.destroyed /\ x.owner[c] = "S" => x.down[c][k].n = x.handled)

(* No count the server sent or stored is more than the n stanzas processed. *)
Claims(x, n) ==
  /\ x.old_h <= n
  /\ \A c \in Conn : \A k \in DOMAIN x.down[c] :
       x.down[c][k].t \in {"a", "resumed", "failed"} => x.down[c][k].n <= n

(* While the client uses the session's connection, its acknowledgements    *)
(* only rise, from the one accepted last over the pending item i, and what *)
(* an older request to resume counts was acknowledged.                     *)
Rising(x, c, i) ==
  x.conn = c /\ c # None =>
    /\ \A k \in DOMAIN x.up[c] : x.up[c][k].t = "a" => x.q.tail <= x.up[c][k].n /\ (i.t = "a" => i.n <= x.up[c][k].n)
    /\ \A j, k \in DOMAIN x.up[c] : j < k /\ x.up[c][j].t = "a" /\ x.up[c][k].t = "a" => x.up[c][j].n <= x.up[c][k].n
    /\ i.t = "a" => x.q.tail <= i.n
    /\ \A d \in Conn \ {c} : x.owner[d] = "N" /\ x.up[d] # <<>> /\ x.up[d][1].t = "resume" => x.up[d][1].n <= x.q.tail

(* Connections break inside a stanza only where that may happen. *)
Cuts(x, p) == ~MayCut => ~p /\ \A c \in Conn : Lacks(x.up[c], "half")

(* The numbers the items carry are bounded. *)
Numbers == {NoH} \union 0..(MaxOut + MaxIn)
Small(s) == \A k \in DOMAIN s : s[k].n \in Numbers
Ranges(x) ==
  /\ \A c \in Conn : Small(x.up[c]) /\ Small(x.down[c])
  /\ x.handled \in 0..MaxIn /\ x.old_h \in {NoH} \union 0..MaxIn

(* The server's state x is right for a client on connection c, in phase    *)
(* ph, that has sent s stanzas, of which n were processed, when i is the   *)
(* item still to be handled.                                               *)
Up(x, p, c, ph, s, n, i) ==
  /\ Counted(x, p, c, ph, s) /\ Enabling(x, p, c, ph, i.t = "enable") /\ Asked(x, c, ph)
  /\ Claims(x, n) /\ Rising(x, c, i) /\ Cuts(x, p) /\ Ranges(x)
  /\ ~x.destroyed => x.handled = IF i.t = "stanza" THEN n + 1 ELSE n

(* The inductive invariant, beside SmacksInv. *)
UpInv ==
  /\ Calm
  /\ Up(srv, partial, cl.conn, cl.phase, cl.sent, Len(hist.done), Pending)
  /\ \A k \in DOMAIN hist.done : hist.done[k] = k
  /\ Pending.t = "stanza" => Pending.n = Len(hist.done) + 1
  /\ Pending.n \in Numbers
  /\ cl.acked <= Len(hist.done) /\ ~hist.rejected
  /\ cl.sent <= MaxIn /\ hist.out <= MaxOut
  /\ partial => Pending.t \in {"none", "expire"}
-----------------------------------------------------------------------------
(* What a handler says on the session's connection, at the state x. *)
Sayable(x, i) ==
  \/ i.t = "end" /\ i.n = 0
  \/ /\ x.smacks = "on"
     /\ \/ i.t = "r" /\ i.n = 0
        \/ i.t = "a" /\ i.n = x.handled
        \/ i.t = "stanza" /\ i.n \in 0..MaxOut

(* v is u, and what was said on connection c. *)
Adds(x, c, u, v) ==
  /\ Len(u) <= Len(v) /\ \A k \in 1..Len(u) : v[k] = u[k]
  /\ \A k \in (Len(u) + 1)..Len(v) : c = x.conn /\ c = cl.conn /\ Sayable(x, v[k])

(* What every handler does to the session and its connections, those of    *)
(* enable, a and resume excepted: it counts nothing and acknowledges       *)
(* nothing, closes connections, says something on the session's own, and   *)
(* may end the session.                                                    *)
Tame(x, y) ==
  /\ y.handled = x.handled /\ (y.old_h = x.old_h \/ (~x.destroyed /\ y.old_h = x.handled))
  /\ ~y.destroyed => /\ ~x.destroyed /\ y.smacks = x.smacks /\ y.q.tail = x.q.tail
                     /\ x.smacks # "on" => y.conn = x.conn
  /\ y.smacks = "on" => x.smacks = "on"
  /\ y.conn \in {x.conn, None}
  /\ y.watchdog = "armed" => y.hibernating \/ (x.watchdog = "armed" /\ ~x.hibernating)
  /\ \A c \in Conn :
       /\ y.owner[c] \in {x.owner[c], "none"} /\ y.up[c] \in {x.up[c], <<>>}
       /\ y.owner[c] # "none" => y.up[c] = x.up[c]
       /\ Adds(x, c, x.down[c], y.down[c])

(* Nothing said. *)
LEMMA AddsNone ==
  ASSUME NEW x \in Server, NEW c \in Conn
  PROVE  Adds(x, c, x.down[c], x.down[c])
<1>1. Len(x.down[c]) \in Nat BY DEF Server
<1>2. (Len(x.down[c]) + 1)..Len(x.down[c]) = {} BY <1>1
<1> QED BY <1>1, <1>2 DEF Adds

(* One thing said. *)
LEMMA AddsOne ==
  ASSUME NEW x \in Server, NEW c \in Conn, NEW u \in Seq(DownItem), NEW i \in DownItem, Sayable(x, i),
         c = x.conn, c = cl.conn
  PROVE  Adds(x, c, u, u \o <<i>>)
<1> DEFINE v == u \o <<i>>
           l == Len(u)
<1>1. l \in Nat /\ Len(v) = l + 1 /\ v[l + 1] = i /\ \A k \in 1..l : v[k] = u[k] OBVIOUS
<1> HIDE DEF v, l
<1>2. \A k \in (l + 1)..Len(v) : k = l + 1 BY <1>1
<1>3. l <= Len(v) BY <1>1
<1> QED BY <1>1, <1>2, <1>3 DEF Adds, v, l

(* A handler that leaves the connections and the counts alone. *)
LEMMA TameSame ==
  ASSUME NEW x \in Server, NEW y, y.handled = x.handled, y.old_h = x.old_h \/ (~x.destroyed /\ y.old_h = x.handled),
         y.destroyed = x.destroyed, y.smacks = x.smacks, y.q.tail = x.q.tail, y.conn = x.conn,
         y.watchdog = "armed" => x.watchdog = "armed" /\ y.hibernating = x.hibernating,
         y.owner = x.owner, y.up = x.up, y.down = x.down
  PROVE  Tame(x, y)
<1>1. \A c \in Conn : Adds(x, c, x.down[c], y.down[c]) BY AddsNone
<1>2. x.hibernating \in BOOLEAN BY DEF Server
<1> QED BY <1>1, <1>2 DEF Tame

(* One after the other. *)
LEMMA TameTwice ==
  ASSUME NEW x \in Server, NEW y \in Server, NEW z \in Server, Tame(x, y), Tame(y, z)
  PROVE  Tame(x, z)
<1>0. None \notin Conn BY NoneIsNoConn
<1>1. ASSUME NEW c \in Conn PROVE Adds(x, c, x.down[c], z.down[c])
  <2> DEFINE u == x.down[c]
             v == y.down[c]
             w == z.down[c]
  <2>1. Adds(x, c, u, v) /\ Adds(y, c, v, w) BY <1>1 DEF Tame
  <2>2. Len(u) \in Nat /\ Len(v) \in Nat /\ Len(w) \in Nat
    <3>1. x.down \in [Conn -> Seq(DownItem)] /\ y.down \in [Conn -> Seq(DownItem)] /\ z.down \in [Conn -> Seq(DownItem)]
      BY DEF Server
    <3>2. u \in Seq(DownItem) /\ v \in Seq(DownItem) /\ w \in Seq(DownItem) BY <3>1
    <3> HIDE DEF u, v, w
    <3> QED BY <3>2
  <2>3. y.handled = x.handled /\ y.conn \in {x.conn, None} /\ (y.smacks = "on" => x.smacks = "on") BY DEF Tame
  <2> HIDE DEF u, v, w
  <2>4. Len(u) <= Len(w) /\ \A k \in 1..Len(u) : w[k] = u[k] BY <2>1, <2>2 DEF Adds
  <2>5. ASSUME NEW k \in (Len(u) + 1)..Len(w) PROVE c = x.conn /\ c = cl.conn /\ Sayable(x, w[k])
    <3>1. CASE k <= Len(v)
      <4>1. k \in (Len(u) + 1)..Len(v) /\ k \in 1..Len(v) BY <2>2, <3>1
      <4>2. w[k] = v[k] BY <2>1, <4>1 DEF Adds
      <4> QED BY <2>1, <4>1, <4>2 DEF Adds
    <3>2. CASE ~(k <= Len(v))
      <4>1. k \in (Len(v) + 1)..Len(w) BY <2>2, <3>2
      <4>2. c = y.conn /\ c = cl.conn /\ Sayable(y, w[k]) BY <2>1, <4>1 DEF Adds
      <4>3. c = x.conn BY <1>0, <2>3, <4>2
      <4>4. Sayable(x, w[k]) BY <2>3, <4>2 DEF Sayable
      <4> QED BY <4>2, <4>3, <4>4
    <3> QED BY <3>1, <3>2
  <2> QED BY <2>4, <2>5 DEF Adds, u, v, w
<1>2. z.handled = x.handled /\ (z.old_h = x.old_h \/ (~x.destroyed /\ z.old_h = x.handled))
  <2>1. /\ z.handled = y.handled /\ (z.old_h = y.old_h \/ (~y.destroyed /\ z.old_h = y.handled))
        /\ y.handled = x.handled /\ (y.old_h = x.old_h \/ (~x.destroyed /\ y.old_h = x.handled))
        /\ ~y.destroyed => ~x.destroyed
    BY DEF Tame
  <2> QED BY <2>1
<1>3. /\ ~z.destroyed => /\ ~x.destroyed /\ z.smacks = x.smacks /\ z.q.tail = x.q.tail
                         /\ x.smacks # "on" => z.conn = x.conn
      /\ z.smacks = "on" => x.smacks = "on"
      /\ z.conn \in {x.conn, None}
  BY DEF Tame
<1>4. z.watchdog = "armed" => z.hibernating \/ (x.watchdog = "armed" /\ ~x.hibernating) BY DEF Tame
<1>5. \A c \in Conn :
        /\ z.owner[c] \in {x.owner[c], "none"} /\ z.up[c] \in {x.up[c], <<>>}
        /\ z.owner[c] # "none" => z.up[c] = x.up[c]
  BY DEF Tame
<1> QED BY <1>1, <1>2, <1>3, <1>4, <1>5 DEF Tame

(* session.send is tame, *)
LEMMA TameSent ==
  ASSUME NEW x \in Server, NEW i \in DownItem, Sayable(x, i)
  PROVE  Send(x, i) \in Server /\ Tame(x, Send(x, i)) /\ Self(x, Send(x, i)) /\ Links(x, Send(x, i))
<1>1. CASE ~(x.conn # None /\ ~x.closing)
  <2>1. Send(x, i) = x BY <1>1 DEF Send
  <2> QED BY <2>1, TameSame DEF Self, Links
<1>2. CASE x.conn # None /\ ~x.closing
  <2> DEFINE c == x.conn
             y == Transmit(x, c, <<i>>)
  <2>1. Send(x, i) = y BY <1>2 DEF Send
  <2>2. c \in Conn BY <1>2 DEF Server
  <2>3. <<i>> \in Seq(DownItem) OBVIOUS
  <2>4. /\ y \in Server /\ Self(x, y) /\ Links(x, y)
        /\ c = cl.conn => y.down[c] = x.down[c] \o <<i>>
        /\ \A d \in Conn : d # c => y.down[d] = x.down[d]
        /\ c # cl.conn => y = x
    BY <2>2, <2>3, TransmitIs
  <2>5. CASE c # cl.conn
    <3>1. y = x BY <2>4, <2>5
    <3> QED BY <2>1, <3>1, TameSame DEF Self, Links
  <2>6. CASE c = cl.conn
    <3> HIDE DEF y
    <3>1. \A d \in Conn : d # c => Adds(x, d, x.down[d], y.down[d]) BY <2>4, AddsNone
    <3>2. x.down[c] \in Seq(DownItem) BY <2>2 DEF Server
    <3>3. Adds(x, c, x.down[c], x.down[c] \o <<i>>) BY <2>2, <2>6, <3>2, AddsOne
    <3>4. Adds(x, c, x.down[c], y.down[c]) BY <2>4, <2>6, <3>3
    <3>5. \A d \in Conn : Adds(x, d, x.down[d], y.down[d]) BY <3>1, <3>4
    <3>6. x.hibernating \in BOOLEAN BY DEF Server
    <3>7. Tame(x, y) BY <2>4, <3>5, <3>6 DEF Tame, Self, Links
    <3> QED BY <2>1, <2>4, <3>7
  <2> QED BY <2>5, <2>6
<1> QED BY <1>1, <1>2

(* closing a connection, *)
LEMMA TameClosed ==
  ASSUME NEW x \in Server, NEW c \in Conn \union {None}
  PROVE  CloseConn(x, c) \in Server /\ Tame(x, CloseConn(x, c))
<1> DEFINE y == CloseConn(x, c)
<1>1. CASE c = None
  <2>1. y = x BY <1>1 DEF CloseConn
  <2> QED BY <2>1, TameSame
<1>2. CASE c \in Conn
  <2>1. /\ y \in Server /\ Self(x, y) /\ y.owner = [x.owner EXCEPT ![c] = "none"]
        /\ y.up = [x.up EXCEPT ![c] = <<>>] /\ y.down = x.down /\ y.conn = x.conn
    BY <1>2, CloseIs
  <2> HIDE DEF y
  <2>2. \A d \in Conn : Adds(x, d, x.down[d], y.down[d]) BY <2>1, AddsNone
  <2>3. x.hibernating \in BOOLEAN /\ x.owner \in [Conn -> {"none", "S", "N"}] /\ x.up \in [Conn -> Seq(UpItem)]
    BY DEF Server
  <2>4. \A d \in Conn : /\ y.owner[d] \in {x.owner[d], "none"} /\ y.up[d] \in {x.up[d], <<>>}
                        /\ y.owner[d] # "none" => y.up[d] = x.up[d]
    BY <2>1, <2>3
  <2>5. Tame(x, y) BY <2>1, <2>2, <2>3, <2>4 DEF Tame, Self
  <2> QED BY <2>1, <2>5 DEF y
<1> QED BY <1>1, <1>2

(* and asking for an acknowledgement. *)
LEMMA TameRequested ==
  ASSUME Around, NEW x, Right(x), NEW force
  PROVE  Tame(x, request_ack_now_if_needed(x, force))
<1> DEFINE i == Item("r", 0)
           w == Send(x, i)
           l == CountAcked(x.q) + CountUnacked(x.q)
           y == [w EXCEPT !.awaiting_ack = TRUE, !.last_requested_h = l]
<1>0. x \in Server BY DEF Right
<1>1. CASE ~should_ack(x, force) BY <1>0, <1>1, TameSame DEF request_ack_now_if_needed
<1>2. CASE should_ack(x, force)
  <2>1. request_ack_now_if_needed(x, force) = y BY <1>2 DEF request_ack_now_if_needed
  <2>2. i \in DownItem BY ItemIs
  <2>3. Sayable(x, i) BY <1>2 DEF should_ack, Sayable, Item
  <2> HIDE DEF i
  <2>4. w \in Server /\ Tame(x, w) BY <1>0, <2>2, <2>3, TameSent
  <2> HIDE DEF w
  <2>5. /\ y.handled = w.handled /\ y.old_h = w.old_h /\ y.destroyed = w.destroyed /\ y.smacks = w.smacks
        /\ y.q = w.q /\ y.conn = w.conn /\ y.watchdog = w.watchdog /\ y.hibernating = w.hibernating
        /\ y.owner = w.owner /\ y.up = w.up /\ y.down = w.down
    BY <2>4 DEF Server
  <2>6. Tame(w, y) BY <2>4, <2>5, TameSame
  <2>7. y \in Server BY <2>1, RightRequested DEF Right
  <2> QED BY <1>0, <2>1, <2>4, <2>6, <2>7, TameTwice
<1> QED BY <1>1, <1>2

(* A session that can be resumed hibernates; *)
LEMMA TameHibernated ==
  ASSUME NEW x \in Server, x.smacks = "on"
  PROVE  Tame(x, hibernate(x))
<1> DEFINE y == hibernate(x)
           w == CloseConn(x, x.conn)
<1>1. /\ y.hibernating /\ y.watchdog = "armed" /\ y.conn = None /\ y.q = x.q
      /\ y.owner = w.owner /\ y.up = w.up /\ y.down = w.down /\ y.smacks = x.smacks
      /\ y.destroyed = x.destroyed /\ y.handled = x.handled /\ y.old_h = x.old_h
  BY HibernateIs
<1>2. Tame(x, w)
  <2>1. x.conn \in Conn \union {None} BY DEF Server
  <2> QED BY <2>1, TameClosed
<1> HIDE DEF y, w
<1>3. Tame(x, y) BY <1>1, <1>2 DEF Tame
<1> QED BY <1>3 DEF y

(* another one is retired: *)
LEMMA TameDestroyed ==
  ASSUME Around, NEW x, Right(x)
  PROVE  Tame(x, destroy_session(x))
<1>0. x \in Server BY DEF Right
<1>1. CASE x.destroyed
  <2>1. destroy_session(x) = x BY <1>1 DEF destroy_session
  <2> QED BY <1>0, <2>1, TameSame
<1>2. CASE ~x.destroyed /\ x.smacks = "on" /\ x.token /\ ~x.hibernating
  <2>1. destroy_session(x) = hibernate(x) BY <1>2 DEF destroy_session
  <2> QED BY <1>0, <1>2, <2>1, TameHibernated
<1>3. CASE ~x.destroyed /\ ~(x.smacks = "on" /\ x.token /\ ~x.hibernating)
  <2> DEFINE y == destroy_session(x)
  <2>1. ~x.token \/ x.hibernating BY <1>3 DEF Right, Alive
  <2>2. /\ y.destroyed /\ ~y.hibernating /\ y.conn = None /\ y.watchdog = "none"
        /\ y.handled = x.handled /\ y.old_h = x.old_h /\ y.smacks = "nil"
        /\ y.owner = x.owner /\ y.up = x.up /\ y.down = x.down
    BY <1>3, <2>1, Destroys
  <2> HIDE DEF y
  <2>3. \A c \in Conn : Adds(x, c, x.down[c], y.down[c]) BY <1>0, <2>2, AddsNone
  <2>4. Tame(x, y) BY <2>2, <2>3 DEF Tame
  <2> QED BY <2>4 DEF y
<1> QED BY <1>1, <1>2, <1>3

(* the pre-session-close hook, *)
LEMMA TamePreClose ==
  ASSUME NEW x \in Server
  PROVE  Tame(x, pre_session_close(x))
<1> DEFINE w == [x EXCEPT !.token = FALSE, !.watchdog = "none", !.registered = @ /\ ~x.token]
           i == Item("a", w.handled)
           y == Send(w, i)
<1>1. CASE x.smacks = "nil"
  <2>1. pre_session_close(x) = x BY <1>1 DEF pre_session_close
  <2> QED BY <2>1, TameSame
<1>2. CASE x.smacks # "nil"
  <2>1. pre_session_close(x) = IF w.smacks = "on" THEN y ELSE w BY <1>2 DEF pre_session_close
  <2>2. /\ w.handled = x.handled /\ w.old_h = x.old_h /\ w.destroyed = x.destroyed /\ w.smacks = x.smacks
        /\ w.q.tail = x.q.tail /\ w.conn = x.conn /\ w.watchdog = "none"
        /\ w.owner = x.owner /\ w.up = x.up /\ w.down = x.down
    BY DEF Server
  <2>3. w \in Server
    <3> DEFINE r == x.registered /\ ~x.token
    <3>1. r \in BOOLEAN /\ w = [x EXCEPT !.token = FALSE, !.watchdog = "none", !.registered = r] OBVIOUS
    <3> HIDE DEF w, r
    <3> QED BY <3>1 DEF Server
  <2>4. w.handled \in Int BY <2>3 DEF Server
  <2> HIDE DEF w
  <2>5. Tame(x, w) BY <2>2, TameSame
  <2>6. CASE w.smacks = "on"
    <3>1. i \in DownItem BY <2>4, ItemIs
    <3>2. Sayable(w, i) BY <2>6 DEF Sayable, Item
    <3> HIDE DEF i
    <3>3. y \in Server /\ Tame(w, y) BY <2>3, <3>1, <3>2, TameSent
    <3> HIDE DEF y
    <3> QED BY <2>1, <2>3, <2>5, <2>6, <3>3, TameTwice
  <2>7. CASE w.smacks # "on" BY <2>1, <2>5, <2>7
  <2> QED BY <2>6, <2>7
<1> QED BY <1>1, <1>2

(* session:close, *)
LEMMA TameClose ==
  ASSUME Around, NEW x, Right(x), NEW reason
  PROVE  Tame(x, session_close(x, reason))
<1> DEFINE y == pre_session_close(x)
           i == Item("end", 0)
           e == Send(y, i)
           a == [e EXCEPT !.closing = TRUE, !.grace = TRUE]
           b == [e EXCEPT !.closing = TRUE]
           z == destroy_session(b)
           f == CloseConn(z, y.conn)
<1>0. x \in Server BY DEF Right
<1>1. CASE x.destroyed
  <2>1. session_close(x, reason) = x BY <1>1 DEF session_close
  <2> QED BY <1>0, <2>1, TameSame
<1>2. CASE ~x.destroyed
  <2>1. Right(y) /\ ~y.token /\ Tame(x, y) /\ y \in Server
    BY <1>0, RightPreClose, TamePreClose DEF Right
  <2>2. session_close(x, reason) = IF y.conn = None THEN destroy_session(y) ELSE IF reason = "none" THEN a ELSE f
    BY <1>2 DEF session_close
  <2> HIDE DEF y
  <2>3. i \in DownItem /\ Sayable(y, i) BY ItemIs DEF Sayable, Item
  <2>4. Right(a) /\ Shut(y, a) /\ a.down = e.down /\ Right(b) /\ Shut(y, b) /\ b.down = e.down
    BY <2>1, ClosingIs
  <2> HIDE DEF i
  <2>5. e \in Server /\ Tame(y, e) /\ Self(y, e) /\ Links(y, e) BY <2>1, <2>3, TameSent
  <2> HIDE DEF e, a, b
  <2>6. Tame(e, a) BY <2>4, <2>5, TameSame DEF Shut, Self, Links
  <2>7. Tame(e, b) BY <2>4, <2>5, TameSame DEF Shut, Self, Links
  <2>8. a \in Server /\ b \in Server BY <2>4 DEF Right
  <2>9. Tame(x, e) BY <1>0, <2>1, <2>5, TameTwice
  <2>10. CASE y.conn = None
    <3>1. Tame(y, destroy_session(y)) BY <2>1, TameDestroyed
    <3>2. destroy_session(y) \in Server
      <4>1. y.token /\ y.hibernating => y.q.head = 0 BY <2>1
      <4> QED BY <2>1, <4>1, RightDestroyed DEF Right
    <3> QED BY <1>0, <2>1, <2>2, <2>10, <3>1, <3>2, TameTwice
  <2>11. CASE y.conn # None /\ reason = "none"
    BY <1>0, <2>2, <2>5, <2>6, <2>8, <2>9, <2>11, TameTwice
  <2>12. CASE y.conn # None /\ reason # "none"
    <3>1. Tame(x, b) BY <1>0, <2>5, <2>7, <2>8, <2>9, TameTwice
    <3>2. Tame(b, z) BY <2>4, TameDestroyed
    <3>3. Right(z)
      <4>1. b.token /\ b.hibernating => b.q.head = 0 BY <2>1, <2>4 DEF Shut
      <4> QED BY <2>4, <4>1, RightDestroyed
    <3>4. z \in Server BY <3>3 DEF Right
    <3> HIDE DEF z
    <3>5. Tame(x, z) BY <1>0, <2>8, <3>1, <3>2, <3>4, TameTwice
    <3>6. y.conn \in Conn \union {None} BY <2>1 DEF Server
    <3>7. f \in Server /\ Tame(z, f) BY <3>4, <3>6, TameClosed
    <3> HIDE DEF f
    <3> QED BY <1>0, <2>2, <2>12, <3>4, <3>5, <3>7, TameTwice
  <2> QED BY <2>10, <2>11, <2>12
<1> QED BY <1>1, <1>2

(* the end of a connection, *)
LEMMA TameDisconnected ==
  ASSUME Around, NEW x, Right(x), NEW c \in Conn
  PROVE  Tame(x, ondisconnect(x, c))
<1> DEFINE y == destroy_session(x)
<1>0. x \in Server BY DEF Right
<1>1. CASE x.owner[c] = "S"
  <2>1. Tame(x, y) BY TameDestroyed
  <2>2. y \in Server
    <3>1. x.token /\ x.hibernating => x.destroyed
      <4>1. ~x.destroyed => x.conn = c BY <1>1 DEF Right, Owns
      <4> QED BY <4>1, NoneIsNoConn DEF Right, Alive
    <3>2. ~(x.token /\ x.hibernating) BY <3>1 DEF Right, Alive
    <3> QED BY <3>2, RightDestroyed DEF Right
  <2> HIDE DEF y
  <2>3. CloseConn(y, c) \in Server /\ Tame(y, CloseConn(y, c)) BY <2>2, TameClosed
  <2>4. ondisconnect(x, c) = CloseConn(y, c) BY <1>1 DEF ondisconnect, y
  <2> QED BY <1>0, <2>1, <2>2, <2>3, <2>4, TameTwice
<1>2. CASE x.owner[c] # "S"
  <2>1. ondisconnect(x, c) = CloseConn(x, c) BY <1>2 DEF ondisconnect
  <2> QED BY <1>0, <2>1, TameClosed
<1> QED BY <1>1, <1>2

(* the watchdog's callback, *)
LEMMA TameExpired ==
  ASSUME Around, NEW x, Right(x), ~x.destroyed
  PROVE  Tame(x, expire(x))
<1> DEFINE y == [x EXCEPT !.old_h = x.handled, !.registered = FALSE, !.token = FALSE]
<1>0. x \in Server BY DEF Right
<1>1. /\ Right(y) /\ Links(x, y) /\ y.down = x.down /\ y.smacks = x.smacks /\ ~y.token /\ y.q = x.q
      /\ y.hibernating = x.hibernating /\ y.destroyed = x.destroyed /\ y.handled = x.handled
      /\ y.old_h = x.handled
  BY RightUntoken
<1>2. y.watchdog = x.watchdog BY <1>0 DEF Server
<1>3. expire(x) = destroy_session(y) BY DEF expire
<1> HIDE DEF y
<1>4. Tame(x, y) BY <1>0, <1>1, <1>2, TameSame DEF Links
<1>5. Tame(y, destroy_session(y)) BY <1>1, TameDestroyed
<1>6. y \in Server /\ destroy_session(y) \in Server
  <2>1. ~(y.token /\ y.hibernating) BY <1>1
  <2> QED BY <1>1, <2>1, RightDestroyed DEF Right
<1> QED BY <1>0, <1>3, <1>4, <1>5, <1>6, TameTwice

(* the grace period's timer, *)
LEMMA TameGrace ==
  ASSUME Around, NEW x, Right(x), x.grace
  PROVE  LET y == [x EXCEPT !.grace = FALSE]
         IN Tame(x, y) /\ Tame(x, CloseConn(destroy_session(y), x.conn))
<1> DEFINE y == [x EXCEPT !.grace = FALSE]
           z == destroy_session(y)
           f == CloseConn(z, x.conn)
<1>0. x \in Server BY DEF Right
<1>1. Right(y) BY RightUngraced
<1>2. /\ y.handled = x.handled /\ y.old_h = x.old_h /\ y.destroyed = x.destroyed /\ y.smacks = x.smacks
      /\ y.q = x.q /\ y.conn = x.conn /\ y.watchdog = x.watchdog /\ y.hibernating = x.hibernating
      /\ y.owner = x.owner /\ y.up = x.up /\ y.down = x.down /\ y.token = x.token
  BY <1>0 DEF Server
<1> HIDE DEF y
<1>3. Tame(x, y) BY <1>0, <1>2, TameSame
<1>4. Tame(y, z) BY <1>1, TameDestroyed
<1>5. y \in Server /\ z \in Server
  <2>1. y.token /\ y.hibernating => y.q.head = 0 BY <1>2 DEF Right, Alive
  <2> QED BY <1>1, <2>1, RightDestroyed DEF Right
<1> HIDE DEF z
<1>6. x.conn \in Conn \union {None} BY <1>0 DEF Server
<1>7. f \in Server /\ Tame(z, f) BY <1>5, <1>6, TameClosed
<1> HIDE DEF f
<1>8. Tame(x, z) BY <1>0, <1>3, <1>4, <1>5, TameTwice
<1>9. Tame(x, f) BY <1>0, <1>5, <1>7, <1>8, TameTwice
<1> QED BY <1>3, <1>9 DEF f, z, y

(* stopping the server, *)
LEMMA TameStopped ==
  ASSUME Around, NEW x, Right(x)
  PROVE  Tame(x, server_stopping(x))
<1> DEFINE y == IF x.token
             THEN session_close([CloseConn(handle_unacked_stanzas(
                    [x EXCEPT !.old_h = x.handled, !.registered = FALSE, !.token = FALSE]),
                    x.conn) EXCEPT !.conn = None], "error")
             ELSE session_close(x, "error")
           z == [y EXCEPT !.owner = [c \in Conn |-> "none"], !.registered = FALSE,
                          !.closed = @ \union {c \in Conn : y.owner[c] # "none"}]
<1>0. x \in Server BY DEF Right
<1>1. server_stopping(x) = z BY DEF server_stopping
<1>2. y \in Server /\ Tame(x, y)
  <2>1. CASE x.token
    <3> DEFINE w == CloseConn(x, x.conn)
    <3>1. /\ y \in Server /\ y.conn = None /\ y.destroyed /\ ~y.hibernating /\ y.watchdog = "none" /\ y.smacks = "nil"
          /\ y.handled = x.handled /\ y.old_h = x.handled /\ y.down = x.down
          /\ y.owner = w.owner /\ y.up = w.up
      BY <2>1, RightStoppedToken DEF Right
    <3> HIDE DEF y
    <3>2. ~x.destroyed BY <2>1 DEF Right, Alive
    <3>3. Tame(x, w)
      <4>1. x.conn \in Conn \union {None} BY <1>0 DEF Server
      <4> QED BY <1>0, <4>1, TameClosed
    <3> HIDE DEF w
    <3>4. \A c \in Conn : Adds(x, c, x.down[c], y.down[c]) BY <1>0, <3>1, AddsNone
    <3> QED BY <3>1, <3>2, <3>3, <3>4 DEF Tame
  <2>2. CASE ~x.token BY <2>2, TameClose, RightSessionClose DEF Right
  <2> QED BY <2>1, <2>2
<1> HIDE DEF y
<1>3. /\ z.handled = y.handled /\ z.old_h = y.old_h /\ z.destroyed = y.destroyed /\ z.smacks = y.smacks
      /\ z.q = y.q /\ z.conn = y.conn /\ z.watchdog = y.watchdog /\ z.hibernating = y.hibernating
      /\ \A c \in Conn : z.owner[c] = "none"
      /\ z.up = y.up /\ z.down = y.down
  BY <1>2 DEF Server
<1> HIDE DEF z
<1>4. Tame(x, z) BY <1>2, <1>3 DEF Tame
<1> QED BY <1>1, <1>4

(* routing a stanza, *)
LEMMA TameRouted ==
  ASSUME NEW x \in Server, x.smacks = "on", NEW n \in 0..MaxOut
  PROVE  Tame(x, send_stanza(x, n))
<1> DEFINE y == [x EXCEPT !.q = Push(@, n)]
           i == Item("stanza", n)
<1>1. x.q \in Queue /\ n \in Nat /\ n \in Int BY SmacksAssumption DEF Server
<1>2. Push(x.q, n) \in Queue /\ Push(x.q, n).tail = x.q.tail BY <1>1, PushIs
<1>3. /\ y \in Server /\ y.q.tail = x.q.tail /\ y.smacks = x.smacks
      /\ y.handled = x.handled /\ y.old_h = x.old_h /\ y.destroyed = x.destroyed
      /\ y.conn = x.conn /\ y.watchdog = x.watchdog /\ y.hibernating = x.hibernating
      /\ y.owner = x.owner /\ y.up = x.up /\ y.down = x.down
  BY <1>2 DEF Server
<1>4. send_stanza(x, n) = IF x.hibernating THEN y ELSE Send(y, i) BY DEF send_stanza
<1> HIDE DEF y
<1>5. Tame(x, y) BY <1>3, TameSame
<1>6. i \in DownItem BY <1>1, ItemIs
<1>7. Sayable(y, i) BY <1>3 DEF Sayable, Item
<1> HIDE DEF i
<1>8. Send(y, i) \in Server /\ Tame(y, Send(y, i)) BY <1>3, <1>6, <1>7, TameSent
<1>9. Tame(x, Send(y, i)) BY <1>3, <1>5, <1>8, TameTwice
<1> QED BY <1>4, <1>5, <1>9

(* answering <r/>, *)
LEMMA TameR ==
  ASSUME Around, NEW x, Right(x)
  PROVE  Tame(x, handle_r(x))
<1> DEFINE i == Item("a", x.handled)
           y == Send(x, i)
<1>0. x \in Server BY DEF Right
<1>1. CASE x.smacks # "on"
  <2>1. handle_r(x) = x BY <1>1 DEF handle_r
  <2> QED BY <1>0, <2>1, TameSame
<1>2. CASE x.smacks = "on"
  <2>1. handle_r(x) = request_ack_now_if_needed(y, FALSE) BY <1>2 DEF handle_r
  <2>2. x.handled \in Int BY <1>0 DEF Server
  <2>3. i \in DownItem /\ i.t # "stanza" BY <2>2, ItemIs
  <2>4. Sayable(x, i) BY <1>2 DEF Sayable, Item
  <2> HIDE DEF i
  <2>5. y \in Server /\ Tame(x, y) BY <1>0, <2>3, <2>4, TameSent
  <2>6. Right(y) BY <2>3, RightSent
  <2> HIDE DEF y
  <2>7. Tame(y, request_ack_now_if_needed(y, FALSE)) /\ request_ack_now_if_needed(y, FALSE) \in Server
    BY <2>6, TameRequested, RightRequested DEF Right
  <2> QED BY <1>0, <2>1, <2>5, <2>7, TameTwice
<1> QED BY <1>1, <1>2

(* and a count that is refused. *)
LEMMA TameBadA ==
  ASSUME Around, NEW x, Right(x), NEW h, x.smacks # "on" \/ AckError(x.q, h) # "none"
  PROVE  Tame(x, handle_a(x, h))
<1> DEFINE y == [x EXCEPT !.awaiting_ack = FALSE]
<1>0. x \in Server BY DEF Right
<1>1. CASE x.smacks # "on"
  <2>1. handle_a(x, h) = x BY <1>1 DEF handle_a
  <2> QED BY <1>0, <2>1, TameSame
<1>2. CASE x.smacks = "on"
  <2>1. handle_a(x, h) = session_close(y, "error") BY <1>2 DEF handle_a
  <2>2. y \in Server /\ Self(x, y) /\ Links(x, y) /\ y.down = x.down BY <1>0 DEF Server, Self, Links
  <2> HIDE DEF y
  <2>3. Right(y) BY <2>2, RightSelf
  <2>4. Tame(x, y) BY <1>0, <2>2, TameSame DEF Self, Links
  <2>5. Tame(y, session_close(y, "error")) /\ session_close(y, "error") \in Server
    BY <2>3, TameClose, RightSessionClose DEF Right
  <2> QED BY <1>0, <2>1, <2>2, <2>4, <2>5, TameTwice
<1> QED BY <1>1, <1>2

-----------------------------------------------------------------------------
(* Every event but an item for the session's thread, data from a           *)
(* connection and what the client does is tame, *)
LEMMA TameEvents ==
  ASSUME SmacksInv,
         \/ RouteStanza \/ ReadTimeout \/ GraceTimeout \/ WatchdogFires \/ ServerStops \/ Wake \/ ClientRebinds
         \/ \E force \in BOOLEAN : RequestAck(force)
         \/ \E reason \in {"error", "none"} : CloseSession(reason)
         \/ \E c \in Conn : Disconnect(c)
  PROVE  Tame(srv, srv')
<1>0. Right(srv) /\ Around /\ srv \in Server BY InvAround DEF SmacksInv, Right
<1>1. CASE RouteStanza
  <2>1. hist.out \in Nat /\ hist.out < MaxOut /\ MaxOut \in Nat BY <1>0, <1>1, AroundIs, SmacksAssumption DEF RouteStanza
  <2>2. hist.out + 1 \in 0..MaxOut BY <2>1
  <2> QED BY <1>0, <1>1, <2>2, TameRouted DEF RouteStanza
<1>2. CASE ReadTimeout
  <2>1. srv.conn \in Conn BY <1>0, <1>2 DEF ReadTimeout, Server
  <2>2. Tame(srv, ondisconnect(srv, srv.conn)) /\ Tame(srv, request_ack_now_if_needed(srv, TRUE))
    BY <1>0, <2>1, TameDisconnected, TameRequested
  <2> QED BY <1>2, <2>2 DEF ReadTimeout
<1>3. CASE GraceTimeout BY <1>0, <1>3, TameGrace DEF GraceTimeout
<1>4. CASE WatchdogFires
  <2>1. srv' = [srv EXCEPT !.watchdog = "fired"] BY <1>4 DEF WatchdogFires
  <2>2. /\ srv'.watchdog = "fired" /\ srv'.handled = srv.handled /\ srv'.old_h = srv.old_h
        /\ srv'.destroyed = srv.destroyed /\ srv'.smacks = srv.smacks /\ srv'.q = srv.q /\ srv'.conn = srv.conn
        /\ srv'.owner = srv.owner /\ srv'.up = srv.up /\ srv'.down = srv.down
    BY <1>0, <2>1 DEF Server
  <2> QED BY <1>0, <2>2, TameSame
<1>5. CASE ServerStops BY <1>0, <1>5, TameStopped DEF ServerStops
<1>6. CASE Wake
  <2>1. srv' = srv BY <1>6 DEF Wake
  <2> QED BY <1>0, <2>1, TameSame
<1>7. CASE ClientRebinds
  <2>1. srv' = srv \/ srv' = session_close(srv, "error") BY <1>7 DEF ClientRebinds
  <2> QED BY <1>0, <2>1, TameSame, TameClose
<1>8. CASE \E force \in BOOLEAN : RequestAck(force) BY <1>0, <1>8, TameRequested DEF RequestAck
<1>9. CASE \E reason \in {"error", "none"} : CloseSession(reason) BY <1>0, <1>9, TameClose DEF CloseSession
<1>10. CASE \E c \in Conn : Disconnect(c) BY <1>0, <1>10, TameDisconnected DEF Disconnect
<1> QED BY <1>1, <1>2, <1>3, <1>4, <1>5, <1>6, <1>7, <1>8, <1>9, <1>10

(* and so is what the session's thread does, unless the item is <enable/>  *)
(* or a count that is accepted. *)
LEMMA TameRun ==
  ASSUME SmacksInv, RunItem,
         LET i == Head(inbox)
         IN ~srv.destroyed => i.t # "enable" /\ (i.t = "a" => srv.smacks # "on" \/ AckError(srv.q, i.n) # "none")
  PROVE  Tame(srv, srv')
<1> DEFINE i == Head(inbox)
<1>0. Right(srv) /\ Around /\ srv \in Server BY InvAround DEF SmacksInv, Right
<1>1. inbox # <<>> BY DEF RunItem
<1>2. i.t \in {"stanza", "a", "r", "enable", "close", "expire"} BY <1>1, TakenIs DEF InItem
<1>3. srv' = CASE srv.destroyed \/ i.t = "stanza" -> srv
               [] ~srv.destroyed /\ i.t = "enable" -> handle_enable(srv)
               [] ~srv.destroyed /\ i.t = "a" -> handle_a(srv, i.n)
               [] ~srv.destroyed /\ i.t = "r" -> handle_r(srv)
               [] ~srv.destroyed /\ i.t = "expire" -> expire(srv)
               [] ~srv.destroyed /\ i.t = "close" -> session_close(srv, "client")
  BY DEF RunItem
<1>4. ~srv.destroyed => i.t # "enable" /\ (i.t = "a" => srv.smacks # "on" \/ AckError(srv.q, i.n) # "none") OBVIOUS
<1> HIDE DEF i
<1>5. CASE srv.destroyed \/ i.t = "stanza" BY <1>0, <1>3, <1>5, TameSame
<1>6. CASE ~srv.destroyed /\ i.t = "a" BY <1>0, <1>3, <1>4, <1>6, TameBadA
<1>7. CASE ~srv.destroyed /\ i.t = "r" BY <1>0, <1>3, <1>7, TameR
<1>8. CASE ~srv.destroyed /\ i.t = "expire" BY <1>0, <1>3, <1>8, TameExpired
<1>9. CASE ~srv.destroyed /\ i.t = "close" BY <1>0, <1>3, <1>9, TameClose
<1> QED BY <1>2, <1>4, <1>5, <1>6, <1>7, <1>8, <1>9

(* An event comes when the thread has nothing to do. *)
LEMMA CalmIdle == ASSUME Calm, Idle PROVE inbox = <<>>
BY DEF Calm, Idle, Settled

(* What is appended to nothing is alone. *)
LEMMA OnlyOne == ASSUME NEW i PROVE Append(<<>>, i) = <<i>> /\ Len(<<i>>) = 1 /\ <<i>>[1] = i /\ Len(<<>>) = 0
OBVIOUS

(* Nothing, or what was appended to nothing, is one item at most. *)
LEMMA OneAtMost ==
  ASSUME NEW s, NEW r, NEW i, s = <<>>, r = s \/ r = Append(s, i)
  PROVE  Len(r) <= 1
<1>1. r = <<>> \/ r = Append(<<>>, i) OBVIOUS
<1>2. CASE r = <<>>
  <2>1. Len(r) = 0 BY <1>2, OnlyOne
  <2> QED BY <2>1
<1>3. CASE r = Append(<<>>, i)
  <2>1. r = <<i>> BY ONLY <1>3, OnlyOne, SMTT(60)
  <2> QED BY <2>1
<1> QED BY <1>1, <1>2, <1>3

(* Handlers that do not wait leave one item to handle, or none. *)
LEMMA CalmStep ==
  ASSUME ~MayWait, Types, Calm, [Next]_vars
  PROVE  Calm'
<1>0. thread = "ready" /\ chunk.n = 0 /\ Len(inbox) <= 1 /\ inbox \in Seq(InItem) BY DEF Calm, Types
<1>1. Len(<<>>) <= 1 OBVIOUS
<1>2. CASE UNCHANGED <<thread, inbox, chunk>> BY <1>0, <1>2 DEF Calm
<1>3. CASE WatchdogFires
  <2>1. inbox = <<>> /\ thread' = thread /\ chunk' = chunk /\ (inbox' = inbox \/ inbox' = Append(inbox, Item("expire", 0)))
    BY <1>3, CalmIdle DEF WatchdogFires
  <2>2. Len(inbox') <= 1 BY <2>1, OneAtMost
  <2> QED BY <1>0, <2>1, <2>2 DEF Calm
<1>4. CASE ServerStops BY <1>0, <1>1, <1>4 DEF ServerStops, Calm
<1>5. ASSUME NEW c \in Conn, ReadChunk(c) PROVE Calm'
  <2>1. inbox = <<>> /\ thread' = thread BY <1>5, CalmIdle DEF ReadChunk, FeedItem
  <2>2. chunk'.n = 0 BY <1>5 DEF ReadChunk
  <2>3. inbox' = inbox \/ inbox' = Append(inbox, Head(srv.up[c])) BY <1>5 DEF ReadChunk, FeedItem
  <2>4. Len(inbox') <= 1 BY <2>1, <2>3, OneAtMost
  <2> QED BY <1>0, <2>1, <2>2, <2>4 DEF Calm
<1>6. CASE FeedRest BY <1>0, <1>6 DEF FeedRest
<1>7. CASE RunItem
  <2>1. inbox # <<>> /\ inbox' = Tail(inbox) /\ thread' = thread /\ chunk' = chunk BY <1>7 DEF RunItem
  <2>2. Len(inbox') <= 1 BY <1>0, <2>1
  <2> QED BY <1>0, <2>1, <2>2 DEF Calm
<1>8. CASE Wake BY <1>0, <1>8 DEF Wake
<1> QED
  BY <1>2, <1>3, <1>4, <1>5, <1>6, <1>7, <1>8
  DEF Next, vars, RouteStanza, ReadTimeout, GraceTimeout, RequestAck, CloseSession, Disconnect,
      ClientEarlyStanza, ClientEnable, ClientStanza, ClientClose, ClientAckItem, ClientSends, ClientRead,
      ClientLoses, ClientResumes, ClientRebinds

(* The watchdog is armed, or its callback pending, for a session that      *)
(* hibernates. *)
WatchInv ==
  /\ Calm
  /\ srv.watchdog = "armed" => srv.hibernating
  /\ Pending.t = "expire" => srv.hibernating \/ srv.destroyed

(* What the parser hands over leaves it right. *)
LEMMA WatchFed ==
  ASSUME SmacksInv, srv.watchdog = "armed" => srv.hibernating, NEW c \in Conn, srv.up[c] # <<>>, FeedItem(c)
  PROVE  srv'.watchdog = "armed" => srv'.hibernating
<1> DEFINE i == Head(srv.up[c])
           x == [srv EXCEPT !.up[c] = Tail(@)]
<1>0. Right(srv) /\ Around BY InvAround DEF SmacksInv
<1>1. /\ Right(x) /\ Self(srv, x) /\ x.conn = srv.conn /\ x.owner = srv.owner /\ x.down = srv.down
      /\ (i.t \in {"a", "resume"} => i.n \in 0..Len(cl.got))
      /\ i.t = "resume" /\ c = cl.conn => i.n = Len(cl.got) /\ srv.down[c] = <<>>
      /\ x.up[c] = <<>> \/ x.up[c][1].t # "resume"
  BY <1>0, RightParsed
<1>2. \/ srv.owner[c] = "N" /\ i.t = "resume" /\ srv' = handle_resume(x, c, i.n)
      \/ srv' = count_incoming_stanzas(x, i)
      \/ srv' = x
  BY DEF FeedItem
<1> HIDE DEF i, x
<1>3. x.watchdog = "armed" => x.hibernating BY <1>1 DEF Self
<1>4. CASE srv.owner[c] = "N" /\ i.t = "resume" /\ srv' = handle_resume(x, c, i.n)
  <2>1. i.n \in Nat /\ i.n <= Len(cl.got) BY <1>0, <1>1, <1>4, AroundIs
  <2>2. c = cl.conn => i.n = Len(cl.got) /\ x.down[c] = <<>> BY <1>1, <1>4
  <2>3. x.owner[c] = "N" BY <1>1, <1>4
  <2>4. Refused(x, srv', c, i.n) \/ Accepted(x, srv', c, i.n) BY <1>0, <1>1, <1>4, <2>1, <2>2, <2>3, RightResumed
  <2>5. CASE Refused(x, srv', c, i.n) BY <1>3, <2>5 DEF Refused
  <2>6. CASE Accepted(x, srv', c, i.n)
    <3>1. PICK f : Right(f) /\ f.watchdog = "none" /\ srv' = request_ack_now_if_needed(f, TRUE)
      BY <2>6 DEF Accepted
    <3>2. Self(f, srv') BY <1>0, <3>1, RightRequested
    <3> QED BY <3>1, <3>2 DEF Self
  <2> QED BY <2>4, <2>5, <2>6
<1>5. CASE srv' = count_incoming_stanzas(x, i)
  <2> DEFINE y == [x EXCEPT !.handled = @ + 1]
  <2>1. srv' \in {x, y} BY <1>5 DEF count_incoming_stanzas
  <2>2. y.watchdog = x.watchdog /\ y.hibernating = x.hibernating BY <1>1 DEF Right, Server
  <2> QED BY <1>3, <2>1, <2>2
<1>6. CASE srv' = x BY <1>3, <1>6
<1> QED BY <1>2, <1>4, <1>5, <1>6

(* The first item of one, or none. *)
LEMMA PendingIs ==
  ASSUME NEW s \in Seq(InItem), Len(s) <= 1, s # <<>>
  PROVE  s[1] = Head(s) /\ Tail(s) = <<>> /\ s[1] \in InItem
OBVIOUS

(* Every step leaves it right. *)
LEMMA WatchStep ==
  ASSUME ~MayWait, SmacksInv, WatchInv, [Next]_vars
  PROVE  WatchInv'
<1>0. /\ Right(srv) /\ Around /\ srv \in Server /\ Types /\ Calm /\ Calm'
      /\ inbox \in Seq(InItem) /\ (srv.watchdog = "armed" => srv.hibernating) /\ srv.hibernating \in BOOLEAN
  BY InvAround, CalmStep DEF SmacksInv, Right, WatchInv, Types, Server
<1> DEFINE Armed == srv.watchdog = "armed" => srv.hibernating
<1>1. Tame(srv, srv') => Armed' BY <1>0 DEF Tame
<1>2. Item("none", 0).t = "none" /\ Item("expire", 0).t = "expire" BY DEF Item
<1>3. ASSUME inbox' = <<>>, Armed' PROVE WatchInv'
  <2>1. Pending'.t = "none" BY <1>2, <1>3 DEF Pending
  <2> QED BY <1>0, <1>3, <2>1 DEF WatchInv
<1>4. CASE RouteStanza \/ ReadTimeout \/ GraceTimeout \/ ServerStops \/ ClientRebinds
           \/ (\E force \in BOOLEAN : RequestAck(force)) \/ (\E reason \in {"error", "none"} : CloseSession(reason))
           \/ (\E c \in Conn : Disconnect(c))
  <2>1. Tame(srv, srv') BY <1>4, TameEvents
  <2>2. inbox' = <<>>
    BY <1>0, <1>4, CalmIdle
    DEF RouteStanza, ReadTimeout, GraceTimeout, ServerStops, ClientRebinds, RequestAck, CloseSession, Disconnect
  <2> QED BY <1>1, <1>3, <2>1, <2>2
<1>5. CASE WatchdogFires
  <2>1. srv' = [srv EXCEPT !.watchdog = "fired"] /\ srv.hibernating BY <1>0, <1>5 DEF WatchdogFires
  <2>2. srv'.hibernating BY <1>0, <2>1 DEF Server
  <2> QED BY <1>0, <2>2 DEF WatchInv
<1>6. ASSUME NEW c \in Conn, ReadChunk(c) PROVE WatchInv'
  <2>1. inbox = <<>> /\ srv.up[c] # <<>> /\ FeedItem(c) BY <1>0, <1>6, CalmIdle DEF ReadChunk
  <2>2. Armed' BY <1>0, <2>1, WatchFed
  <2>3. inbox' \in {<<>>, <<Head(srv.up[c])>>}
    <3>1. inbox' \in {inbox, Append(inbox, Head(srv.up[c]))} BY <2>1 DEF FeedItem
    <3> QED BY <2>1, <3>1
  <2>4. Head(srv.up[c]) \in UpItem
    <3>1. srv.up[c] \in Seq(UpItem) BY <1>0 DEF Server
    <3> QED BY <2>1, <3>1
  <2>5. Head(srv.up[c]).t # "expire" BY <2>4 DEF UpItem
  <2>6. Pending'.t # "expire" BY <1>2, <2>3, <2>5 DEF Pending
  <2> QED BY <1>0, <2>2, <2>6 DEF WatchInv
<1>7. CASE FeedRest BY <1>0, <1>7 DEF FeedRest, Calm
<1>8. CASE RunItem
  <2> DEFINE i == Head(inbox)
  <2>1. inbox # <<>> /\ inbox' = Tail(inbox) BY <1>8 DEF RunItem
  <2>2. inbox' = <<>> BY <1>0, <2>1, PendingIs DEF Calm
  <2>3. Armed'
    <3>1. CASE ~srv.destroyed /\ i.t = "enable"
      <4>1. srv' = handle_enable(srv) BY <1>8, <3>1 DEF RunItem
      <4> DEFINE e == Send(srv, Item("enabled", 0))
                 y == [e EXCEPT !.smacks = "on", !.token = TRUE, !.registered = TRUE, !.q = NewQueue, !.handled = 0]
                 f == Send(srv, Item("failed", NoH))
      <4>2. srv' \in {f, y} BY <4>1 DEF handle_enable
      <4>3. Self(srv, e) /\ e \in Server
        <5>1. Item("enabled", 0) \in DownItem /\ Item("enabled", 0).t # "stanza" BY ItemIs
        <5> QED BY <1>0, <5>1, RightSent DEF Right
      <4>4. Self(srv, f)
        <5>1. NoH \in Int BY DEF NoH
        <5>2. Item("failed", NoH) \in DownItem /\ Item("failed", NoH).t # "stanza" BY <5>1, ItemIs
        <5> QED BY <1>0, <5>2, RightSent
      <4> HIDE DEF e, f
      <4>5. y.watchdog = e.watchdog /\ y.hibernating = e.hibernating BY <4>3 DEF Server
      <4> HIDE DEF y
      <4> QED BY <1>0, <4>2, <4>3, <4>4, <4>5 DEF Self
    <3>2. CASE ~srv.destroyed /\ i.t = "a" /\ srv.smacks = "on" /\ AckError(srv.q, i.n) = "none"
      <4> DEFINE y == [[srv EXCEPT !.awaiting_ack = FALSE] EXCEPT !.q = Ack(@, i.n)]
      <4>1. srv' = request_ack_now_if_needed(y, FALSE) BY <1>8, <3>2 DEF RunItem, handle_a
      <4>2. i.n \in Nat /\ i.n <= Len(cl.got) BY <1>0, <2>1, <3>2, TakenIs, AroundIs
      <4>3. Right(y) BY <1>0, <3>2, <4>2, RightAckedA
      <4>4. y.watchdog = srv.watchdog /\ y.hibernating = srv.hibernating BY <1>0 DEF Server
      <4> HIDE DEF y
      <4>5. Self(y, srv') BY <1>0, <4>1, <4>3, RightRequested
      <4> QED BY <1>0, <4>4, <4>5 DEF Self
    <3>3. CASE ~srv.destroyed => i.t # "enable" /\ (i.t = "a" => srv.smacks # "on" \/ AckError(srv.q, i.n) # "none")
      BY <1>1, <1>8, <3>3, TameRun
    <3> QED BY <3>1, <3>2, <3>3
  <2> QED BY <1>3, <2>2, <2>3
<1>9. CASE Wake BY <1>0, <1>9 DEF Wake, Calm
<1>10. CASE ClientEarlyStanza \/ ClientEnable \/ ClientStanza \/ ClientClose \/ \E t \in {"a", "r"} : ClientAckItem(t)
  <2>1. PICK r : srv' = Deliver(srv, r)
    BY <1>10 DEF ClientEarlyStanza, ClientEnable, ClientStanza, ClientClose, ClientAckItem, ClientSends
  <2>2. Self(srv, srv') BY <1>0, <2>1, DeliverIs
  <2>3. inbox' = <<>>
    <3>1. Idle /\ inbox' = inbox
      BY <1>10, SMTT(60) DEF ClientEarlyStanza, ClientEnable, ClientStanza, ClientClose, ClientAckItem, ClientSends
    <3> QED BY <1>0, <3>1, CalmIdle
  <2> QED BY <1>0, <1>3, <2>2, <2>3 DEF Self
<1>11. CASE ClientRead \/ ClientLoses
  <2>1. PICK s, r : srv' = Deliver([srv EXCEPT !.down[cl.conn] = s], r)
    BY <1>11 DEF ClientRead, ClientLoses
  <2>2. Self(srv, srv') BY <1>0, <2>1, SelfLost
  <2>3. inbox' = <<>> BY <1>0, <1>11, CalmIdle DEF ClientRead, ClientLoses
  <2> QED BY <1>0, <1>3, <2>2, <2>3 DEF Self
<1>12. CASE ClientResumes
  <2>1. PICK c \in Conn : srv' = [srv EXCEPT !.owner[c] = "N", !.up[c] = <<Item("resume", Len(cl.got))>>]
    BY <1>12 DEF ClientResumes
  <2>2. Self(srv, srv') BY <1>0, <2>1 DEF Server, Self
  <2>3. inbox' = <<>> BY <1>0, <1>12, CalmIdle DEF ClientResumes
  <2> QED BY <1>0, <1>3, <2>2, <2>3 DEF Self
<1>13. CASE UNCHANGED vars BY <1>13 DEF vars, WatchInv, Calm, Pending
<1> QED
  BY <1>4, <1>5, <1>6, <1>7, <1>8, <1>9, <1>10, <1>11, <1>12, <1>13 DEF Next

(* When handlers do not wait, the watchdog's callback ends only a session  *)
(* that still hibernates, however closes, losses, resumptions and the      *)
(* watchdog's own timer are ordered. *)
THEOREM ExpiresOnlyHibernatingHolds ==
  ASSUME ~MayWait PROVE Spec => ExpiresOnlyHibernating
<1> DEFINE Fine == (inbox # <<>> /\ inbox' = Tail(inbox) /\ Head(inbox).t = "expire" /\ srv'.destroyed)
                     => srv.hibernating \/ srv.destroyed
<1>1. SmacksInit => WatchInv
  <2> SUFFICES ASSUME SmacksInit PROVE WatchInv OBVIOUS
  <2>1. thread = "ready" /\ chunk.n = 0 /\ inbox = <<>> /\ srv.watchdog = "none" BY DEF SmacksInit
  <2>2. Len(inbox) <= 1 BY <2>1
  <2> QED BY <2>1, <2>2 DEF WatchInv, Calm, Pending, Item
<1>2. SmacksInv /\ WatchInv /\ [Next]_vars => WatchInv' BY WatchStep
<1>3. SmacksInv /\ WatchInv => Fine
  <2> SUFFICES ASSUME SmacksInv, WatchInv, inbox # <<>>, Head(inbox).t = "expire" PROVE srv.hibernating \/ srv.destroyed
    OBVIOUS
  <2>1. inbox[1] = Head(inbox) BY PendingIs DEF SmacksInv, Types, WatchInv, Calm
  <2> QED BY <2>1 DEF WatchInv, Pending
<1>4. Spec => []WatchInv BY <1>1, <1>2, AlwaysSmacksInv, PTL DEF Spec
<1>5. Spec => [][Fine]_vars BY <1>3, <1>4, AlwaysSmacksInv, PTL
<1> QED BY <1>5 DEF ExpiresOnlyHibernating

-----------------------------------------------------------------------------
(* What is right of the server's state by itself. *)
Sound(x) == x \in Server /\ Alive(x) /\ Owns(x)

(* The types of its parts. *)
LEMMA SoundIs ==
  ASSUME NEW x, Sound(x)
  PROVE  /\ \A c \in Conn : x.up[c] \in Seq(UpItem) /\ x.down[c] \in Seq(DownItem)
         /\ \A c \in Conn : x.owner[c] \in {"none", "S", "N"}
         /\ x.handled \in Int /\ x.old_h \in Int /\ x.q.tail \in Nat /\ x.q \in Queue
         /\ x.conn \in Conn \union {None} /\ x.destroyed \in BOOLEAN
         /\ x.smacks \in {"nil", "on"}
         /\ x.destroyed => x.conn = None /\ x.smacks = "nil"
<1>1. x \in Server BY DEF Sound
<1>2. x.q \in Queue BY <1>1 DEF Server
<1>3. x.q.tail \in Nat BY <1>2 DEF Queue
<1> QED BY <1>1, <1>2, <1>3 DEF Server, Sound, Alive

(* What is on its way to the client after a tame step. *)
LEMMA TameDown ==
  ASSUME NEW x, NEW y, Sound(x), Sound(y), Tame(x, y), NEW d \in Conn, NEW k \in DOMAIN y.down[d]
  PROVE  \/ k \in DOMAIN x.down[d] /\ y.down[d][k] = x.down[d][k]
         \/ d = x.conn /\ d = cl.conn /\ Sayable(x, y.down[d][k])
<1> DEFINE u == x.down[d]
           v == y.down[d]
<1>1. Adds(x, d, u, v) BY DEF Tame
<1>2. u \in Seq(DownItem) /\ v \in Seq(DownItem) BY SoundIs
<1>3. k \in DOMAIN v OBVIOUS
<1> HIDE DEF u, v
<1>4. /\ DOMAIN u = 1..Len(u) /\ DOMAIN v = 1..Len(v) /\ Len(u) \in Nat /\ Len(v) \in Nat BY <1>2
<1>5. CASE k <= Len(u)
  <2>1. k \in 1..Len(u) BY <1>3, <1>4, <1>5
  <2> QED BY <1>1, <1>4, <2>1 DEF Adds, u, v
<1>6. CASE ~(k <= Len(u))
  <2>1. k \in (Len(u) + 1)..Len(v) BY <1>3, <1>4, <1>6
  <2> QED BY <1>1, <2>1 DEF Adds, v
<1> QED BY <1>5, <1>6

(* A tame step on a session that has no stanza and no <enable/> to handle  *)
(* leaves the state right. *)
LEMMA UpTame ==
  ASSUME cl.conn \in Conn \union {None}, NEW x, NEW y, Sound(x), Sound(y), Tame(x, y), NEW p, NEW ph, NEW s, NEW n \in Nat, NEW i, NEW j,
         Up(x, p, cl.conn, ph, s, n, i), ~x.destroyed => i.t \notin {"stanza", "enable"},
         j.t \in {"none", "expire"}
  PROVE  Up(y, p, cl.conn, ph, s, n, j)
<1> DEFINE c == cl.conn
<1>0. /\ Counted(x, p, c, ph, s) /\ Enabling(x, p, c, ph, i.t = "enable") /\ Asked(x, c, ph)
      /\ Claims(x, n) /\ Rising(x, c, i) /\ Cuts(x, p) /\ Ranges(x)
      /\ ~x.destroyed => x.handled = n
  BY DEF Up
<1>1. /\ y.handled = x.handled /\ (y.old_h = x.old_h \/ (~x.destroyed /\ y.old_h = x.handled))
      /\ ~y.destroyed => /\ ~x.destroyed /\ y.smacks = x.smacks /\ y.q.tail = x.q.tail
                         /\ x.smacks # "on" => y.conn = x.conn
      /\ y.conn \in {x.conn, None}
      /\ \A d \in Conn : /\ y.owner[d] \in {x.owner[d], "none"} /\ y.up[d] \in {x.up[d], <<>>}
                         /\ y.owner[d] # "none" => y.up[d] = x.up[d]
  BY DEF Tame
<1>2. \A d \in Conn : \A k \in DOMAIN y.down[d] :
         \/ k \in DOMAIN x.down[d] /\ y.down[d][k] = x.down[d][k]
         \/ d = x.conn /\ d = c /\ Sayable(x, y.down[d][k])
  BY TameDown
<1>3. None \notin Conn BY NoneIsNoConn
<1>4. /\ x.destroyed => x.conn = None /\ x.smacks = "nil"
      /\ y.destroyed => y.conn = None
      /\ ~x.destroyed => \A d \in Conn : x.owner[d] = "S" <=> x.conn = d
      /\ ~y.destroyed => \A d \in Conn : y.owner[d] = "S" <=> y.conn = d
      /\ x.handled \in Int /\ x.old_h \in Int /\ x.smacks \in {"nil", "on"} /\ y.smacks \in {"nil", "on"}
      /\ y.destroyed \in BOOLEAN /\ x.destroyed \in BOOLEAN
  BY SoundIs DEF Sound, Owns
<1>5. \A d \in Conn : y.owner[d] = "S" => x.owner[d] = "S" /\ y.up[d] = x.up[d]
  BY <1>1
<1>6. \A d \in Conn : y.owner[d] = "N" => x.owner[d] = "N" /\ y.up[d] = x.up[d]
  BY <1>1
<1> HIDE DEF c
<1>7. Counted(y, p, c, ph, s) BY <1>0, <1>1, <1>5 DEF Counted
<1>8. Enabling(y, p, c, ph, j.t = "enable")
  <2> SUFFICES ASSUME ~y.destroyed, ~p PROVE Enabling(y, p, c, ph, FALSE) BY DEF Enabling
  <2>1. ~x.destroyed /\ y.smacks = x.smacks /\ (x.smacks # "on" => y.conn = x.conn) /\ i.t # "enable" BY <1>1
  <2>2. CASE y.smacks = "on" BY <1>0, <1>5, <2>1, <2>2 DEF Enabling
  <2>3. CASE y.smacks = "nil"
    <3>1. /\ x.handled = 0 /\ ph \in {"bound", "enabling", "gone"} /\ (c # None => c = x.conn)
          /\ \A d \in Conn : x.owner[d] # "N" /\ (x.owner[d] = "S" => Offered(x, d, c, ph, FALSE))
      BY <1>0, <2>1, <2>3 DEF Enabling
    <3>2. ASSUME NEW d \in Conn, y.owner[d] = "S" PROVE Offered(y, d, c, ph, FALSE)
      <4>1. Offered(x, d, c, ph, FALSE) /\ y.up[d] = x.up[d] BY <1>5, <3>1, <3>2
      <4>2. \A k \in DOMAIN y.down[d] : y.down[d][k].t = "end"
        BY <1>2, <2>1, <2>3, <4>1 DEF Offered, Sayable
      <4> QED BY <4>1, <4>2 DEF Offered
    <3>3. \A d \in Conn : y.owner[d] # "N" BY <1>6, <3>1
    <3> QED BY <1>1, <2>1, <2>3, <3>1, <3>2, <3>3 DEF Enabling
  <2> QED BY <1>4, <2>2, <2>3
<1>9. Asked(y, c, ph)
  <2>1. \A d \in Conn : y.owner[d] = "N" => \A k \in DOMAIN y.up[d] : y.up[d][k].t \in {"resume", "half"}
    BY <1>0, <1>6 DEF Asked
  <2>2. ASSUME c \in Conn, y.owner[c] = "N"
        PROVE  /\ ph \in {"resuming", "fresh", "gone"}
               /\ y.up[c] # <<>> /\ y.up[c][1].t = "resume" => ph = "resuming"
               /\ \A k \in DOMAIN y.down[c] : y.down[c][k].t = "failed"
    <3>1. x.owner[c] = "N" /\ y.up[c] = x.up[c] /\ c # x.conn BY <1>3, <1>4, <1>6, <2>2
    <3>2. /\ ph \in {"resuming", "fresh", "gone"}
          /\ x.up[c] # <<>> /\ x.up[c][1].t = "resume" => ph = "resuming"
          /\ \A k \in DOMAIN x.down[c] : x.down[c][k].t = "failed"
      BY <1>0, <1>3, <2>2, <3>1 DEF Asked
    <3> QED BY <1>2, <2>2, <3>1, <3>2
  <2>3. ASSUME c \in Conn, y.owner[c] = "S"
        PROVE  Lacks(y.down[c], "failed") /\ (ph = "resuming" => Lacks(y.down[c], "enabled"))
    <3>1. Lacks(x.down[c], "failed") /\ (ph = "resuming" => Lacks(x.down[c], "enabled"))
      BY <1>0, <1>3, <1>5, <2>3 DEF Asked
    <3>2. \A i0 : Sayable(x, i0) => i0.t \notin {"failed", "enabled"} BY DEF Sayable
    <3> QED BY <1>2, <2>3, <3>1, <3>2 DEF Lacks
  <2>4. ASSUME c \in Conn, NEW k \in DOMAIN y.down[c], y.down[c][k].t = "resumed"
        PROVE  k = 1 /\ ph = "resuming" /\ (~y.destroyed /\ y.owner[c] = "S" => y.down[c][k].n = y.handled)
    <3>1. k \in DOMAIN x.down[c] /\ y.down[c][k] = x.down[c][k] BY <1>2, <2>4 DEF Sayable
    <3>2. k = 1 /\ ph = "resuming" /\ (~x.destroyed /\ x.owner[c] = "S" => x.down[c][k].n = x.handled)
      BY <1>0, <1>3, <2>4, <3>1 DEF Asked
    <3> QED BY <1>1, <1>5, <2>4, <3>1, <3>2
  <2>5. c # None => c \in Conn BY DEF c
  <2> QED BY <2>1, <2>2, <2>3, <2>4, <2>5 DEF Asked
<1>10. Claims(y, n)
  <2>1. y.old_h <= n BY <1>0, <1>1, <1>4 DEF Claims
  <2>2. ASSUME NEW d \in Conn, NEW k \in DOMAIN y.down[d], y.down[d][k].t \in {"a", "resumed", "failed"}
        PROVE  y.down[d][k].n <= n
    <3>1. CASE k \in DOMAIN x.down[d] /\ y.down[d][k] = x.down[d][k] BY <1>0, <2>2, <3>1 DEF Claims
    <3>2. CASE Sayable(x, y.down[d][k])
      <4>1. x.smacks = "on" /\ y.down[d][k].n = x.handled BY <2>2, <3>2 DEF Sayable
      <4>2. x.handled = n BY <1>0, <1>4, <4>1
      <4> QED BY <4>1, <4>2
    <3> QED BY <1>2, <3>1, <3>2
  <2> QED BY <2>1, <2>2 DEF Claims
<1>11. Rising(y, c, j)
  <2> SUFFICES ASSUME y.conn = c, c # None PROVE Rising(y, c, j) BY DEF Rising
  <2>1. x.conn = c /\ c \in Conn /\ ~y.destroyed
    <3>1. y.conn \in Conn \union {None} BY SoundIs
    <3> QED BY <1>1, <1>4, <3>1
  <2>2. y.q.tail = x.q.tail /\ y.up[c] = x.up[c]
    <3>1. y.owner[c] = "S" BY <1>4, <2>1
    <3> QED BY <1>1, <1>5, <2>1, <3>1
  <2>3. /\ \A k \in DOMAIN x.up[c] : x.up[c][k].t = "a" => x.q.tail <= x.up[c][k].n
        /\ \A k, l \in DOMAIN x.up[c] : k < l /\ x.up[c][k].t = "a" /\ x.up[c][l].t = "a" => x.up[c][k].n <= x.up[c][l].n
        /\ \A d \in Conn \ {c} : x.owner[d] = "N" /\ x.up[d] # <<>> /\ x.up[d][1].t = "resume" => x.up[d][1].n <= x.q.tail
    BY <1>0, <2>1 DEF Rising
  <2>4. \A d \in Conn \ {c} : y.owner[d] = "N" /\ y.up[d] # <<>> /\ y.up[d][1].t = "resume" => y.up[d][1].n <= y.q.tail
    BY <1>6, <2>2, <2>3
  <2> QED BY <2>2, <2>3, <2>4 DEF Rising
<1>12. Cuts(y, p) BY <1>0, <1>1 DEF Cuts, Lacks
<1>13. Ranges(y)
  <2>0. MaxOut \in Nat /\ MaxIn \in Nat BY SmacksAssumption
  <2>1. \A d \in Conn : Small(x.up[d]) /\ Small(x.down[d]) BY <1>0 DEF Ranges
  <2>2. x.handled \in 0..MaxIn /\ x.old_h \in {NoH} \union 0..MaxIn BY <1>0 DEF Ranges
  <2>3. \A i0 : Sayable(x, i0) => i0.n \in Numbers BY <2>0, <2>2 DEF Sayable, Numbers
  <2>4. \A d \in Conn : Small(y.up[d]) BY <1>1, <2>1 DEF Small
  <2>5. \A d \in Conn : Small(y.down[d]) BY <1>2, <2>1, <2>3 DEF Small
  <2> QED BY <1>1, <2>2, <2>4, <2>5 DEF Ranges
<1>14. ~y.destroyed => y.handled = IF j.t = "stanza" THEN n + 1 ELSE n BY <1>0, <1>1
<1> QED BY <1>7, <1>8, <1>9, <1>10, <1>11, <1>12, <1>13, <1>14 DEF Up, c

(* What a step that processes nothing has to leave right. *)
LEMMA UpNext ==
  ASSUME UpInv, Calm', Up(srv', partial', cl'.conn, cl'.phase, cl'.sent, Len(hist.done), Pending'),
         Pending'.t # "stanza", Pending'.n \in Numbers, partial' => Pending'.t \in {"none", "expire"},
         hist'.done = hist.done, ~hist'.rejected, hist'.out <= MaxOut,
         cl'.acked <= Len(hist.done), cl'.sent <= MaxIn
  PROVE  UpInv'
BY DEF UpInv

(* What the proofs below know of the present state. *)
LEMMA UpIs ==
  ASSUME SmacksInv, UpInv
  PROVE  /\ Right(srv) /\ Around /\ Sound(srv) /\ Calm /\ inbox \in Seq(InItem) /\ partial \in BOOLEAN
         /\ Up(srv, partial, cl.conn, cl.phase, cl.sent, Len(hist.done), Pending)
         /\ Len(hist.done) \in Nat /\ Len(cl.got) \in Nat /\ hist.out \in Nat /\ Len(cl.got) <= hist.out
         /\ hist.out <= MaxOut /\ cl.conn \in Conn \union {None}
         /\ cl.sent \in Nat /\ cl.sent <= MaxIn /\ cl.acked \in Int /\ cl.acked <= Len(hist.done) /\ ~hist.rejected
         /\ Item("none", 0).t = "none" /\ Item("none", 0).n = 0 /\ 0 \in Numbers /\ MaxOut \in Nat /\ MaxIn \in Nat
         /\ inbox = <<>> => Pending = Item("none", 0)
         /\ inbox # <<>> => Pending = Head(inbox) /\ Tail(inbox) = <<>>
         /\ cl.phase \in {"bound", "enabling", "on", "off", "resuming", "fresh", "gone"}
         /\ cl.conn = None => cl.phase \in {"off", "gone"}
<1>1. Right(srv) /\ Around /\ Types BY InvAround DEF SmacksInv
<1>2. Sound(srv) BY <1>1 DEF Sound, Right
<1>3. hist.done \in Seq(Nat) /\ hist.out \in Nat BY <1>1 DEF Types, History
<1>4. Len(hist.done) \in Nat BY <1>3
<1>5. /\ Len(cl.got) \in Nat /\ Len(cl.got) <= hist.out /\ cl.conn \in Conn \union {None} BY <1>1, AroundIs
<1>6. MaxOut \in Nat /\ MaxIn \in Nat BY SmacksAssumption
<1>7. 0 \in Numbers BY <1>6 DEF Numbers
<1>8. inbox \in Seq(InItem) /\ cl \in Client /\ partial \in BOOLEAN /\ (cl.conn = None => cl.phase \in {"off", "gone"})
  BY <1>1 DEF Types
<1>9. Calm BY DEF UpInv
<1>10. inbox # <<>> => Pending = Head(inbox) /\ Tail(inbox) = <<>> BY <1>8, <1>9, PendingIs DEF Calm, Pending
<1>11. cl.sent \in Nat /\ cl.acked \in Int BY <1>8 DEF Client
<1>12. cl.phase \in {"bound", "enabling", "on", "off", "resuming", "fresh", "gone"} BY <1>8 DEF Client
<1> QED BY <1>1, <1>2, <1>3, <1>4, <1>5, <1>6, <1>7, <1>8, <1>9, <1>10, <1>11, <1>12 DEF UpInv, Item, Pending

(* After the step. *)
LEMMA SoundNext == ASSUME SmacksInv' PROVE Sound(srv') /\ (inbox' = <<>> => Pending' = Item("none", 0))
BY DEF SmacksInv, Right, Sound, Pending

(* The tame events. *)
LEMMA UpEvents ==
  ASSUME SmacksInv, SmacksInv', UpInv, Calm',
         \/ RouteStanza \/ ReadTimeout \/ GraceTimeout \/ WatchdogFires \/ ServerStops
         \/ \E force \in BOOLEAN : RequestAck(force)
         \/ \E reason \in {"error", "none"} : CloseSession(reason)
         \/ \E c \in Conn : Disconnect(c)
  PROVE  UpInv'
<1>1. Idle
  BY DEF RouteStanza, ReadTimeout, GraceTimeout, WatchdogFires, ServerStops, RequestAck, CloseSession, Disconnect
<1>2. inbox = <<>> BY <1>1, CalmIdle DEF UpInv
<1>3. Tame(srv, srv') BY TameEvents
<1>4. UNCHANGED <<partial, cl>> /\ hist'.done = hist.done /\ hist'.rejected = hist.rejected /\ hist'.out <= MaxOut
  <2>1. hist \in History BY DEF SmacksInv, Types
  <2>2. CASE RouteStanza
    <3>1. hist' = [hist EXCEPT !.out = @ + 1, !.lost = @ \union (Range(srv.q.queue) \ Range(srv'.q.queue))] BY <2>2 DEF RouteStanza
    <3>2. hist'.out = hist.out + 1 /\ hist'.done = hist.done /\ hist'.rejected = hist.rejected BY <2>1, <3>1 DEF History
    <3>3. hist.out < MaxOut BY <2>2 DEF RouteStanza
    <3>4. hist.out \in Nat /\ MaxOut \in Nat BY UpIs
    <3>5. hist'.out <= MaxOut BY <3>2, <3>3, <3>4
    <3> QED BY <2>2, <3>2, <3>5 DEF RouteStanza
  <2>3. CASE ServerStops
    <3>1. hist' = [hist EXCEPT !.stopped = TRUE] BY <2>3 DEF ServerStops
    <3>2. hist'.out = hist.out /\ hist'.done = hist.done /\ hist'.rejected = hist.rejected BY <2>1, <3>1 DEF History
    <3> QED BY <2>3, <3>2, UpIs DEF ServerStops
  <2> QED
    BY <2>2, <2>3, UpIs
    DEF ReadTimeout, GraceTimeout, WatchdogFires, RequestAck, CloseSession, Disconnect
<1>5. inbox' = <<>> \/ inbox' = <<Item("expire", 0)>>
  <2>1. inbox' = inbox \/ inbox' = <<>> \/ inbox' = Append(inbox, Item("expire", 0))
    BY DEF RouteStanza, ReadTimeout, GraceTimeout, WatchdogFires, ServerStops, RequestAck, CloseSession, Disconnect
  <2> QED BY <1>2, <2>1, OnlyOne
<1>6. Pending' \in {Item("none", 0), Item("expire", 0)} BY <1>5 DEF Pending
<1>7. Pending'.t \in {"none", "expire"} /\ Pending'.n = 0 BY <1>6 DEF Item
<1>8. Pending.t = "none" BY <1>2, UpIs
<1> DEFINE n == Len(hist.done)
<1>9. Up(srv, partial, cl.conn, cl.phase, cl.sent, n, Pending) /\ n \in Nat /\ cl.conn \in Conn \union {None} BY UpIs
<1>10. Sound(srv) /\ Sound(srv') BY UpIs, SoundNext
<1> HIDE DEF n
<1>11. Up(srv', partial, cl.conn, cl.phase, cl.sent, n, Pending') BY <1>3, <1>7, <1>8, <1>9, <1>10, UpTame
<1> QED BY <1>4, <1>7, <1>11, UpIs, UpNext DEF n

(* An accepted count moves the tail, and the counts that follow are no     *)
(* less. *)
LEMMA UpAcked ==
  ASSUME NEW x, NEW y, y.smacks = x.smacks, y.destroyed = x.destroyed, y.handled = x.handled,
         y.old_h = x.old_h, y.conn = x.conn, y.owner = x.owner, y.up = x.up, y.down = x.down,
         NEW p, NEW c, NEW ph, NEW s, NEW n, NEW i, NEW j, Up(x, p, c, ph, s, n, i), i.t = "a", j.t = "none",
         y.q.tail = i.n, x.q.tail \in Int, i.n \in Int, x.q.tail <= i.n,
         \A d \in Conn : x.up[d] \in Seq(UpItem)
  PROVE  Up(y, p, c, ph, s, n, j)
<1>1. /\ Counted(x, p, c, ph, s) /\ Enabling(x, p, c, ph, FALSE) /\ Asked(x, c, ph)
      /\ Claims(x, n) /\ Rising(x, c, i) /\ Cuts(x, p) /\ Ranges(x)
      /\ ~x.destroyed => x.handled = n
  BY DEF Up
<1>2. Counted(y, p, c, ph, s) BY <1>1 DEF Counted
<1>3. Enabling(y, p, c, ph, FALSE) BY <1>1 DEF Enabling, Offered
<1>4. Asked(y, c, ph) BY <1>1 DEF Asked
<1>5. Claims(y, n) BY <1>1 DEF Claims
<1>6. Rising(y, c, j)
  <2> SUFFICES ASSUME x.conn = c, c # None PROVE Rising(y, c, j) BY DEF Rising
  <2>1. /\ \A k \in DOMAIN x.up[c] : x.up[c][k].t = "a" => i.n <= x.up[c][k].n
        /\ \A k, l \in DOMAIN x.up[c] : k < l /\ x.up[c][k].t = "a" /\ x.up[c][l].t = "a" => x.up[c][k].n <= x.up[c][l].n
        /\ \A d \in Conn \ {c} : x.owner[d] = "N" /\ x.up[d] # <<>> /\ x.up[d][1].t = "resume" => x.up[d][1].n <= x.q.tail
    BY <1>1 DEF Rising
  <2>2. \A d \in Conn \ {c} : y.owner[d] = "N" /\ y.up[d] # <<>> /\ y.up[d][1].t = "resume" => y.up[d][1].n <= y.q.tail
    <3> SUFFICES ASSUME NEW d \in Conn \ {c}, x.owner[d] = "N", x.up[d] # <<>>, x.up[d][1].t = "resume"
                 PROVE  x.up[d][1].n <= i.n
      OBVIOUS
    <3>1. x.up[d][1].n <= x.q.tail BY <2>1
    <3>2. x.up[d] \in Seq(UpItem) OBVIOUS
    <3>3. x.up[d][1] \in UpItem BY <3>2
    <3>4. x.up[d][1].n \in Int BY <3>3 DEF UpItem
    <3> QED BY <3>1, <3>4
  <2> QED BY <2>1, <2>2 DEF Rising
<1>7. Cuts(y, p) BY <1>1 DEF Cuts
<1>8. Ranges(y) BY <1>1 DEF Ranges
<1>9. ~y.destroyed => y.handled = n BY <1>1
<1> QED BY <1>2, <1>3, <1>4, <1>5, <1>6, <1>7, <1>8, <1>9 DEF Up

(* What is on its way to the client after something was said. *)
LEMMA SentDown ==
  ASSUME NEW x \in Server, NEW i \in DownItem, NEW d \in Conn, NEW k \in DOMAIN Send(x, i).down[d]
  PROVE  \/ k \in DOMAIN x.down[d] /\ Send(x, i).down[d][k] = x.down[d][k]
         \/ d = x.conn /\ d = cl.conn /\ Send(x, i).down[d][k] = i
<1> DEFINE y == Send(x, i)
           c == x.conn
<1>1. CASE ~(x.conn # None /\ ~x.closing)
  <2>1. y = x BY <1>1 DEF Send
  <2> QED BY <2>1
<1>2. CASE x.conn # None /\ ~x.closing
  <2>1. y = Transmit(x, c, <<i>>) BY <1>2 DEF Send
  <2>2. c \in Conn /\ x.down[d] \in Seq(DownItem) /\ <<i>> \in Seq(DownItem) BY <1>2 DEF Server
  <2> DEFINE t == Transmit(x, c, <<i>>)
  <2>9. /\ c = cl.conn => t.down[c] = x.down[c] \o <<i>>
        /\ \A e \in Conn : e # c => t.down[e] = x.down[e]
    BY <2>2, TransmitIs
  <2> HIDE DEF t
  <2>10. t = x \/ c = cl.conn BY DEF Transmit, t
  <2>3. /\ c = cl.conn => y.down[c] = x.down[c] \o <<i>>
        /\ \A e \in Conn : e # c => y.down[e] = x.down[e]
        /\ c # cl.conn => y = x
    BY <2>1, <2>9, <2>10 DEF t
  <2>4. k \in DOMAIN y.down[d] OBVIOUS
  <2> HIDE DEF y
  <2>5. CASE d # c \/ c # cl.conn
    <3>1. y.down[d] = x.down[d] BY <2>3, <2>5
    <3> QED BY <2>4, <3>1 DEF y
  <2>6. CASE d = c /\ c = cl.conn
    <3> DEFINE u == x.down[d]
               v == u \o <<i>>
    <3>1. y.down[d] = v BY <2>3, <2>6
    <3>2. k \in DOMAIN v BY <2>4, <3>1
    <3>3. u \in Seq(DownItem) BY <2>2
    <3> HIDE DEF u
    <3>4. (k \in DOMAIN u /\ v[k] = u[k]) \/ v[k] = i BY <3>2, <3>3
    <3> HIDE DEF v
    <3> QED BY <2>6, <3>1, <3>4 DEF y, u
  <2> QED BY <2>5, <2>6
<1> QED BY <1>1, <1>2

(* <enable/> turns stream management on, once. *)
LEMMA UpEnabled ==
  ASSUME Around, NEW x, Right(x), ~x.destroyed, NEW ph, NEW s, NEW n, NEW i, NEW j,
         Up(x, FALSE, cl.conn, ph, s, n, i), i.t = "enable", j.t = "none",
         cl.conn = None => ph \in {"off", "gone"}
  PROVE  Up(handle_enable(x), FALSE, cl.conn, ph, s, n, j)
<1> DEFINE c == cl.conn
           v == Item("enabled", 0)
           e == Send(x, v)
           y == [e EXCEPT !.smacks = "on", !.token = TRUE, !.registered = TRUE, !.q = NewQueue, !.handled = 0]
<1>0. /\ Counted(x, FALSE, c, ph, s) /\ Enabling(x, FALSE, c, ph, TRUE) /\ Asked(x, c, ph)
      /\ Claims(x, n) /\ Rising(x, c, i) /\ Cuts(x, FALSE) /\ Ranges(x)
      /\ x.handled = n
  BY DEF Up
<1>1. Sound(x) BY DEF Right, Sound
<1>2. x.smacks = "nil" BY <1>0, <1>1, SoundIs DEF Enabling
<1>3. /\ x.handled = 0 /\ ph \in {"bound", "enabling", "gone"} /\ (c # None => c = x.conn)
      /\ \A d \in Conn : x.owner[d] # "N" /\ (x.owner[d] = "S" => Offered(x, d, c, ph, TRUE))
  BY <1>0, <1>2 DEF Enabling
<1>4. handle_enable(x) = y BY <1>2 DEF handle_enable
<1>5. v \in DownItem /\ v.t = "enabled" /\ v.n = 0 BY ItemIs DEF Item
<1>6. c \in Conn \union {None} /\ (c = None => ph \in {"off", "gone"}) BY AroundIs
<1> HIDE DEF v, c
<1>7. Right(e) /\ Self(x, e) /\ Links(x, e) BY <1>5, RightSent
<1>8. \A d \in Conn : \A k \in DOMAIN e.down[d] :
        \/ k \in DOMAIN x.down[d] /\ e.down[d][k] = x.down[d][k]
        \/ d = x.conn /\ d = c /\ e.down[d][k] = v
  BY <1>1, <1>5, SentDown DEF Sound, c
<1> HIDE DEF e
<1>9. /\ y.smacks = "on" /\ y.handled = 0 /\ y.q = NewQueue /\ y.destroyed = x.destroyed
      /\ y.owner = x.owner /\ y.conn = x.conn /\ y.up = x.up /\ y.down = e.down /\ y.old_h = x.old_h
  BY <1>7 DEF Right, Server, Self, Links
<1> HIDE DEF y
<1>10. \A d \in Conn : x.owner[d] = "S" => ph # "bound" /\ Lacks(x.up[d], "enable") BY <1>3 DEF Offered
<1>11. \A d \in Conn : x.owner[d] = "S" <=> x.conn = d BY DEF Right, Owns
<1>12. ph # "bound"
  <2>1. CASE c = None BY <1>6, <2>1
  <2>2. CASE c # None
    <3>1. c \in Conn /\ x.conn = c BY <1>3, <1>6, <2>2
    <3>2. x.owner[c] = "S" BY <1>11, <3>1
    <3> QED BY <1>10, <3>1, <3>2
  <2> QED BY <2>1, <2>2
<1>13. Counted(y, FALSE, c, ph, s) BY <1>0, <1>3, <1>9 DEF Counted
<1>14. Enabling(y, FALSE, c, ph, FALSE) BY <1>9, <1>10, <1>12 DEF Enabling
<1>15. Asked(y, c, ph)
  <2>1. \A d \in Conn : x.owner[d] # "N" BY <1>3
  <2>2. c # None => c \in Conn BY <1>6
  <2>3. ASSUME c \in Conn PROVE Lacks(y.down[c], "failed") \/ x.owner[c] # "S"
    BY <1>0, <1>5, <1>8, <1>9, <2>3, NoneIsNoConn DEF Asked, Lacks
  <2>4. ASSUME c \in Conn, NEW k \in DOMAIN y.down[c], y.down[c][k].t = "resumed" PROVE FALSE
    <3>1. k \in DOMAIN x.down[c] /\ x.down[c][k].t = "resumed" BY <1>5, <1>8, <1>9, <2>4
    <3> QED BY <1>0, <1>3, <2>4, <3>1, NoneIsNoConn DEF Asked
  <2> QED BY <1>3, <1>9, <2>1, <2>2, <2>3, <2>4 DEF Asked
<1>16. Claims(y, n) BY <1>0, <1>5, <1>8, <1>9 DEF Claims
<1>17. Rising(y, c, j)
  <2> SUFFICES ASSUME x.conn = c, c \in Conn PROVE Rising(y, c, j) BY <1>6, <1>9 DEF Rising
  <2>1. NewQueue.tail = 0 BY DEF NewQueue
  <2>2. \A k, l \in DOMAIN x.up[c] : k < l /\ x.up[c][k].t = "a" /\ x.up[c][l].t = "a" => x.up[c][k].n <= x.up[c][l].n
    BY <1>0, NoneIsNoConn DEF Rising
  <2>3. \A k \in DOMAIN x.up[c] : x.up[c][k].t = "a" => 0 <= x.up[c][k].n
    <3>1. Honest(x.up[c], Len(cl.got)) BY DEF Right, Net
    <3>2. Len(cl.got) \in Nat BY AroundIs
    <3> QED BY <3>1, <3>2 DEF Honest
  <2>4. y.q.tail = 0 /\ y.up = x.up /\ y.owner = x.owner /\ y.conn = c /\ j.t # "a" BY <1>9, <2>1
  <2>5. \A d \in Conn \ {c} : y.owner[d] # "N" BY <1>3, <2>4
  <2> QED BY <2>2, <2>3, <2>4, <2>5 DEF Rising
<1>18. Cuts(y, FALSE) BY <1>0, <1>9 DEF Cuts
<1>19. Ranges(y)
  <2>1. MaxOut \in Nat /\ MaxIn \in Nat BY SmacksAssumption
  <2>2. 0 \in Numbers BY <2>1 DEF Numbers
  <2>3. \A d \in Conn : Small(y.down[d]) BY <1>0, <1>5, <1>8, <1>9, <2>2 DEF Ranges, Small
  <2> QED BY <1>0, <1>3, <1>9, <2>3 DEF Ranges
<1>20. y.handled = n BY <1>0, <1>3, <1>9
<1> QED BY <1>4, <1>13, <1>14, <1>15, <1>16, <1>17, <1>18, <1>19, <1>20 DEF Up, c

(* A stanza is processed. *)
LEMMA UpDone ==
  ASSUME NEW x, NEW p, NEW c, NEW ph, NEW s, NEW n \in Nat, NEW i, NEW j, Sound(x),
         Up(x, p, c, ph, s, n, i), i.t = "stanza", j.t = "none", ~x.destroyed
  PROVE  Up(x, p, c, ph, s, n + 1, j)
<1>1. /\ Counted(x, p, c, ph, s) /\ Enabling(x, p, c, ph, FALSE) /\ Asked(x, c, ph)
      /\ Claims(x, n) /\ Rising(x, c, i) /\ Cuts(x, p) /\ Ranges(x) /\ x.handled = n + 1
  BY DEF Up
<1>2. Claims(x, n + 1)
  <2>1. x.old_h <= n /\ x.old_h \in Int BY <1>1, SoundIs DEF Claims
  <2>2. ASSUME NEW d \in Conn, NEW k \in DOMAIN x.down[d], x.down[d][k].t \in {"a", "resumed", "failed"}
        PROVE  x.down[d][k].n <= n + 1
    <3>1. x.down[d] \in Seq(DownItem) BY SoundIs
    <3>2. x.down[d][k] \in DownItem BY <3>1
    <3>3. x.down[d][k].n \in Int BY <3>2 DEF DownItem
    <3>4. x.down[d][k].n <= n BY <1>1, <2>2 DEF Claims
    <3> QED BY <3>3, <3>4
  <2> QED BY <2>1, <2>2 DEF Claims
<1>3. Rising(x, c, j) BY <1>1 DEF Rising
<1> QED BY <1>1, <1>2, <1>3 DEF Up

(* What the session's thread handles. *)
LEMMA UpRun ==
  ASSUME SmacksInv, SmacksInv', UpInv, Calm', RunItem
  PROVE  UpInv'
<1> DEFINE i == Head(inbox)
           n == Len(hist.done)
           c == cl.conn
           j == Item("none", 0)
<1>1. inbox # <<>> /\ inbox' = Tail(inbox) /\ UNCHANGED <<partial, cl>> BY DEF RunItem
<1>2. Pending = i /\ inbox' = <<>> BY <1>1, UpIs
<1>3. Pending' = j /\ j.t = "none" /\ j.n \in Numbers BY <1>2, UpIs DEF Pending
<1>4. i \in InItem /\ (i.t = "a" => i.n \in 0..Len(cl.got)) BY <1>1, TakenIs
<1>5. i.t \in {"stanza", "a", "r", "enable", "close", "expire"} /\ i.n \in Int BY <1>4 DEF InItem
<1>6. hist' = [hist EXCEPT
         !.done = IF i.t = "stanza" /\ i.n > 0 /\ ~srv.destroyed THEN Append(@, i.n) ELSE @,
         !.rejected = @ \/ (/\ i.t = "a" /\ ~srv.destroyed /\ srv.smacks = "on"
                            /\ srv.conn # None /\ srv.conn = cl.conn
                            /\ AckError(srv.q, i.n) # "none")]
  BY DEF RunItem
<1>7. hist \in History /\ hist.done \in Seq(Nat) BY DEF SmacksInv, Types, History
<1>8. /\ hist'.done = IF i.t = "stanza" /\ i.n > 0 /\ ~srv.destroyed THEN Append(hist.done, i.n) ELSE hist.done
      /\ hist'.rejected = (hist.rejected \/ (/\ i.t = "a" /\ ~srv.destroyed /\ srv.smacks = "on"
                            /\ srv.conn # None /\ srv.conn = cl.conn
                            /\ AckError(srv.q, i.n) # "none"))
      /\ hist'.out = hist.out
  BY <1>6, <1>7 DEF History
<1>9. /\ Right(srv) /\ Around /\ Sound(srv) /\ n \in Nat /\ c \in Conn \union {None}
      /\ Up(srv, partial, c, cl.phase, cl.sent, n, i)
      /\ Len(cl.got) \in Nat /\ hist.out \in Nat /\ Len(cl.got) <= hist.out
  BY <1>2, UpIs
<1>10. Sound(srv') BY SoundNext
<1>11. i.t = "stanza" => i.n = n + 1 BY <1>2 DEF UpInv
<1>12. partial => i.t = "expire" BY <1>2, <1>5 DEF UpInv
<1>13. \A k \in DOMAIN hist.done : hist.done[k] = k BY DEF UpInv
<1> HIDE DEF i, j, c, n
<1>14. ~hist'.rejected
  <2>1. ~hist.rejected BY DEF UpInv
  <2>2. ASSUME i.t = "a", ~srv.destroyed, srv.conn # None, srv.conn = cl.conn PROVE AckError(srv.q, i.n) = "none"
    <3>1. srv.q.tail <= i.n BY <1>9, <2>2 DEF Up, Rising, c
    <3>2. i.n <= Len(cl.got) BY <1>4, <1>9, <2>2
    <3>3. srv.q.head = hist.out BY <1>9 DEF Right, Books, Booked
    <3>4. srv.q.tail \in Nat BY <1>9, SoundIs
    <3> QED BY <1>5, <1>9, <3>1, <3>2, <3>3, <3>4 DEF AckError
  <2> QED BY <1>8, <2>1, <2>2
<1>15. ASSUME hist'.done = hist.done, Up(srv', partial, c, cl.phase, cl.sent, n, j) PROVE UpInv'
  BY <1>1, <1>3, <1>8, <1>14, <1>15, UpIs, UpNext DEF n, c
<1>16. CASE ~srv.destroyed /\ i.t = "stanza"
  <2>1. srv' = srv BY <1>16 DEF RunItem, i
  <2>2. hist'.done = Append(hist.done, n + 1) BY <1>8, <1>9, <1>11, <1>16
  <2>3. Up(srv', partial, c, cl.phase, cl.sent, n + 1, j) BY <1>3, <1>9, <1>16, <2>1, UpDone
  <2>4. Len(hist'.done) = n + 1 /\ \A k \in DOMAIN hist'.done : hist'.done[k] = k
    <3>1. /\ hist'.done \in Seq(Nat) /\ Len(hist'.done) = n + 1 /\ hist'.done[n + 1] = n + 1
          /\ \A k \in 1..n : hist'.done[k] = hist.done[k]
      BY <1>7, <1>9, <2>2, AppendIs DEF n
    <3>2. DOMAIN hist'.done = 1..(n + 1) /\ DOMAIN hist.done = 1..n BY <1>7, <3>1 DEF n
    <3>3. ASSUME NEW k \in 1..(n + 1) PROVE hist'.done[k] = k
      <4>1. k = n + 1 \/ k \in 1..n BY <1>9
      <4> QED BY <1>13, <3>1, <3>2, <4>1
    <3> QED BY <3>1, <3>2, <3>3
  <2>5. cl.acked <= n + 1
    <3>1. cl.acked <= n /\ cl.acked \in Int BY UpIs DEF n
    <3> QED BY <1>9, <3>1
  <2>6. cl.sent <= MaxIn /\ hist'.out <= MaxOut BY <1>8, UpIs
  <2> QED BY <1>1, <1>3, <1>14, <2>3, <2>4, <2>5, <2>6 DEF UpInv, c
<1>17. CASE ~srv.destroyed /\ i.t = "enable"
  <2>1. srv' = handle_enable(srv) BY <1>17 DEF RunItem, i
  <2>2. ~partial BY <1>12, <1>17
  <2>3. partial = FALSE BY <2>2, UpIs
  <2>4. c = None => cl.phase \in {"off", "gone"} BY UpIs DEF c
  <2>5. Up(srv', partial, c, cl.phase, cl.sent, n, j) BY <1>3, <1>9, <1>17, <2>1, <2>3, <2>4, UpEnabled DEF c
  <2> QED BY <1>8, <1>15, <1>17, <2>5
<1>18. CASE ~srv.destroyed /\ i.t = "a" /\ srv.smacks = "on" /\ AckError(srv.q, i.n) = "none"
  <2> DEFINE z == [[srv EXCEPT !.awaiting_ack = FALSE] EXCEPT !.q = Ack(@, i.n)]
  <2>1. srv' = request_ack_now_if_needed(z, FALSE) BY <1>18 DEF RunItem, handle_a, i
  <2>2. i.n \in Nat /\ i.n <= Len(cl.got) BY <1>4, <1>9, <1>18
  <2>3. Right(z) BY <1>9, <1>18, <2>2, RightAckedA
  <2>4. Ack(srv.q, i.n).tail = i.n BY <1>9, <1>18, <2>2, RightAcked
  <2>5. /\ z.smacks = srv.smacks /\ z.destroyed = srv.destroyed /\ z.handled = srv.handled
        /\ z.old_h = srv.old_h /\ z.conn = srv.conn /\ z.owner = srv.owner /\ z.up = srv.up /\ z.down = srv.down
        /\ z.q.tail = i.n
    BY <1>9, <2>4 DEF Sound, Server
  <2> HIDE DEF z
  <2>6. srv.q.tail <= i.n
    <3>1. srv.q.tail \in Nat BY <1>9, SoundIs
    <3> QED BY <1>18, <2>2, <3>1 DEF AckError
  <2>7. srv.q.tail \in Int /\ \A d \in Conn : srv.up[d] \in Seq(UpItem) BY <1>9, SoundIs
  <2>8. Up(z, partial, c, cl.phase, cl.sent, n, j) BY <1>3, <1>5, <1>9, <1>18, <2>5, <2>6, <2>7, UpAcked
  <2>9. Tame(z, srv') BY <1>9, <2>1, <2>3, TameRequested
  <2>10. Sound(z) BY <2>3 DEF Right, Sound
  <2>11. Up(srv', partial, c, cl.phase, cl.sent, n, j) BY <1>3, <1>9, <1>10, <2>8, <2>9, <2>10, UpTame DEF c
  <2> QED BY <1>8, <1>15, <1>18, <2>11
<1>19. CASE srv.destroyed \/ (i.t \notin {"stanza", "enable"} /\ (i.t = "a" => srv.smacks # "on" \/ AckError(srv.q, i.n) # "none"))
  <2>1. Tame(srv, srv') BY <1>19, TameRun DEF i
  <2>2. Up(srv', partial, c, cl.phase, cl.sent, n, j) BY <1>3, <1>9, <1>10, <1>19, <2>1, UpTame DEF c
  <2>3. hist'.done = hist.done BY <1>8, <1>19
  <2> QED BY <1>15, <2>2, <2>3
<1> QED BY <1>16, <1>17, <1>18, <1>19

(* y is x, but for what is on its way to the server. *)
Kin(x, y) ==
  /\ y.smacks = x.smacks /\ y.destroyed = x.destroyed /\ y.handled = x.handled /\ y.old_h = x.old_h
  /\ y.conn = x.conn /\ y.owner = x.owner /\ y.q = x.q

(* w is x, with the first item on connection b taken. *)
Parsed(x, w, b) ==
  /\ x.up[b] # <<>> /\ w.up[b] = Tail(x.up[b]) /\ \A d \in Conn : d # b => w.up[d] = x.up[d]
  /\ w.up[b] = <<>> \/ w.up[b][1].t # "resume"
  /\ Kin(x, w) /\ w.down = x.down

(* Where what is left comes from. *)
LEMMA ParsedIs ==
  ASSUME NEW x, Sound(x), NEW b \in Conn, NEW w, Parsed(x, w, b)
  PROVE  /\ Head(x.up[b]) \in UpItem /\ Head(x.up[b]) = x.up[b][1] /\ 1 \in DOMAIN x.up[b]
         /\ \A k \in DOMAIN w.up[b] : k + 1 \in DOMAIN x.up[b] /\ w.up[b][k] = x.up[b][k + 1] /\ 1 < k + 1
         /\ \A k, l \in DOMAIN w.up[b] : k < l => k + 1 < l + 1
         /\ \A d \in Conn : \A k \in DOMAIN w.up[d] : \E l \in DOMAIN x.up[d] : w.up[d][k] = x.up[d][l]
<1> DEFINE u == x.up[b]
           v == w.up[b]
<1>1. u \in Seq(UpItem) /\ u # <<>> /\ v = Tail(u) BY SoundIs DEF Parsed
<1> HIDE DEF u, v
<1>2. /\ Head(u) \in UpItem /\ Head(u) = u[1] /\ 1 \in DOMAIN u
      /\ \A k \in DOMAIN v : k + 1 \in DOMAIN u /\ v[k] = u[k + 1]
  BY <1>1, TailItems
<1>3. DOMAIN v \subseteq Nat \ {0} BY <1>1
<1>4. \A k \in DOMAIN v : 1 < k + 1 BY <1>3
<1>5. \A k, l \in DOMAIN v : k < l => k + 1 < l + 1 BY <1>3
<1>6. ASSUME NEW d \in Conn, NEW k \in DOMAIN w.up[d] PROVE \E l \in DOMAIN x.up[d] : w.up[d][k] = x.up[d][l]
  <2>1. CASE d = b
    <3>1. k + 1 \in DOMAIN x.up[d] /\ w.up[d][k] = x.up[d][k + 1] BY <1>2, <1>6, <2>1 DEF u, v
    <3> QED BY <3>1
  <2>2. CASE d # b BY <1>6, <2>2 DEF Parsed
  <2> QED BY <2>1, <2>2
<1> QED BY <1>2, <1>4, <1>5, <1>6 DEF u, v

(* Taking an item leaves the rest right. *)
LEMMA UpParsed ==
  ASSUME NEW x, Sound(x), NEW b \in Conn, NEW w, Parsed(x, w, b), NEW p, NEW c \in Conn \union {None}, NEW ph, NEW n, NEW i, NEW j,
         Asked(x, c, ph), Claims(x, n), Rising(x, c, i), Cuts(x, p), Ranges(x),
         j.t = "a" => j = Head(x.up[b]) /\ x.conn = b
  PROVE  Asked(w, c, ph) /\ Claims(w, n) /\ Rising(w, c, j) /\ Cuts(w, p) /\ Ranges(w)
<1>1. Kin(x, w) /\ w.down = x.down /\ (w.up[b] = <<>> \/ w.up[b][1].t # "resume")
      /\ \A d \in Conn : d # b => w.up[d] = x.up[d]
  BY DEF Parsed
<1>2. /\ Head(x.up[b]) = x.up[b][1] /\ 1 \in DOMAIN x.up[b]
      /\ \A k \in DOMAIN w.up[b] : k + 1 \in DOMAIN x.up[b] /\ w.up[b][k] = x.up[b][k + 1] /\ 1 < k + 1
      /\ \A k, l \in DOMAIN w.up[b] : k < l => k + 1 < l + 1
  BY ParsedIs
<1>3. \A d \in Conn : \A k \in DOMAIN w.up[d] : \E l \in DOMAIN x.up[d] : w.up[d][k] = x.up[d][l]
  BY ParsedIs
<1>4. Asked(w, c, ph)
  <2>1. \A d \in Conn : w.owner[d] = "N" => \A k \in DOMAIN w.up[d] : w.up[d][k].t \in {"resume", "half"}
    BY <1>1, <1>3 DEF Asked, Kin
  <2>2. c # None /\ w.owner[c] = "N" =>
           /\ ph \in {"resuming", "fresh", "gone"}
           /\ w.up[c] # <<>> /\ w.up[c][1].t = "resume" => ph = "resuming"
           /\ \A k \in DOMAIN w.down[c] : w.down[c][k].t = "failed"
    BY <1>1 DEF Asked, Kin
  <2>3. c # None /\ w.owner[c] = "S" =>
          Lacks(w.down[c], "failed") /\ (ph = "resuming" => Lacks(w.down[c], "enabled"))
    BY <1>1 DEF Asked, Kin
  <2>4. c # None => \A k \in DOMAIN w.down[c] : w.down[c][k].t = "resumed" =>
          k = 1 /\ ph = "resuming" /\ (~w.destroyed /\ w.owner[c] = "S" => w.down[c][k].n = w.handled)
    BY <1>1 DEF Asked, Kin
  <2> QED BY <2>1, <2>2, <2>3, <2>4 DEF Asked
<1>5. Claims(w, n) BY <1>1 DEF Claims, Kin
<1>6. Rising(w, c, j)
  <2> SUFFICES ASSUME x.conn = c, c \in Conn PROVE Rising(w, c, j) BY <1>1 DEF Rising, Kin
  <2>1. /\ \A k \in DOMAIN x.up[c] : x.up[c][k].t = "a" => x.q.tail <= x.up[c][k].n
        /\ \A k, l \in DOMAIN x.up[c] : k < l /\ x.up[c][k].t = "a" /\ x.up[c][l].t = "a" => x.up[c][k].n <= x.up[c][l].n
        /\ \A d \in Conn \ {c} : x.owner[d] = "N" /\ x.up[d] # <<>> /\ x.up[d][1].t = "resume" => x.up[d][1].n <= x.q.tail
    BY NoneIsNoConn DEF Rising
  <2>2. \A k \in DOMAIN w.up[c] : w.up[c][k].t = "a" => x.q.tail <= w.up[c][k].n
    BY <1>3, <2>1
  <2>3. \A k, l \in DOMAIN w.up[c] : k < l /\ w.up[c][k].t = "a" /\ w.up[c][l].t = "a" => w.up[c][k].n <= w.up[c][l].n
    <3>1. CASE c = b BY <1>2, <2>1, <3>1
    <3>2. CASE c # b BY <1>1, <2>1, <3>2
    <3> QED BY <3>1, <3>2
  <2>4. \A d \in Conn \ {c} : w.owner[d] = "N" /\ w.up[d] # <<>> /\ w.up[d][1].t = "resume" => w.up[d][1].n <= x.q.tail
    BY <1>1, <2>1 DEF Kin
  <2>5. ASSUME j.t = "a" PROVE x.q.tail <= j.n /\ \A k \in DOMAIN w.up[c] : w.up[c][k].t = "a" => j.n <= w.up[c][k].n
    <3>1. c = b /\ j = x.up[c][1] BY <1>2, <2>5
    <3> QED BY <1>2, <2>1, <2>5, <3>1
  <2> QED BY <1>1, <2>2, <2>3, <2>4, <2>5 DEF Rising, Kin
<1>7. Cuts(w, p) BY <1>3 DEF Cuts, Lacks
<1>8. Ranges(w)
  <2>1. \A d \in Conn : Small(w.up[d]) BY <1>3 DEF Ranges, Small
  <2> QED BY <1>1, <2>1 DEF Ranges, Kin
<1> QED BY <1>4, <1>5, <1>6, <1>7, <1>8

(* An item on the session's connection is counted, if it is a stanza, and  *)
(* queued for its thread. *)
LEMMA UpFed ==
  ASSUME NEW x, Sound(x), ~x.destroyed, NEW b \in Conn, x.owner[b] = "S", NEW w, w \in Server, Parsed(x, w, b), NEW c \in Conn \union {None},
         NEW ph, NEW s \in Nat, s <= MaxIn, NEW n \in Nat, NEW i, Up(x, FALSE, c, ph, s, n, i), i.t = "none",
         Head(x.up[b]).t # "resume"
  PROVE  LET j == Head(x.up[b])
             k == IF j.t = "half" THEN Item("none", 0) ELSE j
         IN Up(count_incoming_stanzas(w, j), j.t = "half", c, ph, s, n, k)
<1> DEFINE j == Head(x.up[b])
           m == IF j.t = "half" THEN Item("none", 0) ELSE j
           y == count_incoming_stanzas(w, j)
           q == (j.t = "half")
           u == x.up[b]
           h == x.handled
<1>0. /\ Counted(x, FALSE, c, ph, s) /\ Enabling(x, FALSE, c, ph, FALSE) /\ Asked(x, c, ph)
      /\ Claims(x, n) /\ Rising(x, c, i) /\ Cuts(x, FALSE) /\ Ranges(x)
      /\ h = n
  BY DEF Up
<1>1. /\ j \in UpItem /\ j = u[1] /\ 1 \in DOMAIN u /\ u \in Seq(UpItem) /\ u # <<>>
      /\ \A k \in DOMAIN w.up[b] : k + 1 \in DOMAIN u /\ w.up[b][k] = u[k + 1] /\ 1 < k + 1
      /\ \A d \in Conn : \A k \in DOMAIN w.up[d] : \E l \in DOMAIN x.up[d] : w.up[d][k] = x.up[d][l]
      /\ \A d \in Conn : d # b => w.up[d] = x.up[d]
      /\ w.up[b] = Tail(u)
      /\ Kin(x, w) /\ w.down = x.down
  <2>1. u \in Seq(UpItem) BY SoundIs
  <2>2. /\ j \in UpItem /\ j = u[1] /\ 1 \in DOMAIN u
        /\ \A k \in DOMAIN w.up[b] : k + 1 \in DOMAIN u /\ w.up[b][k] = u[k + 1] /\ 1 < k + 1
        /\ \A d \in Conn : \A k \in DOMAIN w.up[d] : \E l \in DOMAIN x.up[d] : w.up[d][k] = x.up[d][l]
    BY ParsedIs
  <2>3. /\ u # <<>> /\ w.up[b] = Tail(u) /\ Kin(x, w) /\ w.down = x.down
        /\ \A d \in Conn : d # b => w.up[d] = x.up[d]
    BY DEF Parsed
  <2> QED BY <2>1, <2>2, <2>3
<1>2. j.t \in {"stanza", "a", "r", "enable", "close", "half"} BY <1>1 DEF UpItem
<1>3. j.n \in Numbers BY <1>0, <1>1 DEF Ranges, Small
<1>4. x.conn = b /\ \A d \in Conn : x.owner[d] = "S" <=> d = b BY DEF Sound, Owns
<1>5. x.smacks \in {"nil", "on"} BY SoundIs
<1>6. MaxOut \in Nat /\ MaxIn \in Nat BY SmacksAssumption
<1>7. PICK e \in h..s : Carries(u, h, e) /\ (b = c => e = IF ph = "resuming" THEN h ELSE s)
  BY <1>0 DEF Counted
<1>8. m.t = (IF j.t = "half" THEN "none" ELSE j.t) /\ (m.t = "a" => m = j) BY DEF Item
<1>9. h <= s BY <1>0 DEF Counted
<1> HIDE DEF m, h
<1>10. Asked(w, c, ph) /\ Claims(w, n) /\ Rising(w, c, m) /\ Cuts(w, FALSE) /\ Ranges(w)
  BY <1>0, <1>4, <1>8, UpParsed
<1> HIDE DEF j, u, y
<1>11. Cuts(w, q)
  <2>1. ~MayCut => j.t # "half" BY <1>0, <1>1 DEF Cuts, Lacks, u
  <2> QED BY <1>10, <2>1 DEF Cuts
<1>12. CASE j.t = "stanza"
  <2>1. x.smacks = "on"
    <3> SUFFICES ASSUME x.smacks = "nil" PROVE FALSE BY <1>5
    <3>1. Offered(x, b, c, ph, FALSE) BY <1>0 DEF Enabling
    <3> QED BY <1>1, <1>12, <3>1 DEF Offered, Lacks, u
  <2>2. h \in Nat /\ e \in Nat BY <1>0, <1>7
  <2>3. j.n = h + 1 /\ h + 1 <= e /\ Carries(w.up[b], h + 1, e)
    BY <1>1, <1>7, <1>12, <2>2, CarriesTaken DEF j, u
  <2>4. y = [w EXCEPT !.handled = @ + 1] BY <1>1, <1>12, <2>1 DEF count_incoming_stanzas, Kin, y
  <2>5. /\ y.handled = h + 1 /\ y.smacks = x.smacks /\ y.destroyed = x.destroyed /\ y.old_h = w.old_h
        /\ y.conn = w.conn /\ y.owner = w.owner /\ y.q = w.q /\ y.up = w.up /\ y.down = w.down
    BY <1>1, <2>4 DEF Server, Kin, h
  <2>6. w.owner = x.owner BY <1>1 DEF Kin
  <2>7. h + 1 <= s /\ h + 1 <= MaxIn BY <1>6, <1>7, <2>2, <2>3
  <2>8. c = b => ph # "resuming" BY <1>7, <2>2, <2>3
  <2>9. Counted(y, q, c, ph, s)
    <3>1. e \in (h + 1)..s BY <1>7, <2>2, <2>3
    <3> QED BY <1>4, <1>7, <2>3, <2>5, <2>6, <2>7, <2>8, <3>1 DEF Counted
  <2>10. Enabling(y, q, c, ph, FALSE)
    <3>1. ph # "bound" /\ \A d \in Conn : x.owner[d] = "S" => Lacks(x.up[d], "enable")
      BY <1>0, <2>1 DEF Enabling
    <3>2. \A d \in Conn : x.owner[d] = "S" => Lacks(w.up[d], "enable") BY <1>1, <3>1 DEF Lacks
    <3> QED BY <2>1, <2>5, <2>6, <3>1, <3>2 DEF Enabling
  <2>11. Asked(y, c, ph)
    <3>1. ASSUME c # None, NEW k \in DOMAIN w.down[c], w.down[c][k].t = "resumed"
          PROVE  k = 1 /\ ph = "resuming" /\ x.owner[c] # "S"
      <4>1. k = 1 /\ ph = "resuming" BY <1>10, <3>1 DEF Asked
      <4> QED BY <1>4, <2>8, <3>1, <4>1
    <3> QED BY <1>10, <2>5, <2>6, <3>1 DEF Asked
  <2>12. Claims(y, n) BY <1>10, <2>5 DEF Claims
  <2>13. Rising(y, c, m) BY <1>10, <2>5 DEF Rising
  <2>14. Cuts(y, q) BY <1>11, <2>5 DEF Cuts
  <2>15. Ranges(y) BY <1>10, <2>2, <2>5, <2>7 DEF Ranges
  <2>16. m.t = "stanza" /\ y.handled = n + 1 /\ j.n = n + 1 BY <1>0, <1>8, <1>12, <2>3, <2>5
  <2> QED BY <1>3, <2>9, <2>10, <2>11, <2>12, <2>13, <2>14, <2>15, <2>16 DEF Up, m, y, j
<1>13. CASE j.t # "stanza"
  <2>1. y = w BY <1>13 DEF count_incoming_stanzas, y
  <2>2. h \in Nat /\ e \in Nat BY <1>0, <1>7
  <2>3. Carries(w.up[b], h, e) BY <1>1, <1>7, <1>13, <2>2, CarriesTail DEF j, u
  <2>4. w.handled = h /\ w.smacks = x.smacks /\ w.destroyed = x.destroyed /\ w.owner = x.owner /\ w.conn = x.conn
    BY <1>1 DEF Kin, h
  <2>5. Counted(w, q, c, ph, s) BY <1>4, <1>7, <1>9, <2>3, <2>4 DEF Counted
  <2>6. Enabling(w, q, c, ph, m.t = "enable")
    <3> SUFFICES ASSUME ~q PROVE Enabling(w, q, c, ph, m.t = "enable") BY DEF Enabling
    <3>1. m.t = j.t BY <1>8
    <3>2. CASE x.smacks = "on"
      <4>1. ph # "bound" /\ \A d \in Conn : x.owner[d] = "S" => Lacks(x.up[d], "enable")
        BY <1>0, <3>2 DEF Enabling
      <4>2. \A d \in Conn : x.owner[d] = "S" => Lacks(w.up[d], "enable") BY <1>1, <4>1 DEF Lacks
      <4>3. j.t # "enable" BY <1>1, <4>1 DEF Lacks, u
      <4> QED BY <2>4, <3>1, <3>2, <4>1, <4>2, <4>3 DEF Enabling
    <3>3. CASE x.smacks = "nil"
      <4>1. /\ h = 0 /\ ph \in {"bound", "enabling", "gone"} /\ (c # None => c = x.conn)
            /\ \A d \in Conn : x.owner[d] # "N" /\ (x.owner[d] = "S" => Offered(x, d, c, ph, FALSE))
        BY <1>0, <3>3 DEF Enabling, h
      <4>2. Offered(x, b, c, ph, FALSE) BY <4>1
      <4>3. Offered(w, b, c, ph, j.t = "enable")
        <5>1. \A k \in DOMAIN w.down[b] : w.down[b][k].t = "end" BY <1>1, <4>2 DEF Offered
        <5>2. CASE j.t = "enable"
          <6>1. ph # "bound" /\ \A k \in DOMAIN u : k > 1 => u[k].t # "enable" BY <1>1, <4>2, <5>2 DEF Offered, Lacks, u
          <6>2. \A k \in DOMAIN w.up[b] : k + 1 > 1
            <7>1. \A k \in DOMAIN w.up[b] : 1 < k + 1 BY <1>1
            <7> QED BY <7>1
          <6>3. Lacks(w.up[b], "enable") BY <1>1, <6>1, <6>2 DEF Lacks
          <6> QED BY <5>1, <5>2, <6>1, <6>3 DEF Offered
        <5>3. CASE j.t # "enable"
          <6>1. Lacks(u, "stanza") /\ Lacks(u, "enable") /\ (b = c => ph = "bound" /\ u = <<>>)
            BY <1>1, <4>2, <5>3 DEF Offered, u
          <6>2. Lacks(w.up[b], "stanza") /\ Lacks(w.up[b], "enable") BY <1>1, <6>1 DEF Lacks
          <6> QED BY <1>1, <5>1, <5>3, <6>1, <6>2 DEF Offered
        <5> QED BY <5>2, <5>3
      <4> QED BY <1>4, <2>4, <3>1, <3>3, <4>1, <4>3 DEF Enabling
    <3> QED BY <1>5, <3>2, <3>3
  <2>7. w.handled = IF m.t = "stanza" THEN n + 1 ELSE n BY <1>0, <1>8, <1>13, <2>4
  <2> QED BY <1>3, <1>10, <1>11, <1>13, <2>1, <2>5, <2>6, <2>7 DEF Up, m, y, j
<1> QED BY <1>12, <1>13

(* In the middle of a stanza the connection breaks off, *)
LEMMA UpFedHalf ==
  ASSUME NEW x, Sound(x), ~x.destroyed, NEW b \in Conn, x.owner[b] = "S", NEW w, w \in Server, Parsed(x, w, b), NEW c \in Conn \union {None},
         NEW ph, NEW s \in Nat, s <= MaxIn, NEW n \in Nat, NEW i, Up(x, FALSE, c, ph, s, n, i), i.t = "none",
         Head(x.up[b]).t = "half"
  PROVE  Up(count_incoming_stanzas(w, Head(x.up[b])), TRUE, c, ph, s, n, Item("none", 0))
<1>1. Head(x.up[b]).t # "resume" OBVIOUS
<1> QED BY <1>1, UpFed

(* and what is complete waits to be handled; *)
LEMMA UpFedItem ==
  ASSUME NEW x, Sound(x), ~x.destroyed, NEW b \in Conn, x.owner[b] = "S", NEW w, w \in Server, Parsed(x, w, b), NEW c \in Conn \union {None},
         NEW ph, NEW s \in Nat, s <= MaxIn, NEW n \in Nat, NEW i, Up(x, FALSE, c, ph, s, n, i), i.t = "none",
         Head(x.up[b]).t \notin {"resume", "half"}
  PROVE  Up(count_incoming_stanzas(w, Head(x.up[b])), FALSE, c, ph, s, n, Head(x.up[b]))
<1>1. Head(x.up[b]).t # "resume" /\ Head(x.up[b]).t # "half" OBVIOUS
<1>2. Up(count_incoming_stanzas(w, Head(x.up[b])), Head(x.up[b]).t = "half", c, ph, s, n, Head(x.up[b])) BY <1>1, UpFed
<1>3. (Head(x.up[b]).t = "half") = FALSE BY <1>1
<1> QED BY <1>2, <1>3

(* a stanza is the next one. *)
LEMMA UpFedNext ==
  ASSUME NEW x, Sound(x), ~x.destroyed, NEW b \in Conn, x.owner[b] = "S", x.up[b] # <<>>, NEW c,
         NEW ph, NEW s \in Nat, NEW n \in Nat, NEW i, NEW p, ~p, Up(x, p, c, ph, s, n, i), i.t = "none"
  PROVE  /\ Head(x.up[b]).n \in Numbers
         /\ Head(x.up[b]).t = "stanza" => Head(x.up[b]).n = n + 1
<1> DEFINE u == x.up[b]
<1>1. u \in Seq(UpItem) /\ u # <<>> BY SoundIs
<1>2. Head(u) = u[1] /\ 1 \in DOMAIN u BY <1>1
<1>3. Ranges(x) /\ Counted(x, p, c, ph, s) /\ x.handled = n BY DEF Up
<1>4. PICK e \in x.handled..s : Carries(u, x.handled, e) BY <1>3 DEF Counted
<1>5. Small(u) BY <1>3 DEF Ranges
<1> HIDE DEF u
<1>6. e \in Nat BY <1>3, <1>4
<1>7. Head(u).t = "stanza" => Head(u).n = n + 1 BY <1>1, <1>3, <1>4, <1>6, CarriesTaken
<1>8. Head(u).n \in Numbers BY <1>2, <1>5 DEF Small
<1> QED BY <1>7, <1>8 DEF u

(* An item that is not for the session's thread. *)
LEMMA UpSkipped ==
  ASSUME NEW x, Sound(x), NEW b \in Conn, NEW w, Parsed(x, w, b), NEW p, NEW c \in Conn \union {None},
         NEW ph, NEW s, NEW n, NEW i, Up(x, p, c, ph, s, n, i), i.t = "none",
         x.owner[b] = "S" => x.destroyed \/ p, x.owner[b] # "none"
  PROVE  Up(w, p, c, ph, s, n, i)
<1>0. /\ Counted(x, p, c, ph, s) /\ Enabling(x, p, c, ph, FALSE) /\ Asked(x, c, ph)
      /\ Claims(x, n) /\ Rising(x, c, i) /\ Cuts(x, p) /\ Ranges(x)
      /\ ~x.destroyed => x.handled = n
  BY DEF Up
<1>1. Asked(w, c, ph) /\ Claims(w, n) /\ Rising(w, c, i) /\ Cuts(w, p) /\ Ranges(w) BY <1>0, UpParsed
<1>2. Kin(x, w) /\ w.down = x.down /\ \A d \in Conn : d # b => w.up[d] = x.up[d] BY DEF Parsed
<1>3. x.owner[b] \in {"S", "N"} /\ x.smacks \in {"nil", "on"} BY SoundIs
<1>4. Counted(w, p, c, ph, s)
  <2> SUFFICES ASSUME ~x.destroyed PROVE Counted(w, p, c, ph, s) BY <1>2 DEF Counted, Kin
  <2>1. CASE p BY <1>0, <1>2, <2>1 DEF Counted, Kin
  <2>2. CASE ~p
    <3>1. \A d \in Conn : x.owner[d] = "S" => w.up[d] = x.up[d] BY <1>2, <2>2
    <3> QED BY <1>0, <1>2, <3>1 DEF Counted, Kin
  <2> QED BY <2>1, <2>2
<1>5. Enabling(w, p, c, ph, FALSE)
  <2> SUFFICES ASSUME ~x.destroyed, ~p PROVE Enabling(w, p, c, ph, FALSE) BY <1>2 DEF Enabling, Kin
  <2>1. x.owner[b] = "N" BY <1>3
  <2>2. x.smacks = "on" BY <1>0, <1>3, <2>1 DEF Enabling
  <2>3. ph # "bound" /\ \A d \in Conn : x.owner[d] = "S" => Lacks(x.up[d], "enable") BY <1>0, <2>2 DEF Enabling
  <2>4. \A d \in Conn : x.owner[d] = "S" => Lacks(w.up[d], "enable") BY <1>2, <2>1, <2>3
  <2> QED BY <1>2, <2>2, <2>3, <2>4 DEF Enabling, Kin
<1>6. ~w.destroyed => w.handled = n BY <1>0, <1>2 DEF Kin
<1> QED BY <1>1, <1>4, <1>5, <1>6 DEF Up

(* A refused resumption. *)
LEMMA UpRefused ==
  ASSUME NEW x, Sound(x), NEW b \in Conn, x.owner[b] = "N", NEW h \in Nat, NEW y, Refused(x, y, b, h), NEW p,
         NEW ph, NEW s, NEW n \in Nat, NEW i, Up(x, p, cl.conn, ph, s, n, i), i.t = "none",
         x.conn = cl.conn /\ cl.conn # None => h <= x.q.tail, cl.conn \in Conn \union {None}
  PROVE  Up(y, p, cl.conn, ph, s, n, i)
<1> DEFINE c == cl.conn
<1>0. /\ Counted(x, p, c, ph, s) /\ Enabling(x, p, c, ph, FALSE) /\ Asked(x, c, ph)
      /\ Claims(x, n) /\ Rising(x, c, i) /\ Cuts(x, p) /\ Ranges(x)
      /\ ~x.destroyed => x.handled = n
  BY DEF Up
<1>1. /\ y.smacks = x.smacks /\ y.destroyed = x.destroyed /\ y.handled = x.handled
      /\ y.conn = x.conn /\ y.owner = x.owner /\ y.up = x.up /\ y.old_h \in {x.old_h, NoH}
      /\ y.q.tail = x.q.tail \/ (x.q.tail <= h /\ y.q.tail = h)
      /\ \A d \in Conn : d # b \/ b # c => y.down[d] = x.down[d]
      /\ b = c => \E m \in {NoH, x.old_h} : y.down[b] = x.down[b] \o <<Item("failed", m)>>
  BY DEF Refused
<1>2. x.old_h \in Int /\ NoH \in Int /\ x.q.tail \in Nat /\ x.down[b] \in Seq(DownItem) BY SoundIs DEF NoH
<1>3. c \in Conn \union {None} OBVIOUS
<1> HIDE DEF c
<1>4. \A d \in Conn : \A k \in DOMAIN y.down[d] :
         \/ k \in DOMAIN x.down[d] /\ y.down[d][k] = x.down[d][k]
         \/ /\ d = b /\ d = c /\ y.down[d][k].t = "failed" /\ y.down[d][k].n \in {NoH, x.old_h}
  <2> SUFFICES ASSUME NEW d \in Conn, NEW k \in DOMAIN y.down[d]
               PROVE  \/ k \in DOMAIN x.down[d] /\ y.down[d][k] = x.down[d][k]
                      \/ /\ d = b /\ d = c /\ y.down[d][k].t = "failed" /\ y.down[d][k].n \in {NoH, x.old_h}
    OBVIOUS
  <2>1. CASE d # b \/ b # c BY <1>1, <2>1
  <2>2. CASE d = b /\ b = c
    <3>1. PICK m \in {NoH, x.old_h} : y.down[b] = x.down[b] \o <<Item("failed", m)>> BY <1>1, <2>2
    <3> DEFINE u == x.down[b]
               f == Item("failed", m)
               v == u \o <<f>>
    <3>2. u \in Seq(DownItem) BY <1>2
    <3>3. k \in DOMAIN v BY <2>2, <3>1
    <3>4. f.t = "failed" /\ f.n = m BY DEF Item
    <3> HIDE DEF u, f
    <3>5. (k \in DOMAIN u /\ v[k] = u[k]) \/ v[k] = f BY <3>2, <3>3
    <3> HIDE DEF v
    <3> QED BY <2>2, <3>1, <3>4, <3>5 DEF u, f, v
  <2> QED BY <2>1, <2>2
<1>5. b # c => x.down[b] = y.down[b] BY <1>1
<1>6. Counted(y, p, c, ph, s) BY <1>0, <1>1 DEF Counted
<1>7. Enabling(y, p, c, ph, FALSE)
  <2> SUFFICES ASSUME ~x.destroyed, ~p PROVE Enabling(y, p, c, ph, FALSE) BY <1>1 DEF Enabling
  <2>1. x.smacks = "on"
    <3>1. x.smacks # "nil" BY <1>0 DEF Enabling
    <3> QED BY <3>1, SoundIs
  <2> QED BY <1>0, <1>1, <2>1 DEF Enabling
<1>8. Asked(y, c, ph)
  <2>1. c # None => c \in Conn BY <1>3
  <2>2. c # None /\ y.owner[c] = "N" => \A k \in DOMAIN y.down[c] : y.down[c][k].t = "failed"
    BY <1>0, <1>1, <1>4, <2>1 DEF Asked
  <2>3. c # None /\ y.owner[c] = "S" => y.down[c] = x.down[c] BY <1>1, <2>1
  <2>4. ASSUME c # None, NEW k \in DOMAIN y.down[c], y.down[c][k].t = "resumed"
        PROVE  k \in DOMAIN x.down[c] /\ y.down[c][k] = x.down[c][k]
    BY <1>4, <2>1, <2>4
  <2> QED BY <1>0, <1>1, <2>2, <2>3, <2>4 DEF Asked
<1>9. Claims(y, n)
  <2>1. NoH <= n BY DEF NoH
  <2>2. x.old_h <= n BY <1>0 DEF Claims
  <2>3. y.old_h <= n BY <1>1, <2>1, <2>2
  <2>4. ASSUME NEW d \in Conn, NEW k \in DOMAIN y.down[d], y.down[d][k].t \in {"a", "resumed", "failed"}
        PROVE  y.down[d][k].n <= n
    <3>1. CASE k \in DOMAIN x.down[d] /\ y.down[d][k] = x.down[d][k] BY <1>0, <2>4, <3>1 DEF Claims
    <3>2. CASE y.down[d][k].n \in {NoH, x.old_h} BY <2>1, <2>2, <3>2
    <3> QED BY <1>4, <3>1, <3>2
  <2> QED BY <2>3, <2>4 DEF Claims
<1>10. Rising(y, c, i)
  <2> SUFFICES ASSUME x.conn = c, c # None PROVE Rising(y, c, i) BY <1>1 DEF Rising
  <2>1. h <= x.q.tail BY DEF c
  <2>2. y.q.tail = x.q.tail BY <1>1, <1>2, <2>1
  <2> QED BY <1>0, <1>1, <2>2 DEF Rising
<1>11. Cuts(y, p) BY <1>0, <1>1 DEF Cuts
<1>12. Ranges(y)
  <2>1. MaxOut \in Nat /\ MaxIn \in Nat BY SmacksAssumption
  <2>2. x.old_h \in Numbers /\ NoH \in Numbers BY <1>0, <2>1 DEF Ranges, Numbers
  <2>3. \A d \in Conn : Small(y.down[d]) BY <1>0, <1>4, <2>2 DEF Ranges, Small
  <2> QED BY <1>0, <1>1, <2>3 DEF Ranges
<1>13. ~y.destroyed => y.handled = n BY <1>0, <1>1
<1> QED BY <1>6, <1>7, <1>8, <1>9, <1>10, <1>11, <1>12, <1>13 DEF Up, c

(* S moves to connection b. *)
LEMMA UpMoved ==
  ASSUME Around, hist.out <= MaxOut, NEW x, Right(x), ~x.destroyed, NEW b \in Conn, x.owner[b] = "N", NEW y, Right(y), Moved(x, y, b),
         y.q.tail <= Len(cl.got), b = cl.conn => y.q.tail = Len(cl.got), NEW p, NEW ph, NEW s \in Nat, NEW n \in Nat, NEW i,
         Up(x, p, cl.conn, ph, s, n, i), i.t = "none", b = cl.conn => ph = "resuming" /\ x.down[b] = <<>>
  PROVE  Up(y, p, cl.conn, ph, s, n, i)
<1> DEFINE c == cl.conn
           w == CloseConn(x, x.conn)
           g == Len(cl.got)
<1>0. /\ Counted(x, p, c, ph, s) /\ Enabling(x, p, c, ph, FALSE) /\ Asked(x, c, ph)
      /\ Claims(x, n) /\ Rising(x, c, i) /\ Cuts(x, p) /\ Ranges(x)
      /\ x.handled = n
  BY DEF Up
<1>1. /\ y.smacks = x.smacks /\ y.destroyed = x.destroyed /\ y.handled = x.handled /\ y.old_h = x.old_h
      /\ y.conn = b
      /\ y.owner = [w.owner EXCEPT ![b] = "S"] /\ y.up = w.up
      /\ \A d \in Conn : d # b \/ b # c => y.down[d] = x.down[d]
      /\ b = c => \E r \in Seq(DownItem) :
            /\ y.down[b] = (IF x.closing THEN <<>> ELSE <<Item("resumed", x.handled)>>) \o r
            /\ \A k \in DOMAIN r : r[k].t = "stanza" /\ r[k].n \in 1..hist.out
  BY DEF Moved
<1>2. Sound(x) /\ Sound(y) BY DEF Right, Sound
<1>3. c \in Conn \union {None} /\ hist.out \in Nat /\ g \in Nat BY AroundIs
<1>4. x.conn # b /\ x.conn \in Conn \union {None} /\ x.handled \in Int /\ \A d \in Conn : x.owner[d] = "S" <=> x.conn = d
  BY <1>2, SoundIs DEF Sound, Owns
<1>5. b = c => ph = "resuming" OBVIOUS
<1>6. \A d \in Conn : Honest(y.up[d], g) BY DEF Right, Net
<1> HIDE DEF c, g
<1>7. \A d \in Conn : /\ w.owner[d] \in {x.owner[d], "none"} /\ (x.owner[d] = "S" => w.owner[d] = "none")
                      /\ w.up[d] \in {x.up[d], <<>>} /\ (d # x.conn => w.up[d] = x.up[d])
                      /\ w.owner \in [Conn -> {"none", "S", "N"}]
  <2>1. x \in Server BY <1>2 DEF Sound
  <2>2. x.owner \in [Conn -> {"none", "S", "N"}] /\ x.up \in [Conn -> Seq(UpItem)] BY <2>1 DEF Server
  <2>3. CASE x.conn = None
    <3>1. w = x BY <2>3 DEF CloseConn
    <3> QED BY <1>4, <2>2, <2>3, <3>1, NoneIsNoConn
  <2>4. CASE x.conn \in Conn
    <3>1. w.owner = [x.owner EXCEPT ![x.conn] = "none"] /\ w.up = [x.up EXCEPT ![x.conn] = <<>>]
      BY <2>1, <2>4, CloseIs
    <3> HIDE DEF w
    <3> QED BY <1>4, <2>2, <2>4, <3>1
  <2> QED BY <1>4, <2>3, <2>4
<1> HIDE DEF w
<1>8. \A d \in Conn : /\ d # b => y.owner[d] \in {x.owner[d], "none"} /\ y.owner[d] # "S"
                      /\ y.owner[b] = "S"
                      /\ y.up[d] \in {x.up[d], <<>>}
  <2> SUFFICES ASSUME NEW d \in Conn
               PROVE  /\ d # b => y.owner[d] \in {x.owner[d], "none"} /\ y.owner[d] # "S"
                      /\ y.owner[b] = "S"
                      /\ y.up[d] \in {x.up[d], <<>>}
    OBVIOUS
  <2>1. y.owner[b] = "S" BY <1>1, <1>7
  <2>2. d # b => y.owner[d] = w.owner[d] BY <1>1, <1>7
  <2>3. y.up[d] = w.up[d] BY <1>1
  <2>4. w.owner[d] \in {x.owner[d], "none"} /\ (x.owner[d] = "S" => w.owner[d] = "none") /\ w.up[d] \in {x.up[d], <<>>}
    BY <1>7
  <2> QED BY <2>1, <2>2, <2>3, <2>4
<1>9. y.up[b] = x.up[b] /\ \A k \in DOMAIN y.up[b] : y.up[b][k].t \in {"resume", "half"}
  <2>1. y.up[b] = x.up[b] BY <1>1, <1>4, <1>7
  <2> QED BY <1>0, <2>1 DEF Asked
<1>10. \A d \in Conn : \A k \in DOMAIN y.down[d] :
         \/ k \in DOMAIN x.down[d] /\ y.down[d][k] = x.down[d][k] /\ d # b
         \/ d = b /\ b # c /\ y.down[d] = x.down[d]
         \/ d = b /\ b = c /\ k = 1 /\ y.down[d][k].t = "resumed" /\ y.down[d][k].n = x.handled
         \/ d = b /\ b = c /\ y.down[d][k].t = "stanza" /\ y.down[d][k].n \in 1..hist.out
  <2> SUFFICES ASSUME NEW k \in DOMAIN y.down[b], b = c
               PROVE  \/ k = 1 /\ y.down[b][k].t = "resumed" /\ y.down[b][k].n = x.handled
                      \/ y.down[b][k].t = "stanza" /\ y.down[b][k].n \in 1..hist.out
    BY <1>1
  <2> DEFINE v == Item("resumed", x.handled)
             u == IF x.closing THEN <<>> ELSE <<v>>
  <2>1. PICK r \in Seq(DownItem) :
            /\ y.down[b] = u \o r
            /\ \A l \in DOMAIN r : r[l].t = "stanza" /\ r[l].n \in 1..hist.out
    BY <1>1
  <2>2. v.t = "resumed" /\ v.n = x.handled /\ v \in DownItem BY <1>4, ItemIs DEF Item
  <2> HIDE DEF v
  <2>3. u \in Seq(DownItem) /\ Len(u) \in {0, 1} /\ \A l \in DOMAIN u : l = 1 /\ u[l] = v BY <2>2
  <2> HIDE DEF u
  <2>4. \/ k \in DOMAIN u /\ (u \o r)[k] = u[k]
        \/ k - Len(u) \in DOMAIN r /\ (u \o r)[k] = r[k - Len(u)]
    BY <2>1, <2>3, ConcatItems
  <2> QED BY <2>1, <2>2, <2>3, <2>4
<1>11. Counted(y, p, c, ph, s)
  <2>1. ASSUME NEW d \in Conn, y.owner[d] = "S"
        PROVE  \E e \in x.handled..s : Carries(y.up[d], x.handled, e) /\ (d = c => e = IF ph = "resuming" THEN x.handled ELSE s)
    <3>1. d = b BY <1>8, <2>1
    <3>2. x.handled \in x.handled..s
      <4>1. x.handled <= s /\ x.handled \in Int BY <1>0, <1>4 DEF Counted
      <4>2. s \in Int OBVIOUS
      <4> QED BY <4>1, <4>2
    <3>3. Carries(y.up[b], x.handled, x.handled)
      <4>1. (x.handled + 1)..x.handled = {} BY <1>4
      <4> QED BY <1>9, <4>1 DEF Carries
    <3> QED BY <1>5, <3>1, <3>2, <3>3
  <2> QED BY <1>0, <1>1, <2>1 DEF Counted
<1>12. Enabling(y, p, c, ph, FALSE)
  <2> SUFFICES ASSUME ~p PROVE Enabling(y, p, c, ph, FALSE) BY DEF Enabling
  <2>1. x.smacks = "on" /\ ph # "bound"
    <3>1. x.smacks # "nil" BY <1>0 DEF Enabling
    <3> QED BY <1>0, <1>2, <3>1, SoundIs DEF Enabling
  <2>2. \A d \in Conn : y.owner[d] = "S" => Lacks(y.up[d], "enable") BY <1>8, <1>9 DEF Lacks
  <2> QED BY <1>1, <2>1, <2>2 DEF Enabling
<1>13. Asked(y, c, ph)
  <2>1. c # None => c \in Conn BY <1>3
  <2>2. \A d \in Conn : y.owner[d] = "N" => \A k \in DOMAIN y.up[d] : y.up[d][k].t \in {"resume", "half"}
    <3> SUFFICES ASSUME NEW d \in Conn, y.owner[d] = "N", NEW k \in DOMAIN y.up[d]
                 PROVE  y.up[d][k].t \in {"resume", "half"}
      OBVIOUS
    <3>1. x.owner[d] = "N" BY <1>8
    <3>2. y.up[d] = x.up[d]
      <4>1. k \in DOMAIN y.up[d] /\ DOMAIN <<>> = {} OBVIOUS
      <4> QED BY <1>8, <4>1
    <3> QED BY <1>0, <3>1, <3>2 DEF Asked
  <2>3. ASSUME c # None, y.owner[c] = "N"
        PROVE  /\ ph \in {"resuming", "fresh", "gone"}
               /\ y.up[c] # <<>> /\ y.up[c][1].t = "resume" => ph = "resuming"
               /\ \A k \in DOMAIN y.down[c] : y.down[c][k].t = "failed"
    <3>1. c # b /\ x.owner[c] = "N" BY <1>8, <2>1, <2>3
    <3>2. /\ ph \in {"resuming", "fresh", "gone"}
          /\ x.up[c] # <<>> /\ x.up[c][1].t = "resume" => ph = "resuming"
          /\ \A k \in DOMAIN x.down[c] : x.down[c][k].t = "failed"
      BY <1>0, <2>3, <3>1 DEF Asked
    <3> QED BY <1>1, <1>8, <2>1, <2>3, <3>1, <3>2
  <2>4. ASSUME c # None, y.owner[c] = "S" PROVE Lacks(y.down[c], "failed") /\ Lacks(y.down[c], "enabled")
    <3>1. c = b BY <1>8, <2>1, <2>4
    <3> QED BY <1>10, <3>1 DEF Lacks
  <2>5. ASSUME c # None, NEW k \in DOMAIN y.down[c], y.down[c][k].t = "resumed"
        PROVE  k = 1 /\ ph = "resuming" /\ (y.owner[c] = "S" => y.down[c][k].n = x.handled)
    <3>1. CASE c = b BY <1>5, <1>10, <2>1, <2>5, <3>1
    <3>2. CASE c # b
      <4>1. y.owner[c] # "S" /\ y.down[c] = x.down[c] BY <1>1, <1>8, <2>1, <2>5, <3>2
      <4> QED BY <1>0, <2>5, <4>1 DEF Asked
    <3> QED BY <3>1, <3>2
  <2> QED BY <1>1, <2>2, <2>3, <2>4, <2>5 DEF Asked
<1>14. Claims(y, n)
  <2>1. \A d \in Conn : \A k \in DOMAIN y.down[d] : y.down[d][k].t \in {"a", "resumed", "failed"} => y.down[d][k].n <= n
    BY <1>0, <1>10 DEF Claims
  <2> QED BY <1>0, <1>1, <2>1 DEF Claims
<1>15. Rising(y, c, i)
  <2> SUFFICES ASSUME b = c PROVE Rising(y, c, i) BY <1>1 DEF Rising
  <2>1. y.q.tail = g BY DEF c, g
  <2>2. \A k \in DOMAIN y.up[c] : y.up[c][k].t # "a" BY <1>9
  <2>3. \A d \in Conn : y.up[d] # <<>> /\ y.up[d][1].t = "resume" => y.up[d][1].n <= g
    <3> SUFFICES ASSUME NEW d \in Conn, y.up[d] # <<>>, y.up[d][1].t = "resume" PROVE y.up[d][1].n <= g OBVIOUS
    <3>1. y.up[d] \in Seq(UpItem) BY <1>2, SoundIs
    <3>2. 1 \in DOMAIN y.up[d] BY <3>1
    <3> QED BY <1>3, <1>6, <3>2 DEF Honest
  <2> QED BY <2>1, <2>2, <2>3 DEF Rising
<1>16. Cuts(y, p) BY <1>0, <1>8 DEF Cuts, Lacks
<1>17. Ranges(y)
  <2>1. MaxOut \in Nat /\ MaxIn \in Nat BY SmacksAssumption
  <2>2. \A m \in 1..hist.out : m \in Numbers BY <1>3, <2>1 DEF Numbers
  <2>3. x.handled \in Numbers BY <1>0, <2>1 DEF Ranges, Numbers
  <2>4. \A d \in Conn : Small(y.down[d]) BY <1>0, <1>10, <2>2, <2>3 DEF Ranges, Small
  <2>5. \A d \in Conn : Small(y.up[d]) BY <1>0, <1>8 DEF Ranges, Small
  <2> QED BY <1>0, <1>1, <2>4, <2>5 DEF Ranges
<1>18. y.handled = n BY <1>0, <1>1
<1> QED BY <1>11, <1>12, <1>13, <1>14, <1>15, <1>16, <1>17, <1>18 DEF Up, c

(* Data read. *)
LEMMA UpRead ==
  ASSUME SmacksInv, SmacksInv', UpInv, Calm', NEW b \in Conn, ReadChunk(b)
  PROVE  UpInv'
<1> DEFINE n == Len(hist.done)
           c == cl.conn
           e == Item("none", 0)
           w == [srv EXCEPT !.up[b] = Tail(@)]
           j == Head(srv.up[b])
<1>1. Idle /\ srv.owner[b] # "none" /\ srv.up[b] # <<>> /\ FeedItem(b) BY DEF ReadChunk
<1>2. inbox = <<>> /\ Pending = e
  <2>1. inbox = <<>> BY <1>1, CalmIdle DEF UpInv
  <2> QED BY <2>1, UpIs
<1>3. UNCHANGED <<cl, hist>> BY <1>1 DEF FeedItem
<1>4. \/ /\ srv.owner[b] = "N" /\ j.t = "resume"
         /\ srv' = handle_resume(w, b, j.n)
         /\ UNCHANGED <<inbox, partial>>
      \/ /\ srv.owner[b] = "S" /\ ~srv.destroyed /\ ~partial
         /\ srv' = count_incoming_stanzas(w, j)
         /\ inbox' = IF j.t = "half" THEN inbox ELSE Append(inbox, j)
         /\ partial' = (j.t = "half")
      \/ /\ srv.owner[b] = "S" => srv.destroyed \/ partial
         /\ srv' = w
         /\ UNCHANGED <<inbox, partial>>
  BY <1>1 DEF FeedItem
<1>5. /\ Right(srv) /\ Around /\ Sound(srv) /\ n \in Nat /\ c \in Conn \union {None}
      /\ Up(srv, partial, c, cl.phase, cl.sent, n, e)
      /\ Len(cl.got) \in Nat /\ hist.out \in Nat /\ Len(cl.got) <= hist.out /\ hist.out <= MaxOut
      /\ partial \in BOOLEAN /\ cl.sent \in Nat /\ cl.sent <= MaxIn
      /\ e.t = "none" /\ e.n \in Numbers
      /\ cl.acked <= n /\ ~hist.rejected
  BY <1>2, UpIs
<1>6. /\ Right(w) /\ Self(srv, w) /\ w.owner = srv.owner /\ w.conn = srv.conn /\ w.down = srv.down
      /\ j \in UpItem /\ (j.t \in {"a", "resume"} => j.n \in 0..Len(cl.got))
      /\ j.t = "resume" => srv.owner[b] # "S"
      /\ j.t = "resume" /\ b = cl.conn => j.n = Len(cl.got) /\ srv.down[b] = <<>>
      /\ w.up[b] = <<>> \/ w.up[b][1].t # "resume"
      /\ w.up[b] = Tail(srv.up[b]) /\ \A d \in Conn : d # b => w.up[d] = srv.up[d]
  <2>1. Around /\ Right(srv) /\ srv.up[b] # <<>> BY <1>1, <1>5
  <2> QED BY ONLY <2>1, b \in Conn, RightParsed, SMTT(60)
<1>7. Sound(srv') /\ (inbox' = <<>> => Pending' = e) BY SoundNext
<1> HIDE DEF w
<1>8. Parsed(srv, w, b) BY <1>1, <1>6 DEF Parsed, Kin, Self
<1>9. ASSUME Up(srv', partial, c, cl.phase, cl.sent, n, e), UNCHANGED <<inbox, partial>> PROVE UpInv'
  <2>1. Pending' = e BY <1>2, <1>7, <1>9
  <2>2. partial' => Pending'.t \in {"none", "expire"} BY <1>5, <2>1
  <2>3. Pending'.t # "stanza" /\ Pending'.n \in Numbers BY <1>5, <2>1
  <2> QED BY <1>3, <1>5, <1>9, <2>1, <2>2, <2>3, UpNext DEF n, c
<1>10. j = srv.up[b][1] /\ w \in Server /\ Sound(w)
  <2>1. Head(srv.up[b]) = srv.up[b][1] BY <1>5, <1>8, ParsedIs
  <2> QED BY <1>6, <2>1 DEF Right, Sound
<1> HIDE DEF j, e, n, c
<1>11. CASE srv.owner[b] = "N" /\ j.t = "resume" /\ srv' = handle_resume(w, b, j.n) /\ UNCHANGED <<inbox, partial>>
  <2>1. Up(w, partial, c, cl.phase, cl.sent, n, e) BY <1>5, <1>8, <1>11, UpSkipped
  <2>2. j.n \in Nat /\ j.n <= Len(cl.got) BY <1>5, <1>6, <1>11
  <2>3. b = cl.conn => j.n = Len(cl.got) /\ w.down[b] = <<>> BY <1>6, <1>11
  <2>4. w.owner[b] = "N" BY <1>6, <1>11
  <2>5. Refused(w, srv', b, j.n) \/ Accepted(w, srv', b, j.n) BY <1>5, <1>6, <1>11, <2>2, <2>3, <2>4, RightResumed
  <2>6. CASE Refused(w, srv', b, j.n)
    <3>1. w.conn = c /\ c # None => j.n <= w.q.tail
      <4> SUFFICES ASSUME srv.conn = c, c # None PROVE j.n <= srv.q.tail BY <1>6 DEF Self
      <4>1. c \in Conn /\ ~srv.destroyed BY <1>5, SoundIs
      <4>2. srv.owner[c] = "S" BY <1>5, <4>1 DEF Sound, Owns
      <4>3. b \in Conn \ {c} BY <1>11, <4>2
      <4> QED BY <1>1, <1>5, <1>10, <1>11, <4>3 DEF Up, Rising
    <3>2. Up(srv', partial, c, cl.phase, cl.sent, n, e) BY <1>5, <1>10, <2>1, <2>2, <2>4, <2>6, <3>1, UpRefused DEF c
    <3> QED BY <1>9, <1>11, <3>2
  <2>7. CASE Accepted(w, srv', b, j.n)
    <3>1. PICK f : /\ Right(f) /\ Moved(w, f, b) /\ f.q.tail = j.n /\ f.watchdog = "none"
                   /\ srv' = request_ack_now_if_needed(f, TRUE)
      BY <2>7 DEF Accepted
    <3>2. ~w.destroyed BY <2>7 DEF Accepted
    <3>3. b = c => cl.phase = "resuming"
      <4> SUFFICES ASSUME b = c PROVE cl.phase = "resuming" OBVIOUS
      <4>1. c # None BY NoneIsNoConn
      <4> QED BY <1>1, <1>5, <1>10, <1>11, <4>1 DEF Up, Asked
    <3>4. Up(f, partial, c, cl.phase, cl.sent, n, e)
      BY <1>5, <1>6, <2>1, <2>2, <2>3, <2>4, <3>1, <3>2, <3>3, UpMoved DEF c
    <3>5. Tame(f, srv') BY <1>5, <3>1, TameRequested
    <3>6. Sound(f) BY <3>1 DEF Right, Sound
    <3>7. Up(srv', partial, c, cl.phase, cl.sent, n, e) BY <1>5, <1>7, <3>4, <3>5, <3>6, UpTame DEF c
    <3> QED BY <1>9, <1>11, <3>7
  <2> QED BY <2>5, <2>6, <2>7
<1>12. CASE /\ srv.owner[b] = "S" /\ ~srv.destroyed /\ ~partial
            /\ srv' = count_incoming_stanzas(w, j)
            /\ inbox' = IF j.t = "half" THEN inbox ELSE Append(inbox, j)
            /\ partial' = (j.t = "half")
  <2> DEFINE k == IF j.t = "half" THEN Item("none", 0) ELSE j
  <2>1. Up(srv, FALSE, c, cl.phase, cl.sent, n, e) BY <1>5, <1>12
  <2>2. j.t # "resume" /\ srv.owner[b] = "S" /\ ~srv.destroyed BY <1>6, <1>12
  <2>3. /\ Up(count_incoming_stanzas(w, j), partial', c, cl.phase, cl.sent, n, k)
        /\ (j.t = "stanza" => j.n = n + 1) /\ j.n \in Numbers
    <3>1. (j.t = "stanza" => j.n = n + 1) /\ j.n \in Numbers
      <4>1. Head(srv.up[b]).n \in Numbers /\ (Head(srv.up[b]).t = "stanza" => Head(srv.up[b]).n = n + 1)
        BY <1>1, <1>5, <1>12, <2>2, UpFedNext
      <4> QED BY <4>1 DEF j
    <3>2. CASE j.t = "half"
      <4>1. Up(count_incoming_stanzas(w, j), TRUE, c, cl.phase, cl.sent, n, Item("none", 0))
        BY <1>5, <1>8, <1>10, <2>1, <2>2, <3>2, UpFedHalf DEF j
      <4>2. partial' = TRUE BY <1>12, <3>2
      <4> QED BY <3>1, <3>2, <4>1, <4>2
    <3>3. CASE j.t # "half"
      <4>1. Up(count_incoming_stanzas(w, j), FALSE, c, cl.phase, cl.sent, n, j)
        BY <1>5, <1>8, <1>10, <2>1, <2>2, <3>3, UpFedItem DEF j
      <4>2. partial' = FALSE BY <1>12, <3>3
      <4> QED BY <3>1, <3>3, <4>1, <4>2
    <3> QED BY <3>2, <3>3
  <2>4. Pending' = k
    <3>1. CASE j.t = "half" BY <1>2, <1>7, <1>12, <3>1 DEF e
    <3>2. CASE j.t # "half"
      <4>1. inbox' = Append(<<>>, j) BY <1>2, <1>12, <3>2
      <4>2. inbox' = <<j>> /\ Len(inbox') = 1 /\ inbox'[1] = j /\ Len(<<>>) = 0 BY <4>1, OnlyOne
      <4>3. inbox' # <<>> BY <4>2
      <4> QED BY <3>2, <4>2, <4>3 DEF Pending
    <3> QED BY <3>1, <3>2
  <2>5. k.n \in Numbers /\ (k.t = "stanza" => k.n = n + 1) BY <1>5, <2>3 DEF e
  <2>6. partial' => k.t = "none" BY <1>5, <1>12 DEF e
  <2>7. \A m \in DOMAIN hist.done : hist.done[m] = m BY DEF UpInv
  <2> HIDE DEF k
  <2> QED BY <1>3, <1>5, <1>12, <2>3, <2>4, <2>5, <2>6, <2>7 DEF UpInv, n, c
<1>13. CASE /\ srv.owner[b] = "S" => srv.destroyed \/ partial
            /\ srv' = w
            /\ UNCHANGED <<inbox, partial>>
  <2>1. Up(w, partial, c, cl.phase, cl.sent, n, e) BY <1>1, <1>5, <1>8, <1>13, UpSkipped
  <2> QED BY <1>9, <1>13, <2>1
<1> QED BY <1>4, <1>11, <1>12, <1>13

(* What y has on its way to the client, x has too; on connection c the     *)
(* first item was taken, at least.                                         *)
Shorter(x, y, c) ==
  /\ \A d \in Conn : d # c => y.down[d] = x.down[d]
  /\ \A k \in DOMAIN y.down[c] : \E l \in DOMAIN x.down[c] : l # 1 /\ y.down[c][k] = x.down[c][l]

(* What the client reads it need not be told again. *)
LEMMA UpShorter ==
  ASSUME NEW x, NEW y, NEW c \in Conn, Kin(x, y), Shorter(x, y, c), NEW n, NEW ph, Claims(x, n), Asked(x, c, ph), Ranges(x)
  PROVE  /\ Claims(y, n) /\ \A d \in Conn : Small(y.down[d])
         /\ \A k \in DOMAIN y.down[c] : y.down[c][k].t # "resumed"
         /\ x.owner[c] = "N" => \A k \in DOMAIN y.down[c] : y.down[c][k].t = "failed"
         /\ x.owner[c] = "S" => Lacks(y.down[c], "failed") /\ (ph = "resuming" => Lacks(y.down[c], "enabled"))
<1>1. c # None BY NoneIsNoConn
<1>2. \A d \in Conn : \A k \in DOMAIN y.down[d] : \E l \in DOMAIN x.down[d] : y.down[d][k] = x.down[d][l]
  BY DEF Shorter
<1>3. Claims(y, n) BY <1>2 DEF Claims, Kin
<1>4. \A d \in Conn : Small(y.down[d]) BY <1>2 DEF Ranges, Small
<1>5. \A k \in DOMAIN y.down[c] : \E l \in DOMAIN x.down[c] : l # 1 /\ y.down[c][k] = x.down[c][l] BY DEF Shorter
<1>6. \A k \in DOMAIN y.down[c] : y.down[c][k].t # "resumed" BY <1>1, <1>5 DEF Asked
<1>7. x.owner[c] = "N" => \A k \in DOMAIN y.down[c] : y.down[c][k].t = "failed" BY <1>1, <1>5 DEF Asked
<1>8. x.owner[c] = "S" => Lacks(y.down[c], "failed") /\ (ph = "resuming" => Lacks(y.down[c], "enabled"))
  BY <1>1, <1>5 DEF Asked, Lacks
<1> QED BY <1>3, <1>4, <1>6, <1>7, <1>8

(* The client reads what does not make it send anything. *)
LEMMA UpTook ==
  ASSUME NEW x, Sound(x), NEW y, NEW c \in Conn, Kin(x, y), y.up = x.up, Shorter(x, y, c),
         x.down[c] # <<>>, NEW ph, NEW qh, NEW p, NEW s, NEW n, NEW i, Up(x, p, c, ph, s, n, i), i.t = "none",
         \/ qh = ph
         \/ qh = "on" /\ Head(x.down[c]).t = "enabled"
         \/ qh = "fresh" /\ Head(x.down[c]).t = "failed" /\ (x.up[c] = <<>> \/ x.up[c][1].t # "resume")
  PROVE  Up(y, p, c, qh, s, n, i)
<1>0. /\ Counted(x, p, c, ph, s) /\ Enabling(x, p, c, ph, FALSE) /\ Asked(x, c, ph)
      /\ Claims(x, n) /\ Rising(x, c, i) /\ Cuts(x, p) /\ Ranges(x)
      /\ ~x.destroyed => x.handled = n
  BY DEF Up
<1>1. /\ y.smacks = x.smacks /\ y.destroyed = x.destroyed /\ y.handled = x.handled /\ y.old_h = x.old_h
      /\ y.conn = x.conn /\ y.owner = x.owner /\ y.q = x.q
  BY DEF Kin
<1>2. /\ Claims(y, n) /\ \A d \in Conn : Small(y.down[d])
      /\ \A k \in DOMAIN y.down[c] : y.down[c][k].t # "resumed"
      /\ x.owner[c] = "N" => \A k \in DOMAIN y.down[c] : y.down[c][k].t = "failed"
      /\ x.owner[c] = "S" => Lacks(y.down[c], "failed") /\ (ph = "resuming" => Lacks(y.down[c], "enabled"))
  BY <1>0, UpShorter
<1>3. 1 \in DOMAIN x.down[c] /\ Head(x.down[c]) = x.down[c][1] /\ c # None
  <2>1. x.down[c] \in Seq(DownItem) BY SoundIs
  <2> QED BY <2>1, NoneIsNoConn
<1>4. /\ qh = "on" /\ Head(x.down[c]).t = "enabled" => x.owner[c] # "N" /\ (x.owner[c] = "S" => ph # "resuming")
      /\ qh = "fresh" /\ Head(x.down[c]).t = "failed" => x.owner[c] # "S"
  BY <1>0, <1>3 DEF Asked, Lacks
<1>5. Counted(y, p, c, qh, s)
  <2>1. x.owner[c] = "S" => (qh = "resuming" <=> ph = "resuming") BY <1>4
  <2> QED BY <1>0, <1>1, <2>1 DEF Counted
<1>6. Enabling(y, p, c, qh, FALSE)
  <2> SUFFICES ASSUME ~x.destroyed, ~p PROVE Enabling(y, p, c, qh, FALSE) BY <1>1 DEF Enabling
  <2>1. CASE x.smacks = "on"
    <3>1. ph # "bound" /\ \A d \in Conn : x.owner[d] = "S" => Lacks(x.up[d], "enable") BY <1>0, <2>1 DEF Enabling
    <3> QED BY <1>1, <2>1, <3>1 DEF Enabling
  <2>2. CASE x.smacks = "nil"
    <3>1. /\ x.handled = 0 /\ ph \in {"bound", "enabling", "gone"} /\ c = x.conn
          /\ \A d \in Conn : x.owner[d] # "N" /\ (x.owner[d] = "S" => Offered(x, d, c, ph, FALSE))
      BY <1>0, <1>3, <2>2 DEF Enabling
    <3>2. x.owner[c] = "S" /\ \A d \in Conn : x.owner[d] = "S" => d = c BY <3>1 DEF Sound, Owns
    <3>3. Offered(x, c, c, ph, FALSE) BY <3>1, <3>2
    <3>4. Head(x.down[c]).t = "end" BY <1>3, <3>3 DEF Offered
    <3>5. qh = ph BY <3>4
    <3>6. \A k \in DOMAIN y.down[c] : y.down[c][k].t = "end" BY <3>3 DEF Offered, Shorter
    <3>7. Offered(y, c, c, ph, FALSE) BY <3>3, <3>6 DEF Offered
    <3> QED BY <1>1, <2>2, <3>1, <3>2, <3>5, <3>7 DEF Enabling
  <2> QED BY <2>1, <2>2, SoundIs
<1>7. Asked(y, c, qh)
  <2>1. \A d \in Conn : y.owner[d] = "N" => \A k \in DOMAIN y.up[d] : y.up[d][k].t \in {"resume", "half"}
    BY <1>0, <1>1 DEF Asked
  <2>2. x.owner[c] = "N" => /\ qh \in {"resuming", "fresh", "gone"}
                            /\ x.up[c] # <<>> /\ x.up[c][1].t = "resume" => qh = "resuming"
    BY <1>0, <1>3, <1>4 DEF Asked
  <2>3. x.owner[c] = "S" /\ qh = "resuming" => ph = "resuming" BY <1>4
  <2> QED BY <1>1, <1>2, <2>1, <2>2, <2>3 DEF Asked
<1>8. Rising(y, c, i) BY <1>0, <1>1 DEF Rising
<1>9. Cuts(y, p) BY <1>0 DEF Cuts
<1>10. Ranges(y) BY <1>0, <1>1, <1>2 DEF Ranges
<1> QED BY <1>0, <1>1, <1>2, <1>5, <1>6, <1>7, <1>8, <1>9, <1>10 DEF Up

(* y is x, with the items r on their way to the server on connection c,    *)
(* unless that is closed.                                                  *)
Carried(x, y, c, r) ==
  /\ Kin(x, y) /\ \A d \in Conn : d # c => y.up[d] = x.up[d]
  /\ y.up[c] = IF x.owner[c] = "none" THEN x.up[c] ELSE x.up[c] \o r

(* What the client sends. *)
LEMMA CarriedIs ==
  ASSUME NEW x \in Server, cl.conn \in Conn, NEW r \in Seq(UpItem)
  PROVE  /\ Carried(x, Deliver(x, r), cl.conn, r) /\ Deliver(x, r).down = x.down
         /\ Deliver(x, <<>>).up = x.up
<1> DEFINE c == cl.conn
           y == Deliver(x, r)
<1>1. x.up \in [Conn -> Seq(UpItem)] BY DEF Server
<1>2. CASE x.owner[c] = "none"
  <2>1. y = x /\ Deliver(x, <<>>) = x BY <1>2 DEF Deliver
  <2> QED BY <1>2, <2>1 DEF Carried, Kin
<1>3. CASE x.owner[c] # "none"
  <2>1. y = [x EXCEPT !.up[c] = @ \o r] /\ Deliver(x, <<>>) = [x EXCEPT !.up[c] = @ \o <<>>] BY <1>3 DEF Deliver
  <2>2. y.up = [x.up EXCEPT ![c] = @ \o r] /\ Deliver(x, <<>>).up = [x.up EXCEPT ![c] = @ \o <<>>]
    BY <2>1 DEF Server
  <2>3. x.up[c] \o <<>> = x.up[c] BY <1>1
  <2>4. [x.up EXCEPT ![c] = @ \o <<>>] = x.up BY <1>1, <2>3
  <2>5. Kin(x, y) /\ y.down = x.down BY <2>1 DEF Kin, Server
  <2>6. y.up[c] = x.up[c] \o r /\ \A d \in Conn : d # c => y.up[d] = x.up[d] BY <1>1, <2>2
  <2>7. Deliver(x, <<>>).up = x.up BY <2>2, <2>4
  <2>8. Carried(x, y, c, r) BY <1>3, <2>5, <2>6 DEF Carried
  <2> QED BY <2>5, <2>7, <2>8
<1> QED BY <1>2, <1>3

(* One item more. *)
LEMMA OneMore ==
  ASSUME NEW T, NEW s \in Seq(T), NEW j \in T
  PROVE  /\ DOMAIN (s \o <<j>>) = 1..(Len(s) + 1) /\ DOMAIN s = 1..Len(s) /\ Len(s) \in Nat
         /\ (s \o <<j>>)[Len(s) + 1] = j /\ \A k \in DOMAIN s : (s \o <<j>>)[k] = s[k]
         /\ \A k \in DOMAIN (s \o <<j>>) : (k \in DOMAIN s /\ (s \o <<j>>)[k] = s[k]) \/ (k = Len(s) + 1 /\ (s \o <<j>>)[k] = j)
<1> DEFINE u == s \o <<j>>
<1>1. /\ DOMAIN u = 1..(Len(s) + 1) /\ DOMAIN s = 1..Len(s) /\ Len(s) \in Nat
      /\ u[Len(s) + 1] = j /\ \A k \in DOMAIN s : u[k] = s[k]
  OBVIOUS
<1> HIDE DEF u
<1> QED BY <1>1 DEF u

(* The client sends one item. *)
LEMMA UpSends ==
  ASSUME NEW x, Sound(x), NEW y, NEW c \in Conn, NEW j \in UpItem, Carried(x, y, c, <<j>>), y.down = x.down,
         x.owner[c] # "N", NEW ph, NEW qh, NEW p, NEW s \in Nat, NEW t, NEW n, NEW i,
         Up(x, p, c, ph, s, n, i), i.t = "none", j.n \in Numbers, j.t \in {"stanza", "a", "r", "enable", "close"},
         IF j.t = "stanza" THEN j.n = s + 1 /\ t = s + 1 /\ ph # "resuming" ELSE t = s,
         \/ qh = ph /\ j.t # "enable" /\ (~x.destroyed /\ ~p /\ x.smacks = "nil" => ph # "bound")
         \/ ph = "bound" /\ qh = "enabling" /\ j.t = "enable"
         \/ ph = "on" /\ qh = "gone" /\ j.t # "enable",
         j.t = "a" /\ x.conn = c => x.q.tail <= j.n /\ \A k \in DOMAIN x.up[c] : x.up[c][k].t = "a" => x.up[c][k].n <= j.n
  PROVE  Up(y, p, c, qh, t, n, i)
<1> DEFINE u == x.up[c]
           v == u \o <<j>>
<1>0. /\ Counted(x, p, c, ph, s) /\ Enabling(x, p, c, ph, FALSE) /\ Asked(x, c, ph)
      /\ Claims(x, n) /\ Rising(x, c, i) /\ Cuts(x, p) /\ Ranges(x)
      /\ ~x.destroyed => x.handled = n
  BY DEF Up
<1>1. /\ y.smacks = x.smacks /\ y.destroyed = x.destroyed /\ y.handled = x.handled /\ y.old_h = x.old_h
      /\ y.conn = x.conn /\ y.owner = x.owner /\ y.q = x.q /\ y.down = x.down
      /\ \A d \in Conn : d # c => y.up[d] = x.up[d]
      /\ x.owner[c] = "none" => y.up[c] = u
      /\ x.owner[c] = "S" => y.up[c] = v
  <2>1. x.owner[c] \in {"none", "S"} BY SoundIs
  <2> QED BY <2>1 DEF Kin, Carried
<1>2. /\ u \in Seq(UpItem) /\ c # None /\ x.handled \in Int /\ x.q.tail \in Nat
      /\ x.smacks \in {"nil", "on"} /\ x.owner[c] \in {"none", "S"}
  BY SoundIs, NoneIsNoConn
<1>3. /\ DOMAIN v = 1..(Len(u) + 1) /\ DOMAIN u = 1..Len(u) /\ Len(u) \in Nat
      /\ v[Len(u) + 1] = j /\ \A k \in DOMAIN u : v[k] = u[k]
      /\ \A k \in DOMAIN v : (k \in DOMAIN u /\ v[k] = u[k]) \/ (k = Len(u) + 1 /\ v[k] = j)
  <2> HIDE DEF u
  <2> QED BY <1>2, OneMore
<1>4. \A d \in Conn : /\ x.owner[d] = "N" => y.up[d] = x.up[d]
                      /\ \A k \in DOMAIN y.up[d] : \/ k \in DOMAIN x.up[d] /\ y.up[d][k] = x.up[d][k]
                                                   \/ d = c /\ x.owner[d] = "S" /\ y.up[d][k] = j
  <2> HIDE DEF u, v
  <2> SUFFICES ASSUME NEW d \in Conn
               PROVE  /\ x.owner[d] = "N" => y.up[d] = x.up[d]
                      /\ \A k \in DOMAIN y.up[d] : \/ k \in DOMAIN x.up[d] /\ y.up[d][k] = x.up[d][k]
                                                   \/ d = c /\ x.owner[d] = "S" /\ y.up[d][k] = j
    OBVIOUS
  <2>1. CASE d # c
    <3>1. y.up[d] = x.up[d] BY <1>1, <2>1
    <3> QED BY <3>1
  <2>2. CASE d = c
    <3>1. x.owner[d] # "N" BY <1>2, <2>2
    <3>2. CASE x.owner[c] = "none"
      <4>1. y.up[d] = x.up[d] BY <1>1, <2>2, <3>2 DEF u
      <4> QED BY <3>1, <4>1
    <3>3. CASE x.owner[c] = "S"
      <4>1. y.up[d] = v BY <1>1, <2>2, <3>3
      <4>2. u = x.up[d] BY <2>2 DEF u
      <4> QED BY <1>3, <2>2, <3>1, <3>3, <4>1, <4>2
    <3> QED BY <1>2, <3>2, <3>3
  <2> QED BY <2>1, <2>2
<1> HIDE DEF u, v
<1>5. t \in Nat /\ s <= t OBVIOUS
<1>6. qh = "resuming" <=> ph = "resuming" OBVIOUS
<1>7. Counted(y, p, c, qh, t)
  <2> SUFFICES ASSUME ~x.destroyed PROVE Counted(y, p, c, qh, t) BY <1>1 DEF Counted
  <2>1. x.handled <= t
    <3>1. x.handled <= s BY <1>0 DEF Counted
    <3> QED BY <1>2, <1>5, <3>1
  <2>2. ASSUME NEW d \in Conn, x.owner[d] = "S", ~p
        PROVE  \E e \in x.handled..t : Carries(y.up[d], x.handled, e) /\ (d = c => e = IF qh = "resuming" THEN x.handled ELSE t)
    <3>1. PICK e \in x.handled..s : Carries(x.up[d], x.handled, e) /\ (d = c => e = IF ph = "resuming" THEN x.handled ELSE s)
      BY <1>0, <2>2 DEF Counted
    <3>2. e \in x.handled..t BY <1>2, <1>5, <3>1
    <3>3. x.handled \in Nat /\ e \in Nat /\ x.handled <= e
      <4>1. x.handled \in 0..MaxIn BY <1>0 DEF Ranges
      <4>2. x.handled \in Nat BY <4>1, SmacksAssumption
      <4> QED BY <3>1, <4>2
    <3>4. CASE d # c BY <1>1, <3>1, <3>2, <3>4
    <3>5. CASE d = c /\ j.t = "stanza"
      <4>1. e = s /\ ph # "resuming" BY <3>1, <3>5
      <4>2. Carries(v, x.handled, s + 1) BY <1>2, <3>1, <3>3, <3>5, <4>1, CarriesNext DEF u, v
      <4>3. y.up[d] = v /\ t = s + 1 /\ t \in x.handled..t BY <1>1, <2>2, <3>3, <3>5, <4>1
      <4> QED BY <1>6, <4>1, <4>2, <4>3
    <3>6. CASE d = c /\ j.t # "stanza"
      <4>1. Carries(v, x.handled, e) BY <1>2, <3>1, <3>3, <3>6, CarriesOther DEF u, v
      <4>2. y.up[d] = v /\ t = s BY <1>1, <2>2, <3>6
      <4> QED BY <1>6, <3>1, <3>2, <4>1, <4>2
    <3> QED BY <3>4, <3>5, <3>6
  <2> QED BY <1>1, <2>1, <2>2 DEF Counted
<1>8. Enabling(y, p, c, qh, FALSE)
  <2> SUFFICES ASSUME ~x.destroyed, ~p PROVE Enabling(y, p, c, qh, FALSE) BY <1>1 DEF Enabling
  <2>1. CASE x.smacks = "on"
    <3>1. ph # "bound" /\ \A d \in Conn : x.owner[d] = "S" => Lacks(x.up[d], "enable") BY <1>0, <2>1 DEF Enabling
    <3>2. j.t # "enable" /\ qh # "bound" BY <3>1
    <3>3. \A d \in Conn : x.owner[d] = "S" => Lacks(y.up[d], "enable") BY <1>4, <3>1, <3>2 DEF Lacks
    <3> QED BY <1>1, <2>1, <3>2, <3>3 DEF Enabling
  <2>2. CASE x.smacks = "nil"
    <3>1. /\ x.handled = 0 /\ ph \in {"bound", "enabling", "gone"} /\ c = x.conn
          /\ \A d \in Conn : x.owner[d] # "N" /\ (x.owner[d] = "S" => Offered(x, d, c, ph, FALSE))
      BY <1>0, <1>2, <2>2 DEF Enabling
    <3>2. x.owner[c] = "S" /\ \A d \in Conn : x.owner[d] = "S" => d = c BY <3>1 DEF Sound, Owns
    <3>3. /\ \A k \in DOMAIN x.down[c] : x.down[c][k].t = "end"
          /\ \/ /\ ph # "bound" /\ u # <<>> /\ u[1].t = "enable"
                /\ \A k \in DOMAIN u : k > 1 => u[k].t # "enable"
             \/ ph = "bound" /\ u = <<>>
      BY <3>1, <3>2 DEF Offered, u
    <3>4. y.up[c] = v BY <1>1, <3>2
    <3>5. CASE ph # "bound"
      <4>1. qh = ph /\ j.t # "enable" BY <3>1, <3>5
      <4>2. 1 \in DOMAIN u BY <1>2, <3>3, <3>5
      <4>3. v # <<>> /\ v[1] = u[1] /\ \A k \in DOMAIN v : k > 1 => v[k].t # "enable"
        <5>1. 1 \in DOMAIN v BY <1>3
        <5>2. v # <<>> BY <5>1
        <5> QED BY <1>3, <3>3, <3>5, <4>1, <4>2, <5>2
      <4>4. Offered(y, c, c, qh, FALSE) BY <1>1, <3>3, <3>4, <3>5, <4>1, <4>3 DEF Offered
      <4> QED BY <1>1, <2>2, <3>1, <3>2, <4>1, <4>4 DEF Enabling
    <3>6. CASE ph = "bound"
      <4>1. qh = "enabling" /\ j.t = "enable" /\ u = <<>> BY <2>2, <3>3, <3>6
      <4>2. Len(u) = 0 /\ u = <<>> BY <4>1
      <4>3. v[1] = j /\ \A k \in DOMAIN v : k = 1 BY <1>3, <4>2
      <4>4. v # <<>>
        <5>1. 1 \in DOMAIN v BY <1>3
        <5> QED BY <5>1
      <4>5. Offered(y, c, c, qh, FALSE) BY <1>1, <3>3, <3>4, <4>1, <4>3, <4>4 DEF Offered
      <4> QED BY <1>1, <2>2, <3>1, <3>2, <4>1, <4>5 DEF Enabling
    <3> QED BY <3>5, <3>6
  <2> QED BY <1>2, <2>1, <2>2
<1>9. Asked(y, c, qh)
  <2>1. \A d \in Conn : y.owner[d] = "N" => \A k \in DOMAIN y.up[d] : y.up[d][k].t \in {"resume", "half"}
    BY <1>0, <1>1, <1>4 DEF Asked
  <2> QED BY <1>0, <1>1, <1>2, <1>6, <2>1 DEF Asked
<1>10. Claims(y, n) BY <1>0, <1>1 DEF Claims
<1>11. Rising(y, c, i)
  <2> SUFFICES ASSUME x.conn = c PROVE Rising(y, c, i) BY <1>1 DEF Rising
  <2>1. /\ \A k \in DOMAIN u : u[k].t = "a" => x.q.tail <= u[k].n
        /\ \A k, l \in DOMAIN u : k < l /\ u[k].t = "a" /\ u[l].t = "a" => u[k].n <= u[l].n
        /\ \A d \in Conn \ {c} : x.owner[d] = "N" /\ x.up[d] # <<>> /\ x.up[d][1].t = "resume" => x.up[d][1].n <= x.q.tail
    BY <1>0, <1>2 DEF Rising, u
  <2>2. \A d \in Conn \ {c} : y.owner[d] = "N" /\ y.up[d] # <<>> /\ y.up[d][1].t = "resume" => y.up[d][1].n <= y.q.tail
    BY <1>1, <2>1
  <2>3. CASE x.owner[c] = "none" BY <1>1, <2>1, <2>2, <2>3 DEF Rising
  <2>4. CASE x.owner[c] = "S"
    <3>1. y.up[c] = v BY <1>1, <2>4
    <3>2. \A k \in DOMAIN v : v[k].t = "a" => x.q.tail <= v[k].n BY <1>3, <2>1
    <3>3. \A k, l \in DOMAIN v : k < l /\ v[k].t = "a" /\ v[l].t = "a" => v[k].n <= v[l].n
      <4> SUFFICES ASSUME NEW k \in DOMAIN v, NEW l \in DOMAIN v, k < l, v[k].t = "a", v[l].t = "a"
                   PROVE  v[k].n <= v[l].n
        OBVIOUS
      <4>1. k \in DOMAIN u /\ v[k] = u[k] BY <1>3
      <4>2. CASE l \in DOMAIN u /\ v[l] = u[l] BY <2>1, <4>1, <4>2
      <4>3. CASE v[l] = j BY <4>1, <4>3 DEF u
      <4> QED BY <1>3, <4>2, <4>3
    <3> QED BY <1>1, <2>2, <3>1, <3>2, <3>3 DEF Rising
  <2> QED BY <1>2, <2>3, <2>4
<1>12. Cuts(y, p) BY <1>0, <1>4 DEF Cuts, Lacks
<1>13. Ranges(y)
  <2>1. \A d \in Conn : Small(y.up[d]) BY <1>0, <1>4 DEF Ranges, Small
  <2> QED BY <1>0, <1>1, <2>1 DEF Ranges
<1> QED BY <1>0, <1>1, <1>7, <1>8, <1>9, <1>10, <1>11, <1>12, <1>13 DEF Up

(* The client is gone from its connection; what it sent last may have been *)
(* cut off.                                                                *)
LEMMA UpLeft ==
  ASSUME NEW x, Sound(x), NEW y, NEW c \in Conn, Kin(x, y), Shorter(x, y, c),
         \A d \in Conn : d # c => y.up[d] = x.up[d],
         y.up[c] = x.up[c] \/ (MayCut /\ y.up[c] = x.up[c] \o <<Item("half", 0)>>),
         NEW ph, NEW qh, NEW p, NEW s, NEW n, NEW i, Up(x, p, c, ph, s, n, i), i.t = "none",
         qh = IF ph \in {"on", "resuming"} THEN "off" ELSE "gone"
  PROVE  Up(y, p, None, qh, s, n, i)
<1> DEFINE u == x.up[c]
           j == Item("half", 0)
           v == u \o <<j>>
<1>0. /\ Counted(x, p, c, ph, s) /\ Enabling(x, p, c, ph, FALSE) /\ Asked(x, c, ph)
      /\ Claims(x, n) /\ Rising(x, c, i) /\ Cuts(x, p) /\ Ranges(x)
      /\ ~x.destroyed => x.handled = n
  BY DEF Up
<1>1. /\ y.smacks = x.smacks /\ y.destroyed = x.destroyed /\ y.handled = x.handled /\ y.old_h = x.old_h
      /\ y.conn = x.conn /\ y.owner = x.owner /\ y.q = x.q
  BY DEF Kin
<1>2. /\ u \in Seq(UpItem) /\ c # None /\ None \notin Conn /\ x.handled \in Int /\ x.smacks \in {"nil", "on"}
  BY SoundIs, NoneIsNoConn
<1>3. j \in UpItem /\ j.t = "half" /\ j.n = 0 BY UpItemIs DEF Item
<1> HIDE DEF j
<1>4. /\ DOMAIN v = 1..(Len(u) + 1) /\ DOMAIN u = 1..Len(u) /\ Len(u) \in Nat
      /\ v[Len(u) + 1] = j /\ \A k \in DOMAIN u : v[k] = u[k]
      /\ \A k \in DOMAIN v : (k \in DOMAIN u /\ v[k] = u[k]) \/ (k = Len(u) + 1 /\ v[k] = j)
  <2> HIDE DEF u
  <2> QED BY <1>2, <1>3, OneMore
<1>5. y.up[c] = u \/ (MayCut /\ y.up[c] = v) BY DEF j
<1>6. \A d \in Conn : \A k \in DOMAIN y.up[d] : \/ k \in DOMAIN x.up[d] /\ y.up[d][k] = x.up[d][k]
                                                \/ MayCut /\ y.up[d][k] = j
  <2> HIDE DEF v
  <2> QED BY <1>4, <1>5
<1>7. Claims(y, n) /\ \A d \in Conn : Small(y.down[d]) BY <1>0, UpShorter
<1> HIDE DEF u, v
<1>8. Counted(y, p, None, qh, s)
  <2> SUFFICES ASSUME ~x.destroyed PROVE Counted(y, p, None, qh, s) BY <1>1 DEF Counted
  <2>1. x.handled <= s BY <1>0 DEF Counted
  <2>2. ASSUME NEW d \in Conn, x.owner[d] = "S", ~p PROVE \E e \in x.handled..s : Carries(y.up[d], x.handled, e)
    <3>1. PICK e \in x.handled..s : Carries(x.up[d], x.handled, e) BY <1>0, <2>2 DEF Counted
    <3>2. CASE y.up[d] = x.up[d] BY <3>1, <3>2
    <3>3. CASE d = c /\ y.up[d] = v
      <4>1. x.handled \in Nat /\ e \in Nat
        <5>1. x.handled \in 0..MaxIn BY <1>0 DEF Ranges
        <5>2. x.handled \in Nat BY <5>1, SmacksAssumption
        <5> QED BY <3>1, <5>2
      <4>2. Carries(v, x.handled, e) BY <1>2, <1>3, <3>1, <3>3, <4>1, CarriesOther DEF u, v
      <4> QED BY <3>1, <3>3, <4>2
    <3> QED BY <1>5, <3>2, <3>3 DEF u
  <2> QED BY <1>1, <1>2, <2>1, <2>2 DEF Counted
<1>9. Enabling(y, p, None, qh, FALSE)
  <2> SUFFICES ASSUME ~x.destroyed, ~p PROVE Enabling(y, p, None, qh, FALSE) BY <1>1 DEF Enabling
  <2>1. CASE x.smacks = "on"
    <3>1. \A d \in Conn : x.owner[d] = "S" => Lacks(x.up[d], "enable") BY <1>0, <2>1 DEF Enabling
    <3>2. \A d \in Conn : x.owner[d] = "S" => Lacks(y.up[d], "enable") BY <1>3, <1>6, <3>1 DEF Lacks
    <3> QED BY <1>1, <2>1, <3>2 DEF Enabling
  <2>2. CASE x.smacks = "nil"
    <3>1. /\ x.handled = 0 /\ ph \in {"bound", "enabling", "gone"} /\ c = x.conn
          /\ \A d \in Conn : x.owner[d] # "N" /\ (x.owner[d] = "S" => Offered(x, d, c, ph, FALSE))
      BY <1>0, <1>2, <2>2 DEF Enabling
    <3>2. x.owner[c] = "S" /\ \A d \in Conn : x.owner[d] = "S" => d = c BY <3>1 DEF Sound, Owns
    <3>3. qh = "gone"
      <4>1. ph \notin {"on", "resuming"} BY ONLY <3>1, SMTT(60)
      <4> QED BY ONLY <4>1, qh = IF ph \in {"on", "resuming"} THEN "off" ELSE "gone"
    <3>4. /\ \A k \in DOMAIN x.down[c] : x.down[c][k].t = "end"
          /\ \/ /\ u # <<>> /\ u[1].t = "enable"
                /\ \A k \in DOMAIN u : k > 1 => u[k].t # "enable"
             \/ u = <<>>
      BY <3>1, <3>2 DEF Offered, u
    <3>5. \A k \in DOMAIN y.down[c] : y.down[c][k].t = "end" BY <3>4 DEF Shorter
    <3>6. CASE u # <<>>
      <4>1. 1 \in DOMAIN u BY <1>2, <3>6
      <4>2. v # <<>> /\ v[1] = u[1]
        <5>1. 1 \in DOMAIN v BY <1>4
        <5>2. v # <<>> BY <5>1
        <5> QED BY <1>4, <4>1, <5>2
      <4>3. \A k \in DOMAIN v : k > 1 => v[k].t # "enable" BY <1>3, <1>4, <3>4, <3>6
      <4>4. y.up[c] # <<>> /\ y.up[c][1].t = "enable" /\ \A k \in DOMAIN y.up[c] : k > 1 => y.up[c][k].t # "enable"
        BY <1>5, <3>4, <3>6, <4>2, <4>3
      <4>5. Offered(y, c, None, qh, FALSE) BY <3>3, <3>5, <4>4 DEF Offered
      <4>6. /\ \A d \in Conn : y.owner[d] # "N" /\ (y.owner[d] = "S" => d = c)
            /\ y.handled = 0 /\ y.smacks = "nil"
        BY <1>1, <2>2, <3>1, <3>2
      <4> QED BY <3>3, <4>5, <4>6 DEF Enabling
    <3>7. CASE u = <<>>
      <4>1. DOMAIN u = {} BY <3>7
      <4>2. \A k \in DOMAIN y.up[c] : y.up[c][k] = j BY <1>6, <4>1 DEF u
      <4>3. Lacks(y.up[c], "stanza") /\ Lacks(y.up[c], "enable") BY <1>3, <4>2 DEF Lacks
      <4>4. Offered(y, c, None, qh, FALSE) BY <1>2, <3>3, <3>5, <4>3 DEF Offered
      <4>5. /\ \A d \in Conn : y.owner[d] # "N" /\ (y.owner[d] = "S" => d = c)
            /\ y.handled = 0 /\ y.smacks = "nil"
        BY <1>1, <2>2, <3>1, <3>2
      <4> QED BY <3>3, <4>4, <4>5 DEF Enabling
    <3> QED BY <3>6, <3>7
  <2> QED BY <1>2, <2>1, <2>2
<1>10. Asked(y, None, qh)
  <2>1. \A d \in Conn : y.owner[d] = "N" => \A k \in DOMAIN y.up[d] : y.up[d][k].t \in {"resume", "half"}
    <3>1. \A d \in Conn : x.owner[d] = "N" => \A k \in DOMAIN x.up[d] : x.up[d][k].t \in {"resume", "half"}
      BY <1>0 DEF Asked
    <3>2. y.owner = x.owner BY <1>1
    <3> QED BY <1>3, <1>6, <3>1, <3>2
  <2> QED BY <2>1 DEF Asked
<1>11. Rising(y, None, i) BY DEF Rising
<1>12. Cuts(y, p) BY <1>0, <1>6 DEF Cuts, Lacks
<1>13. Ranges(y)
  <2>1. j.n \in Numbers BY <1>3, SmacksAssumption DEF Numbers
  <2>2. \A d \in Conn : Small(y.up[d]) BY <1>0, <1>6, <2>1 DEF Ranges, Small
  <2> QED BY <1>0, <1>1, <1>7, <2>2 DEF Ranges
<1> QED BY <1>0, <1>1, <1>7, <1>8, <1>9, <1>10, <1>11, <1>12, <1>13 DEF Up

(* The client asks to resume on a connection of its own. *)
LEMMA UpAsks ==
  ASSUME NEW x, Sound(x), NEW y, NEW b \in Conn, NEW a, NEW h \in Numbers,
         x.owner[b] = "none", x.down[b] = <<>>,
         y = [x EXCEPT !.owner[b] = "N", !.up[b] = <<Item("resume", h)>>],
         NEW p, NEW s, NEW n, NEW i, Up(x, p, a, "off", s, n, i), i.t = "none"
  PROVE  Up(y, p, b, "resuming", s, n, i)
<1> DEFINE j == Item("resume", h)
<1>0. /\ Counted(x, p, a, "off", s) /\ Enabling(x, p, a, "off", FALSE) /\ Asked(x, a, "off")
      /\ Claims(x, n) /\ Cuts(x, p) /\ Ranges(x)
      /\ ~x.destroyed => x.handled = n
  BY DEF Up
<1>1. x \in Server BY DEF Sound
<1>2. j.t = "resume" /\ j.n = h BY DEF Item
<1>3. /\ y.smacks = x.smacks /\ y.destroyed = x.destroyed /\ y.handled = x.handled /\ y.old_h = x.old_h
      /\ y.conn = x.conn /\ y.q = x.q /\ y.down = x.down
      /\ y.owner = [x.owner EXCEPT ![b] = "N"] /\ y.up = [x.up EXCEPT ![b] = <<j>>]
  BY <1>1 DEF Server
<1>4. x.owner \in [Conn -> {"none", "S", "N"}] /\ x.up \in [Conn -> Seq(UpItem)] BY <1>1 DEF Server
<1> HIDE DEF j
<1>5. /\ y.owner[b] = "N" /\ y.up[b] = <<j>> /\ b # None
      /\ \A d \in Conn : d # b => y.owner[d] = x.owner[d] /\ y.up[d] = x.up[d]
  BY <1>3, <1>4, NoneIsNoConn
<1>6. y.up[b][1] = j /\ \A k \in DOMAIN y.up[b] : y.up[b][k] = j BY <1>5
<1>7. DOMAIN y.down[b] = {} BY <1>3
<1>8. Counted(y, p, b, "resuming", s)
  <2>1. \A d \in Conn : y.owner[d] = "S" => d # b /\ x.owner[d] = "S" /\ y.up[d] = x.up[d] BY <1>5
  <2> QED BY <1>0, <1>3, <2>1 DEF Counted
<1>9. Enabling(y, p, b, "resuming", FALSE)
  <2> SUFFICES ASSUME ~x.destroyed, ~p PROVE Enabling(y, p, b, "resuming", FALSE) BY <1>3 DEF Enabling
  <2>1. x.smacks = "on"
    <3>1. x.smacks # "nil" BY <1>0 DEF Enabling
    <3> QED BY <3>1, SoundIs
  <2>2. \A d \in Conn : x.owner[d] = "S" => Lacks(x.up[d], "enable") BY <1>0, <2>1 DEF Enabling
  <2>3. \A d \in Conn : y.owner[d] = "S" => Lacks(y.up[d], "enable") BY <1>5, <2>2
  <2> QED BY <1>3, <2>1, <2>3 DEF Enabling
<1>10. Asked(y, b, "resuming")
  <2>1. \A d \in Conn : y.owner[d] = "N" => \A k \in DOMAIN y.up[d] : y.up[d][k].t \in {"resume", "half"}
    <3> SUFFICES ASSUME NEW d \in Conn, y.owner[d] = "N", NEW k \in DOMAIN y.up[d]
                 PROVE  y.up[d][k].t \in {"resume", "half"}
      OBVIOUS
    <3>1. CASE d = b BY <1>2, <1>6, <3>1
    <3>2. CASE d # b BY <1>0, <1>5, <3>2 DEF Asked
    <3> QED BY <3>1, <3>2
  <2> QED BY <1>5, <1>7, <2>1 DEF Asked
<1>11. Claims(y, n) BY <1>0, <1>3 DEF Claims
<1>12. Rising(y, b, i)
  <2> SUFFICES ASSUME x.conn = b PROVE FALSE BY <1>3 DEF Rising
  <2>1. ~x.destroyed BY <1>5, SoundIs
  <2> QED BY <2>1 DEF Sound, Owns
<1>13. Cuts(y, p)
  <2>1. Lacks(y.up[b], "half") BY <1>2, <1>6 DEF Lacks
  <2>2. \A d \in Conn : Lacks(x.up[d], "half") => Lacks(y.up[d], "half") BY <1>5, <2>1
  <2> QED BY <1>0, <2>2 DEF Cuts
<1>14. Ranges(y)
  <2>1. Small(y.up[b]) BY <1>2, <1>6 DEF Small
  <2>2. \A d \in Conn : Small(y.up[d]) BY <1>0, <1>5, <2>1 DEF Ranges
  <2> QED BY <1>0, <1>3, <2>2 DEF Ranges
<1> QED BY <1>0, <1>3, <1>8, <1>9, <1>10, <1>11, <1>12, <1>13, <1>14 DEF Up

(* After a refused resumption the client starts again. *)
LEMMA UpRebound ==
  ASSUME NEW x, NEW p, NEW c, NEW s, NEW n, NEW i, Up(x, p, c, "fresh", s, n, i), Sound(x), i.t = "none"
  PROVE  Up(x, p, c, "gone", s, n, i)
<1>0. /\ Counted(x, p, c, "fresh", s) /\ Enabling(x, p, c, "fresh", FALSE) /\ Asked(x, c, "fresh")
      /\ Claims(x, n) /\ Rising(x, c, i) /\ Cuts(x, p) /\ Ranges(x)
      /\ ~x.destroyed => x.handled = n
  BY DEF Up
<1>1. Counted(x, p, c, "gone", s) BY <1>0 DEF Counted
<1>2. Enabling(x, p, c, "gone", FALSE) BY <1>0 DEF Enabling
<1>3. Asked(x, c, "gone") BY <1>0 DEF Asked
<1> QED BY <1>0, <1>1, <1>2, <1>3 DEF Up

(* The stanzas from h + 1 on, of the s that were sent. *)
Repeats(r, h, s) ==
  DOMAIN r = 1..(s - h) /\ \A k \in DOMAIN r : r[k].t = "stanza" /\ r[k].n = h + k

(* The client learns what was counted and sends the rest again. *)
LEMMA UpRepeats ==
  ASSUME NEW x, Sound(x), NEW y, NEW c \in Conn, x.down[c] # <<>>, Head(x.down[c]).t = "resumed",
         Shorter(x, y, c), NEW r \in Seq(UpItem), NEW s \in Nat, s <= MaxIn,
         Repeats(r, Head(x.down[c]).n, s), Carried(x, y, c, r),
         NEW p, NEW ph, NEW n, NEW i, Up(x, p, c, ph, s, n, i), i.t = "none"
  PROVE  Up(y, p, c, "on", s, n, i)
<1> DEFINE j == Head(x.down[c])
           u == x.up[c]
           v == u \o r
           h == x.handled
<1>0. /\ Counted(x, p, c, ph, s) /\ Enabling(x, p, c, ph, FALSE) /\ Asked(x, c, ph)
      /\ Claims(x, n) /\ Rising(x, c, i) /\ Cuts(x, p) /\ Ranges(x)
      /\ ~x.destroyed => h = n
  BY DEF Up
<1>1. /\ y.smacks = x.smacks /\ y.destroyed = x.destroyed /\ y.handled = h /\ y.old_h = x.old_h
      /\ y.conn = x.conn /\ y.owner = x.owner /\ y.q = x.q
  BY DEF Kin, Carried
<1>1a. /\ DOMAIN r = 1..(s - j.n) /\ \A k \in DOMAIN r : r[k].t = "stanza" /\ r[k].n = j.n + k
       /\ Kin(x, y) /\ \A d \in Conn : d # c => y.up[d] = x.up[d]
       /\ y.up[c] = IF x.owner[c] = "none" THEN x.up[c] ELSE x.up[c] \o r
  BY DEF Repeats, Carried
<1>2. /\ u \in Seq(UpItem) /\ c # None /\ None \notin Conn /\ h \in Int /\ x.smacks \in {"nil", "on"}
      /\ x.down[c] \in Seq(DownItem) /\ x.owner[c] \in {"none", "S", "N"}
  BY SoundIs, NoneIsNoConn
<1>3. 1 \in DOMAIN x.down[c] /\ j = x.down[c][1] BY <1>2
<1>4. MaxIn \in Nat /\ MaxOut \in Nat BY SmacksAssumption
<1>5. /\ ph = "resuming" /\ (~x.destroyed /\ x.owner[c] = "S" => j.n = h) /\ x.owner[c] # "N"
      /\ j.n \in Numbers
  <2>1. x.down[c][1].t = "resumed" BY <1>3
  <2>2. ph = "resuming" /\ (~x.destroyed /\ x.owner[c] = "S" => x.down[c][1].n = h) /\ x.owner[c] # "N"
    BY <1>0, <1>2, <1>3, <2>1 DEF Asked
  <2>3. x.down[c][1].n \in Numbers BY <1>0, <1>3 DEF Ranges, Small
  <2> QED BY <1>3, <2>2, <2>3
<1> HIDE DEF j, h
<1>6. \A k \in DOMAIN r : r[k].t = "stanza" /\ r[k].n \in Numbers
  <2> SUFFICES ASSUME NEW k \in DOMAIN r PROVE r[k].n \in Numbers BY <1>1a
  <2>1. j.n \in Int /\ j.n >= -1 BY <1>4, <1>5 DEF Numbers, NoH
  <2>2. k \in 1..(s - j.n) BY <1>1a
  <2>3. r[k].n = j.n + k BY <1>1a
  <2>4. r[k].n \in 0..s BY <2>1, <2>2, <2>3
  <2> QED BY <1>4, <2>4 DEF Numbers
<1>7. \A k \in DOMAIN v : (k \in DOMAIN u /\ v[k] = u[k]) \/ (k - Len(u) \in DOMAIN r /\ v[k] = r[k - Len(u)])
  <2> SUFFICES ASSUME NEW k \in DOMAIN v
               PROVE  (k \in DOMAIN u /\ v[k] = u[k]) \/ (k - Len(u) \in DOMAIN r /\ v[k] = r[k - Len(u)])
    OBVIOUS
  <2>1. u \in Seq(UpItem) /\ r \in Seq(UpItem) BY <1>2
  <2> HIDE DEF u
  <2> QED BY <2>1, ConcatItems
<1>8. \A d \in Conn : /\ x.owner[d] = "N" => y.up[d] = x.up[d]
                      /\ \A k \in DOMAIN y.up[d] : \/ k \in DOMAIN x.up[d] /\ y.up[d][k] = x.up[d][k]
                                                   \/ d = c /\ \E l \in DOMAIN r : y.up[d][k] = r[l]
  <2> SUFFICES ASSUME NEW d \in Conn
               PROVE  /\ x.owner[d] = "N" => y.up[d] = x.up[d]
                      /\ \A k \in DOMAIN y.up[d] : \/ k \in DOMAIN x.up[d] /\ y.up[d][k] = x.up[d][k]
                                                   \/ d = c /\ \E l \in DOMAIN r : y.up[d][k] = r[l]
    OBVIOUS
  <2>1. CASE d # c BY <1>1a, <2>1
  <2>2. CASE d = c
    <3>1. y.up[c] = u \/ y.up[c] = v BY <1>1a
    <3> HIDE DEF v
    <3> QED BY <1>5, <1>7, <2>2, <3>1
  <2> QED BY <2>1, <2>2
<1>9. /\ Claims(y, n) /\ \A d \in Conn : Small(y.down[d])
      /\ \A k \in DOMAIN y.down[c] : y.down[c][k].t # "resumed"
      /\ x.owner[c] = "S" => Lacks(y.down[c], "failed")
  BY <1>0, <1>1a, UpShorter
<1>10. Counted(y, p, c, "on", s)
  <2> SUFFICES ASSUME ~x.destroyed PROVE Counted(y, p, c, "on", s) BY <1>1 DEF Counted
  <2>1. h <= s BY <1>0 DEF Counted, h
  <2>2. h \in Nat
    <3>1. h \in 0..MaxIn BY <1>0 DEF Ranges, h
    <3> QED BY <1>4, <3>1
  <2>3. ASSUME NEW d \in Conn, x.owner[d] = "S", ~p
        PROVE  \E e \in h..s : Carries(y.up[d], h, e) /\ (d = c => e = s)
    <3>1. PICK e \in h..s : Carries(x.up[d], h, e) /\ (d = c => e = h) BY <1>0, <1>5, <2>3 DEF Counted, h
    <3>2. CASE d # c BY <1>1a, <3>1, <3>2
    <3>3. CASE d = c
      <4>1. j.n = h /\ Carries(u, h, h) BY <1>5, <2>3, <3>1, <3>3 DEF u
      <4>2. s - h \in Nat /\ Len(r) = s - h
        <5>1. DOMAIN r = 1..(s - h) BY <1>1a, <4>1
        <5>2. s - h \in Nat BY <2>1, <2>2
        <5> QED BY <5>1, <5>2
      <4>3. \A k \in 1..(s - h) : r[k].t = "stanza" /\ r[k].n = h + k BY <1>1a, <4>1
      <4> DEFINE m == s - h
      <4>4. h + m = s BY <2>2
      <4>5. m \in Nat /\ Len(r) = m /\ \A k \in 1..m : r[k].t = "stanza" /\ r[k].n = h + k BY <4>2, <4>3
      <4> HIDE DEF m, u
      <4>6. Carries(u \o r, h, h + m) BY <1>2, <2>2, <4>1, <4>5, CarriesAgain
      <4>7. Carries(v, h, s) BY <4>4, <4>6
      <4>8. y.up[d] = v BY <1>1a, <2>3, <3>3 DEF u
      <4>9. s \in h..s BY <2>1, <2>2
      <4> QED BY <4>7, <4>8, <4>9
    <3> QED BY <3>2, <3>3
  <2> QED BY <1>1, <2>1, <2>3 DEF Counted
<1> HIDE DEF u, v
<1>11. Enabling(y, p, c, "on", FALSE)
  <2> SUFFICES ASSUME ~x.destroyed, ~p PROVE Enabling(y, p, c, "on", FALSE) BY <1>1 DEF Enabling
  <2>1. x.smacks = "on"
    <3>1. x.smacks # "nil" BY <1>0, <1>5 DEF Enabling
    <3> QED BY <1>2, <3>1
  <2>2. \A d \in Conn : x.owner[d] = "S" => Lacks(x.up[d], "enable") BY <1>0, <2>1 DEF Enabling
  <2>3. \A d \in Conn : x.owner[d] = "S" => Lacks(y.up[d], "enable") BY <1>6, <1>8, <2>2 DEF Lacks
  <2> QED BY <1>1, <2>1, <2>3 DEF Enabling
<1>12. Asked(y, c, "on")
  <2>1. \A d \in Conn : y.owner[d] = "N" => \A k \in DOMAIN y.up[d] : y.up[d][k].t \in {"resume", "half"}
    BY <1>0, <1>1, <1>8 DEF Asked
  <2> QED BY <1>1, <1>5, <1>9, <2>1 DEF Asked
<1>13. Rising(y, c, i)
  <2> SUFFICES ASSUME x.conn = c PROVE Rising(y, c, i) BY <1>1 DEF Rising
  <2>1. /\ \A k \in DOMAIN u : u[k].t = "a" => x.q.tail <= u[k].n
        /\ \A k, l \in DOMAIN u : k < l /\ u[k].t = "a" /\ u[l].t = "a" => u[k].n <= u[l].n
        /\ \A d \in Conn \ {c} : x.owner[d] = "N" /\ x.up[d] # <<>> /\ x.up[d][1].t = "resume" => x.up[d][1].n <= x.q.tail
    BY <1>0, <1>2 DEF Rising, u
  <2>2. \A d \in Conn \ {c} : y.owner[d] = "N" /\ y.up[d] # <<>> /\ y.up[d][1].t = "resume" => y.up[d][1].n <= y.q.tail
    BY <1>1, <1>1a, <2>1
  <2>3. \A k \in DOMAIN y.up[c] : y.up[c][k].t = "a" => k \in DOMAIN u /\ y.up[c][k] = u[k] BY <1>6, <1>8 DEF u
  <2>4. \A k \in DOMAIN y.up[c] : y.up[c][k].t = "a" => y.q.tail <= y.up[c][k].n BY <1>1, <2>1, <2>3
  <2>5. \A k, l \in DOMAIN y.up[c] : k < l /\ y.up[c][k].t = "a" /\ y.up[c][l].t = "a" => y.up[c][k].n <= y.up[c][l].n
    <3> SUFFICES ASSUME NEW k \in DOMAIN y.up[c], NEW l \in DOMAIN y.up[c], k < l, y.up[c][k].t = "a", y.up[c][l].t = "a"
                 PROVE  y.up[c][k].n <= y.up[c][l].n
      OBVIOUS
    <3>1. k \in DOMAIN u /\ y.up[c][k] = u[k] /\ l \in DOMAIN u /\ y.up[c][l] = u[l] BY <2>3
    <3> QED BY <2>1, <3>1
  <2> QED BY <1>1, <2>2, <2>4, <2>5 DEF Rising
<1>14. Cuts(y, p)
  <2>1. \A d \in Conn : Lacks(x.up[d], "half") => Lacks(y.up[d], "half") BY <1>6, <1>8 DEF Lacks
  <2> QED BY <1>0, <2>1 DEF Cuts
<1>15. Ranges(y)
  <2>1. \A d \in Conn : Small(y.up[d]) BY <1>0, <1>6, <1>8 DEF Ranges, Small
  <2> QED BY <1>0, <1>1, <1>9, <2>1 DEF Ranges, h
<1> QED BY <1>0, <1>1, <1>9, <1>10, <1>11, <1>12, <1>13, <1>14, <1>15 DEF Up, h

(* What a step of the client has to leave right. *)
LEMMA UpClient ==
  ASSUME SmacksInv, SmacksInv', UpInv, Calm', Idle, UNCHANGED <<thread, inbox, chunk, paused, partial, hist>>,
         Up(srv', partial, cl'.conn, cl'.phase, cl'.sent, Len(hist.done), Item("none", 0)),
         cl'.acked <= Len(hist.done), cl'.sent <= MaxIn
  PROVE  UpInv'
<1>1. inbox = <<>> BY CalmIdle DEF UpInv
<1>2. Pending' = Item("none", 0) BY <1>1, SoundNext
<1>3. Item("none", 0).t = "none" /\ Item("none", 0).n \in Numbers BY UpIs
<1>4. ~hist.rejected /\ hist.out <= MaxOut BY UpIs
<1> QED BY <1>2, <1>3, <1>4, UpNext

(* Before its step. *)
LEMMA UpIdle ==
  ASSUME SmacksInv, UpInv, Idle
  PROVE  Up(srv, partial, cl.conn, cl.phase, cl.sent, Len(hist.done), Item("none", 0)) /\ Item("none", 0).t = "none"
<1>1. inbox = <<>> BY CalmIdle DEF UpInv
<1> QED BY <1>1, UpIs

(* An honest count is the highest on its way. *)
LEMMA HonestIsHighest ==
  ASSUME NEW x, Right(x), NEW c \in Conn
  PROVE  x.q.tail <= Len(cl.got) /\ \A k \in DOMAIN x.up[c] : x.up[c][k].t = "a" => x.up[c][k].n <= Len(cl.got)
<1>1. x.q.tail <= Len(cl.got) BY DEF Right, Books
<1>2. Honest(x.up[c], Len(cl.got)) BY DEF Right, Net
<1>3. \A k \in DOMAIN x.up[c] : x.up[c][k].t = "a" => x.up[c][k].n \in 0..Len(cl.got) BY <1>2 DEF Honest
<1> QED BY <1>1, <1>3

(* The client sends one item, *)
LEMMA UpSent ==
  ASSUME SmacksInv, SmacksInv', UpInv, Calm', NEW j \in UpItem, ClientSends(<<j>>),
         cl.phase \in {"bound", "enabling", "on"}, cl'.conn = cl.conn, cl'.acked = cl.acked, cl'.sent \in Nat,
         cl'.sent <= MaxIn, j.n \in Numbers, j.t \in {"stanza", "a", "r", "enable", "close"},
         IF j.t = "stanza" THEN j.n = cl.sent + 1 /\ cl'.sent = cl.sent + 1 ELSE cl'.sent = cl.sent,
         \/ cl'.phase = cl.phase /\ cl.phase # "bound" /\ j.t # "enable"
         \/ cl.phase = "bound" /\ cl'.phase = "enabling" /\ j.t = "enable"
         \/ cl.phase = "on" /\ cl'.phase = "gone" /\ j.t # "enable",
         j.t = "a" => j.n = Len(cl.got)
  PROVE  UpInv'
<1> DEFINE n == Len(hist.done)
           c == cl.conn
           e == Item("none", 0)
<1>1. Idle /\ srv' = Deliver(srv, <<j>>) /\ UNCHANGED <<thread, inbox, chunk, paused, partial, hist>> BY DEF ClientSends
<1>2. /\ Right(srv) /\ Sound(srv) /\ n \in Nat /\ c \in Conn \union {None} /\ cl.sent \in Nat /\ cl.acked <= n
      /\ (c = None => cl.phase \in {"off", "gone"})
  BY UpIs
<1>3. Up(srv, partial, c, cl.phase, cl.sent, n, e) /\ e.t = "none" BY <1>1, UpIdle
<1>4. c \in Conn /\ c # None BY <1>2, NoneIsNoConn
<1>5. <<j>> \in Seq(UpItem) OBVIOUS
<1>6. srv \in Server BY <1>2 DEF Sound
<1>7. Carried(srv, srv', c, <<j>>) /\ srv'.down = srv.down BY <1>1, <1>4, <1>5, <1>6, CarriedIs
<1>8. srv.owner[c] # "N" BY <1>3, <1>4 DEF Up, Asked
<1>9. j.t = "a" => srv.q.tail <= j.n /\ \A k \in DOMAIN srv.up[c] : srv.up[c][k].t = "a" => srv.up[c][k].n <= j.n
  BY <1>2, <1>4, HonestIsHighest
<1> HIDE DEF e, n, c
<1>10. Up(srv', partial, c, cl'.phase, cl'.sent, n, e)
  BY <1>2, <1>3, <1>4, <1>7, <1>8, <1>9, UpSends
<1> QED BY <1>1, <1>2, <1>10, UpClient DEF n, c, e

(* <enable/>, *)
LEMMA UpClientEnable == ASSUME SmacksInv, SmacksInv', UpInv, Calm', ClientEnable PROVE UpInv'
<1> DEFINE j == Item("enable", 0)
<1>1. j \in UpItem /\ j.t = "enable" /\ j.n \in Numbers BY UpItemIs, UpIs
<1>2. ClientSends(<<j>>) /\ cl.phase = "bound" /\ cl' = [cl EXCEPT !.phase = "enabling"] BY DEF ClientEnable
<1>3. /\ cl'.conn = cl.conn /\ cl'.acked = cl.acked /\ cl'.sent = cl.sent /\ cl'.phase = "enabling"
      /\ cl.sent \in Nat /\ cl.sent <= MaxIn
  <2>1. cl \in Client BY ClientIs
  <2> QED BY <1>2, <2>1, UpIs DEF Client
<1> HIDE DEF j
<1> QED BY <1>1, <1>2, <1>3, UpSent

(* a stanza, *)
LEMMA UpClientStanza == ASSUME SmacksInv, SmacksInv', UpInv, Calm', ClientStanza PROVE UpInv'
<1> DEFINE j == Item("stanza", cl.sent + 1)
<1>1. cl \in Client /\ cl.sent \in Nat /\ cl.sent + 1 \in Nat BY ClientIs, UpIs
<1>2. ClientSends(<<j>>) /\ cl.phase \in {"enabling", "on"} /\ cl.sent < MaxIn /\ cl' = [cl EXCEPT !.sent = @ + 1]
  BY DEF ClientStanza
<1>3. cl'.conn = cl.conn /\ cl'.acked = cl.acked /\ cl'.sent = cl.sent + 1 /\ cl'.phase = cl.phase
  BY <1>1, <1>2 DEF Client
<1>4. j \in UpItem /\ j.t = "stanza" /\ j.n = cl.sent + 1 BY <1>1, UpItemIs
<1>5. MaxIn \in Nat /\ MaxOut \in Nat BY SmacksAssumption
<1>6. cl.sent + 1 <= MaxIn /\ cl.sent + 1 \in Numbers BY <1>1, <1>2, <1>5 DEF Numbers
<1> HIDE DEF j
<1> QED BY <1>1, <1>2, <1>3, <1>4, <1>6, UpSent

(* an acknowledgement or a request for one, *)
LEMMA UpClientAckItem == ASSUME SmacksInv, SmacksInv', UpInv, Calm', NEW t \in {"a", "r"}, ClientAckItem(t) PROVE UpInv'
<1> DEFINE g == Len(cl.got)
           j == Item(t, IF t = "a" THEN g ELSE 0)
<1>1. cl \in Client BY ClientIs
<1>2. ClientSends(<<j>>) /\ cl.phase = "on" /\ cl' = [cl EXCEPT !.asks = @ + 1] BY DEF ClientAckItem
<1>3. cl'.conn = cl.conn /\ cl'.acked = cl.acked /\ cl'.sent = cl.sent /\ cl'.phase = cl.phase
  BY <1>1, <1>2 DEF Client
<1>4. g \in Nat /\ hist.out \in Nat /\ g <= hist.out /\ hist.out <= MaxOut /\ MaxOut \in Nat /\ MaxIn \in Nat
      /\ cl.sent \in Nat /\ cl.sent <= MaxIn
  BY UpIs
<1>5. g \in Numbers /\ 0 \in Numbers BY <1>4 DEF Numbers
<1> HIDE DEF g
<1>6. j \in UpItem /\ j.t = t /\ (t = "a" => j.n = g) /\ j.n \in Numbers
  <2>1. j.t = t /\ j.n = IF t = "a" THEN g ELSE 0 BY UpItemIs
  <2>2. j \in UpItem BY <1>4, UpItemIs
  <2> QED BY <1>5, <2>1, <2>2
<1> HIDE DEF j
<1> QED BY <1>2, <1>3, <1>4, <1>6, UpSent DEF g

(* </stream:stream>. *)
LEMMA UpClientClose == ASSUME SmacksInv, SmacksInv', UpInv, Calm', ClientClose PROVE UpInv'
<1> DEFINE j == Item("close", 0)
<1>1. j \in UpItem /\ j.t = "close" /\ j.n \in Numbers BY UpItemIs, UpIs
<1>2. ClientSends(<<j>>) /\ cl.phase = "on" /\ cl' = [cl EXCEPT !.phase = "gone"] BY DEF ClientClose
<1>3. /\ cl'.conn = cl.conn /\ cl'.acked = cl.acked /\ cl'.sent = cl.sent /\ cl'.phase = "gone"
      /\ cl.sent \in Nat /\ cl.sent <= MaxIn
  <2>1. cl \in Client BY ClientIs
  <2> QED BY <1>2, <2>1, UpIs DEF Client
<1> HIDE DEF j
<1> QED BY <1>1, <1>2, <1>3, UpSent

(* Taking an item off the way to the client. *)
LEMMA TakenDown ==
  ASSUME NEW x \in Server, NEW c \in Conn, x.down[c] # <<>>
  PROVE  LET z == [x EXCEPT !.down[c] = Tail(@)]
         IN z \in Server /\ Kin(x, z) /\ z.up = x.up /\ Shorter(x, z, c)
<1> DEFINE z == [x EXCEPT !.down[c] = Tail(@)]
<1>1. x.down \in [Conn -> Seq(DownItem)] BY DEF Server
<1>2. /\ Tail(x.down[c]) \in Seq(DownItem)
      /\ \A k \in DOMAIN Tail(x.down[c]) : k + 1 \in DOMAIN x.down[c] /\ Tail(x.down[c])[k] = x.down[c][k + 1]
  BY <1>1, TailItems
<1>3. \A k \in DOMAIN Tail(x.down[c]) : k + 1 # 1
  <2>1. DOMAIN Tail(x.down[c]) = 1..Len(Tail(x.down[c])) /\ Len(Tail(x.down[c])) \in Nat BY <1>2
  <2> QED BY <2>1
<1>4. z \in Server /\ z.down = [x.down EXCEPT ![c] = Tail(@)] /\ Kin(x, z) /\ z.up = x.up
  <2>1. z.down = [x.down EXCEPT ![c] = Tail(@)] BY DEF Server
  <2>2. z.down \in [Conn -> Seq(DownItem)] BY <1>1, <1>2, <2>1
  <2>3. z \in Server BY <2>2 DEF Server
  <2> QED BY <2>1, <2>3 DEF Kin, Server
<1>5. z.down[c] = Tail(x.down[c]) /\ \A d \in Conn : d # c => z.down[d] = x.down[d] BY <1>1, <1>4
<1> HIDE DEF z
<1>6. Shorter(x, z, c) BY <1>2, <1>3, <1>5 DEF Shorter
<1> QED BY <1>4, <1>6 DEF z

(* Two steps are one. *)
LEMMA KinTwice ==
  ASSUME NEW x, NEW z, NEW y, NEW c, Kin(x, z), Shorter(x, z, c), Kin(z, y), y.down = z.down
  PROVE  Kin(x, y) /\ Shorter(x, y, c)
BY DEF Kin, Shorter

(* The client reads an item. *)
LEMMA UpClientRead == ASSUME SmacksInv, SmacksInv', UpInv, Calm', ClientRead PROVE UpInv'
<1> DEFINE c == cl.conn
           g == Len(cl.got)
           n == Len(hist.done)
           e == Item("none", 0)
           i == Head(srv.down[c])
           r == CASE i.t = "r" /\ cl.phase # "gone" -> <<Item("a", Len(cl.got))>>
                  [] i.t = "resumed" -> [k \in 1..(cl.sent - i.n) |-> Item("stanza", i.n + k)]
                  [] OTHER -> <<>>
           z == [srv EXCEPT !.down[c] = Tail(@)]
<1>1. /\ c # None /\ srv.down[c] # <<>> /\ srv' = Deliver(z, r) /\ Idle
      /\ cl' = CASE i.t = "stanza" -> [cl EXCEPT !.got = Append(@, i.n)]
                 [] i.t = "r" -> cl
                 [] i.t = "a" -> [cl EXCEPT !.acked = i.n]
                 [] i.t = "enabled" -> [cl EXCEPT !.phase = "on"]
                 [] i.t = "resumed" -> [cl EXCEPT !.phase = "on", !.acked = i.n]
                 [] i.t = "failed" -> [cl EXCEPT !.phase = "fresh",
                                                 !.acked = IF i.n = NoH THEN @ ELSE i.n]
                 [] i.t = "end" -> Off(cl)
      /\ UNCHANGED <<thread, inbox, chunk, paused, partial, hist>>
  BY DEF ClientRead
<1> HIDE DEF r, z
<1>2. /\ Right(srv) /\ Sound(srv) /\ n \in Nat /\ c \in Conn \union {None} /\ cl.sent \in Nat /\ cl.sent <= MaxIn
      /\ cl.acked <= n /\ cl.acked \in Int /\ g \in Nat /\ hist.out \in Nat /\ g <= hist.out /\ hist.out <= MaxOut
      /\ MaxOut \in Nat /\ MaxIn \in Nat
  BY UpIs
<1>3. Up(srv, partial, c, cl.phase, cl.sent, n, e) /\ e.t = "none" BY <1>1, UpIdle
<1>4. c \in Conn /\ srv \in Server BY <1>1, <1>2 DEF Sound
<1>5. cl \in Client BY ClientIs
<1>6. srv.down[c] \in Seq(DownItem) BY <1>2, <1>4, SoundIs
<1>7. i \in DownItem /\ i = srv.down[c][1] /\ 1 \in DOMAIN srv.down[c]
  <2>1. srv.down[c] # <<>> BY <1>1, Zenon
  <2> HIDE DEF c
  <2> QED BY ONLY <1>6, <2>1
<1>8. i.t \in {"stanza", "a", "r", "enabled", "resumed", "failed", "end"} /\ i.n \in Int BY <1>7 DEF DownItem
<1>9. r \in Seq(UpItem) BY <1>7, ReplyIs DEF r
<1>10. z \in Server /\ Kin(srv, z) /\ z.up = srv.up /\ Shorter(srv, z, c) BY <1>1, <1>4, TakenDown DEF z
<1> HIDE DEF i
<1>11. Carried(z, srv', c, r) /\ srv'.down = z.down /\ Deliver(z, <<>>).up = z.up BY <1>1, <1>4, <1>9, <1>10, CarriedIs
<1>12. Kin(srv, srv') /\ Shorter(srv, srv', c)
  <2>1. Kin(z, srv') BY <1>11 DEF Carried
  <2> QED BY <1>10, <1>11, <2>1, KinTwice
<1>13. \A d \in Conn : d # c => srv'.up[d] = srv.up[d] BY <1>10, <1>11 DEF Carried
<1>14. z.owner[c] = srv.owner[c] /\ z.up[c] = srv.up[c] BY <1>10 DEF Kin
<1>15. srv'.up[c] = IF srv.owner[c] = "none" THEN srv.up[c] ELSE srv.up[c] \o r BY <1>11, <1>14 DEF Carried
<1>16. i.t \in {"a", "resumed", "failed"} => i.n <= n BY <1>3, <1>4, <1>7 DEF Up, Claims
<1>17. ASSUME Up(srv', partial, cl'.conn, cl'.phase, cl'.sent, n, e), cl'.acked <= n, cl'.sent <= MaxIn PROVE UpInv'
  BY <1>1, <1>17, UpClient DEF n, e
<1>18. r = <<>> => srv'.up = srv.up BY <1>1, <1>10, <1>11
<1>19. Asked(srv, c, cl.phase) /\ Enabling(srv, partial, c, cl.phase, FALSE) BY <1>3 DEF Up
<1> HIDE DEF n, e, c, g
<1>20. CASE i.t = "stanza" \/ i.t = "a" \/ (i.t = "r" /\ cl.phase = "gone")
  <2>1. r = <<>> BY <1>20 DEF r
  <2>2. cl' = [cl EXCEPT !.got = Append(@, i.n)] \/ (cl' = [cl EXCEPT !.acked = i.n] /\ i.t = "a") \/ cl' = cl BY <1>1, <1>20
  <2>3. cl'.conn = c /\ cl'.phase = cl.phase /\ cl'.sent = cl.sent /\ (cl'.acked = cl.acked \/ (cl'.acked = i.n /\ i.t = "a"))
    BY <1>5, <2>2 DEF Client, c
  <2>4. Up(srv', partial, c, cl.phase, cl.sent, n, e) BY <1>1, <1>2, <1>3, <1>4, <1>12, <1>18, <2>1, UpTook
  <2> QED BY <1>2, <1>16, <1>17, <2>3, <2>4
<1>21. CASE i.t = "r" /\ cl.phase # "gone"
  <2> DEFINE j == Item("a", g)
  <2>1. r = <<j>> BY <1>21 DEF r, g
  <2>2. g \in Numbers BY <1>2 DEF Numbers
  <2>3. j \in UpItem /\ j.t = "a" /\ j.n = g BY <1>2, UpItemIs
  <2> HIDE DEF j
  <2>4. Up(z, partial, c, cl.phase, cl.sent, n, e) BY <1>1, <1>2, <1>3, <1>4, <1>10, UpTook
  <2>5. Sound(z)
    <3>1. Self(srv, z) /\ z.conn = srv.conn /\ z.owner = srv.owner BY <1>4 DEF z, Self, Server
    <3> QED BY <1>2, <1>10, <3>1 DEF Sound, Alive, Owns, Self
  <2>6. z.owner[c] # "N"
    <3>1. srv.owner[c] # "N" BY <1>1, <1>7, <1>19, <1>21 DEF Asked
    <3> QED BY <1>14, <3>1
  <2>7. ASSUME ~srv.destroyed, ~partial, srv.smacks = "nil" PROVE FALSE
    <3>1. c = srv.conn /\ \A d \in Conn : srv.owner[d] = "S" => Offered(srv, d, c, cl.phase, FALSE)
      BY <1>1, <1>19, <2>7 DEF Enabling
    <3>2. srv.owner[c] = "S" BY <1>2, <1>4, <2>7, <3>1 DEF Sound, Owns
    <3>3. Offered(srv, c, c, cl.phase, FALSE) BY <1>4, <3>1, <3>2
    <3> QED BY <1>7, <1>21, <3>3 DEF Offered
  <2>8. ~z.destroyed /\ ~partial /\ z.smacks = "nil" => cl.phase # "bound" BY <1>10, <2>7 DEF Kin
  <2>9. z.q.tail <= j.n /\ \A k \in DOMAIN z.up[c] : z.up[c][k].t = "a" => z.up[c][k].n <= j.n
    <3>1. srv.q.tail <= g /\ \A k \in DOMAIN srv.up[c] : srv.up[c][k].t = "a" => srv.up[c][k].n <= g
      BY <1>2, <1>4, HonestIsHighest DEF g
    <3> QED BY <1>10, <2>3, <3>1 DEF Kin
  <2>10. Up(srv', partial, c, cl.phase, cl.sent, n, e)
    BY <1>2, <1>3, <1>4, <1>11, <2>1, <2>2, <2>3, <2>4, <2>5, <2>6, <2>8, <2>9, UpSends
  <2>11. cl' = cl BY <1>1, <1>21
  <2> QED BY <1>2, <1>17, <2>10, <2>11 DEF c
<1>22. CASE i.t = "enabled"
  <2>1. r = <<>> BY <1>22 DEF r
  <2>2. cl' = [cl EXCEPT !.phase = "on"] BY <1>1, <1>22
  <2>3. cl'.conn = c /\ cl'.phase = "on" /\ cl'.sent = cl.sent /\ cl'.acked = cl.acked BY <1>5, <2>2 DEF Client, c
  <2>4. Up(srv', partial, c, "on", cl.sent, n, e)
    BY <1>1, <1>2, <1>3, <1>4, <1>12, <1>18, <1>22, <2>1, UpTook DEF i
  <2> QED BY <1>2, <1>17, <2>3, <2>4
<1>23. CASE i.t = "failed"
  <2>1. r = <<>> BY <1>23 DEF r
  <2>2. cl' = [cl EXCEPT !.phase = "fresh", !.acked = IF i.n = NoH THEN @ ELSE i.n] BY <1>1, <1>23
  <2>3. cl'.conn = c /\ cl'.phase = "fresh" /\ cl'.sent = cl.sent /\ cl'.acked \in {cl.acked, i.n}
    BY <1>5, <2>2 DEF Client, c
  <2>4. srv.up[c] = <<>> \/ srv.up[c][1].t # "resume"
    <3>1. Flows(srv, c, Len(cl.got), hist.out) BY <1>1, <1>2 DEF Right, Net, c
    <3> QED BY <1>1, <3>1 DEF Flows
  <2>5. Up(srv', partial, c, "fresh", cl.sent, n, e)
    BY <1>1, <1>2, <1>3, <1>4, <1>12, <1>18, <1>23, <2>1, <2>4, UpTook DEF i
  <2> QED BY <1>2, <1>16, <1>17, <1>23, <2>3, <2>5
<1>24. CASE i.t = "resumed"
  <2> DEFINE m == cl.sent - i.n
  <2>1. r = [k \in 1..m |-> Item("stanza", i.n + k)] BY <1>24 DEF r
  <2>2. DOMAIN r = 1..m /\ \A k \in DOMAIN r : r[k].t = "stanza" /\ r[k].n = i.n + k
    <3> HIDE DEF m
    <3> QED BY <2>1, UpItemIs
  <2>3. cl' = [cl EXCEPT !.phase = "on", !.acked = i.n] BY <1>1, <1>24
  <2>4. cl'.conn = c /\ cl'.phase = "on" /\ cl'.sent = cl.sent /\ cl'.acked = i.n BY <1>5, <1>8, <2>3 DEF Client, c
  <2>5. Repeats(r, i.n, cl.sent) BY <2>2 DEF Repeats
  <2>6. Carried(srv, srv', c, r) BY <1>12, <1>13, <1>15 DEF Carried
  <2>7. Repeats(r, Head(srv.down[c]).n, cl.sent) /\ Head(srv.down[c]).t = "resumed" BY <1>24, <2>5 DEF i
  <2>8. Up(srv', partial, c, "on", cl.sent, n, e)
    BY <1>1, <1>2, <1>3, <1>4, <1>9, <1>12, <2>6, <2>7, UpRepeats
  <2> QED BY <1>2, <1>16, <1>17, <1>24, <2>4, <2>8
<1>25. CASE i.t = "end"
  <2>1. r = <<>> BY <1>25 DEF r
  <2>2. cl' = [cl EXCEPT !.conn = None, !.phase = IF @ \in {"on", "resuming"} THEN "off" ELSE "gone"] BY <1>1, <1>25 DEF Off
  <2>3. cl'.conn = None /\ cl'.phase = (IF cl.phase \in {"on", "resuming"} THEN "off" ELSE "gone")
        /\ cl'.sent = cl.sent /\ cl'.acked = cl.acked
    BY <1>5, <2>2 DEF Client
  <2>4. Up(srv', partial, None, cl'.phase, cl.sent, n, e)
    BY <1>2, <1>3, <1>4, <1>12, <1>18, <2>1, <2>3, UpLeft
  <2> QED BY <1>2, <1>17, <2>3, <2>4
<1> QED BY ONLY <1>8, <1>20, <1>21, <1>22, <1>23, <1>24, <1>25, SMTT(60)

(* Losing what is on the way to the client. *)
LEMMA LostDown ==
  ASSUME NEW x \in Server, NEW c \in Conn
  PROVE  LET z == [x EXCEPT !.down[c] = <<>>]
         IN z \in Server /\ Kin(x, z) /\ z.up = x.up /\ Shorter(x, z, c)
<1> DEFINE u == [x.down EXCEPT ![c] = <<>>]
           z == [x EXCEPT !.down = u]
<1>0. x.down \in [Conn -> Seq(DownItem)] BY DEF Server
<1>1. u \in [Conn -> Seq(DownItem)] /\ u[c] = <<>> /\ \A d \in Conn : d # c => u[d] = x.down[d]
  <2>1. <<>> \in Seq(DownItem) OBVIOUS
  <2> QED BY <1>0, <2>1
<1>2. [x EXCEPT !.down[c] = <<>>] = z OBVIOUS
<1> HIDE DEF u
<1>3. z \in Server /\ z.down = u /\ z.up = x.up BY <1>1 DEF Server
<1>4. Kin(x, z) BY DEF Kin, Server
<1> HIDE DEF z
<1>5. Shorter(x, z, c) BY <1>1, <1>3 DEF Shorter
<1> QED BY <1>2, <1>3, <1>4, <1>5

(* The client loses its connection. *)
LEMMA UpClientLoses == ASSUME SmacksInv, SmacksInv', UpInv, Calm', ClientLoses PROVE UpInv'
<1> DEFINE c == cl.conn
           n == Len(hist.done)
           e == Item("none", 0)
           j == Item("half", 0)
           z == [srv EXCEPT !.down[c] = <<>>]
<1>1. PICK r : srv' = Deliver(z, r) /\ (r = <<>> \/ (MayCut /\ r = <<j>>))
  <2>1. PICK cut \in {FALSE, MayCut} : srv' = Deliver(z, IF cut THEN <<j>> ELSE <<>>) BY DEF ClientLoses
  <2>2. CASE cut
    <3>1. MayCut BY <2>1, <2>2
    <3> HIDE DEF z, j
    <3>2. srv' = Deliver(z, <<j>>) BY <2>1, <2>2
    <3> QED BY <3>1, <3>2
  <2>3. CASE ~cut
    <3> HIDE DEF z, j
    <3>1. srv' = Deliver(z, <<>>) BY <2>1, <2>3
    <3> QED BY <3>1
  <2> QED BY <2>2, <2>3
<1>2. Idle /\ c # None /\ cl' = Off(cl) /\ UNCHANGED <<thread, inbox, chunk, paused, partial, hist>> BY DEF ClientLoses
<1>3. /\ Right(srv) /\ Sound(srv) /\ n \in Nat /\ c \in Conn \union {None} /\ cl.sent <= MaxIn /\ cl.acked <= n
  BY UpIs
<1>4. Up(srv, partial, c, cl.phase, cl.sent, n, e) /\ e.t = "none" BY <1>2, UpIdle
<1>5. c \in Conn /\ srv \in Server BY <1>2, <1>3 DEF Sound
<1>6. cl \in Client BY ClientIs
<1>7. j \in UpItem BY UpItemIs
<1>8. r \in Seq(UpItem)
  <2>1. <<j>> \in Seq(UpItem) BY <1>7
  <2>2. <<>> \in Seq(UpItem) OBVIOUS
  <2> QED BY <1>1, <2>1, <2>2
<1>9. z \in Server /\ Kin(srv, z) /\ z.up = srv.up /\ Shorter(srv, z, c) BY <1>5, LostDown
<1> HIDE DEF z
<1>10. Carried(z, srv', c, r) /\ srv'.down = z.down /\ Deliver(z, <<>>).up = z.up BY <1>1, <1>5, <1>8, <1>9, CarriedIs
<1>11. Kin(srv, srv') /\ Shorter(srv, srv', c)
  <2>1. Kin(z, srv') BY <1>10 DEF Carried
  <2> QED BY <1>9, <1>10, <2>1, KinTwice
<1>12. \A d \in Conn : d # c => srv'.up[d] = srv.up[d] BY <1>9, <1>10 DEF Carried
<1>13. srv'.up[c] = srv.up[c] \/ (MayCut /\ srv'.up[c] = srv.up[c] \o <<Item("half", 0)>>)
  <2>1. CASE r = <<>>
    <3>1. srv'.up = z.up BY <1>1, <1>10, <2>1
    <3> QED BY <1>9, <3>1
  <2>2. CASE MayCut /\ r = <<j>>
    <3>1. srv'.up[c] = srv.up[c] \/ srv'.up[c] = srv.up[c] \o r BY <1>9, <1>10 DEF Carried
    <3> QED BY <2>2, <3>1
  <2> QED BY <1>1, <2>1, <2>2
<1>14. cl' = [cl EXCEPT !.conn = None, !.phase = IF @ \in {"on", "resuming"} THEN "off" ELSE "gone"] BY <1>2 DEF Off
<1>15. cl'.conn = None /\ cl'.phase = (IF cl.phase \in {"on", "resuming"} THEN "off" ELSE "gone")
       /\ cl'.sent = cl.sent /\ cl'.acked = cl.acked
  BY <1>6, <1>14 DEF Client
<1> HIDE DEF n, e, c, j
<1>16. Up(srv', partial, None, cl'.phase, cl.sent, n, e)
  BY <1>3, <1>4, <1>5, <1>11, <1>12, <1>13, <1>15, UpLeft
<1> QED BY <1>2, <1>3, <1>15, <1>16, UpClient DEF n, e

(* The client asks to resume. *)
LEMMA UpClientResumes == ASSUME SmacksInv, SmacksInv', UpInv, Calm', ClientResumes PROVE UpInv'
<1> DEFINE g == Len(cl.got)
           n == Len(hist.done)
           e == Item("none", 0)
<1>1. Idle /\ cl.phase = "off" /\ UNCHANGED <<thread, inbox, chunk, paused, partial, hist>> BY DEF ClientResumes
<1>2. PICK b \in Conn :
        /\ ~Used(b)
        /\ srv' = [srv EXCEPT !.owner[b] = "N", !.up[b] = <<Item("resume", g)>>]
        /\ cl' = [cl EXCEPT !.conn = b, !.phase = "resuming"]
  BY DEF ClientResumes
<1>3. /\ Right(srv) /\ Sound(srv) /\ n \in Nat /\ cl.sent <= MaxIn /\ cl.acked <= n
      /\ g \in Nat /\ hist.out \in Nat /\ g <= hist.out /\ hist.out <= MaxOut /\ MaxOut \in Nat /\ MaxIn \in Nat
  BY UpIs
<1>4. Up(srv, partial, cl.conn, "off", cl.sent, n, e) /\ e.t = "none" BY <1>1, UpIdle
<1>5. g \in Numbers BY <1>3 DEF Numbers
<1>6. srv.owner[b] = "none" /\ srv.down[b] = <<>> BY <1>2, <1>3 DEF Used, Right, Net, Wired
<1>7. cl \in Client BY ClientIs
<1>8. cl'.conn = b /\ cl'.phase = "resuming" /\ cl'.sent = cl.sent /\ cl'.acked = cl.acked BY <1>2, <1>7 DEF Client
<1> HIDE DEF n, e, g
<1>9. Up(srv', partial, b, "resuming", cl.sent, n, e) BY <1>2, <1>3, <1>4, <1>5, <1>6, UpAsks
<1> QED BY <1>1, <1>3, <1>8, <1>9, UpClient DEF n, e

(* The client binds anew. *)
LEMMA UpClientRebinds == ASSUME SmacksInv, SmacksInv', UpInv, Calm', ClientRebinds PROVE UpInv'
<1> DEFINE n == Len(hist.done)
           e == Item("none", 0)
<1>1. Idle /\ cl.phase = "fresh" /\ cl' = [cl EXCEPT !.phase = "gone"]
      /\ UNCHANGED <<thread, inbox, chunk, paused, partial, hist>>
  BY DEF ClientRebinds
<1>2. Sound(srv) /\ n \in Nat /\ cl.sent <= MaxIn /\ cl.acked <= n /\ cl.conn \in Conn \union {None} BY UpIs
<1>3. Up(srv, partial, cl.conn, "fresh", cl.sent, n, e) /\ e.t = "none" BY <1>1, UpIdle
<1>4. Tame(srv, srv') BY TameEvents
<1>5. Sound(srv') BY SoundNext
<1>6. cl \in Client BY ClientIs
<1>7. cl'.conn = cl.conn /\ cl'.phase = "gone" /\ cl'.sent = cl.sent /\ cl'.acked = cl.acked BY <1>1, <1>6 DEF Client
<1> HIDE DEF n, e
<1>8. Up(srv, partial, cl.conn, "gone", cl.sent, n, e) BY <1>2, <1>3, UpRebound
<1>9. Up(srv', partial, cl.conn, "gone", cl.sent, n, e) BY <1>2, <1>3, <1>4, <1>5, <1>8, UpTame
<1> QED BY <1>1, <1>2, <1>7, <1>9, UpClient DEF n, e

(* Every step keeps the invariant. *)
LEMMA UpStep == ASSUME ~MayWait, SmacksInv, UpInv, [Next]_vars PROVE UpInv'
<1>1. SmacksInv' BY SmacksStep
<1>2. Calm' BY CalmStep DEF SmacksInv, UpInv
<1>3. CASE UNCHANGED vars
  <2>1. UNCHANGED <<srv, thread, inbox, chunk, partial, cl, hist>> BY <1>3 DEF vars
  <2>2. Pending' = Pending BY <2>1 DEF Pending
  <2>3. Up(srv', partial', cl'.conn, cl'.phase, cl'.sent, Len(hist'.done), Pending') BY <2>1, <2>2 DEF UpInv
  <2> QED BY <1>2, <2>1, <2>2, <2>3 DEF UpInv
<1>4. CASE \/ RouteStanza \/ ReadTimeout \/ GraceTimeout \/ WatchdogFires \/ ServerStops
           \/ \E force \in BOOLEAN : RequestAck(force)
           \/ \E reason \in {"error", "none"} : CloseSession(reason)
           \/ \E c \in Conn : Disconnect(c)
  BY <1>1, <1>2, <1>4, UpEvents
<1>5. CASE \E c \in Conn : ReadChunk(c) BY <1>1, <1>2, <1>5, UpRead
<1>6. CASE RunItem BY <1>1, <1>2, <1>6, UpRun
<1>7. ~FeedRest /\ ~Wake
  <2>1. thread = "ready" /\ chunk.n = 0 BY DEF UpInv, Calm
  <2> QED BY <2>1 DEF FeedRest, Wake
<1>8. ~ClientEarlyStanza BY DEF ClientEarlyStanza
<1>9. CASE ClientEnable \/ ClientStanza \/ ClientClose BY <1>1, <1>2, <1>9, UpClientEnable, UpClientStanza, UpClientClose
<1>10. CASE \E t \in {"a", "r"} : ClientAckItem(t) BY <1>1, <1>2, <1>10, UpClientAckItem
<1>11. CASE ClientRead \/ ClientLoses \/ ClientResumes \/ ClientRebinds
  BY <1>1, <1>2, <1>11, UpClientRead, UpClientLoses, UpClientResumes, UpClientRebinds
<1> QED BY <1>3, <1>4, <1>5, <1>6, <1>7, <1>8, <1>9, <1>10, <1>11 DEF Next

(* Nothing has been sent yet. *)
LEMMA UpInit == ASSUME SmacksInit PROVE UpInv
<1> DEFINE e == Item("none", 0)
<1>0. SmacksInv BY SmacksInitInv
<1>1. /\ thread = "ready" /\ inbox = <<>> /\ chunk = [c |-> None, n |-> 0] /\ partial = FALSE
      /\ cl = [phase |-> "bound", conn |-> 1, got |-> <<>>, sent |-> 0, acked |-> 0, asks |-> 0]
      /\ hist = [out |-> 0, lost |-> {}, done |-> <<>>, rejected |-> FALSE, stopped |-> FALSE]
  BY DEF SmacksInit
<1>2. /\ srv.smacks = "nil" /\ ~srv.destroyed /\ srv.conn = 1 /\ srv.handled = 0 /\ srv.old_h = NoH
      /\ srv.owner = [c \in Conn |-> IF c = 1 THEN "S" ELSE "none"]
      /\ srv.up = [c \in Conn |-> <<>>] /\ srv.down = [c \in Conn |-> <<>>] /\ srv.q = NewQueue
  BY DEF SmacksInit
<1>3. /\ \A c \in Conn : srv.up[c] = <<>> /\ srv.down[c] = <<>> /\ srv.owner[c] \in {"S", "none"}
      /\ \A c \in Conn : srv.owner[c] = "S" => c = 1
  BY <1>2
<1>4. 1 \in Conn /\ MaxOut \in Nat /\ MaxIn \in Nat BY SmacksAssumption DEF Conn
<1>5. Len(<<>>) = 0 /\ DOMAIN <<>> = {} OBVIOUS
<1>6. cl.conn = 1 /\ cl.phase = "bound" /\ cl.sent = 0 /\ cl.acked = 0 /\ hist.done = <<>> /\ hist.out = 0 /\ ~hist.rejected
  BY <1>1
<1>7. Calm BY <1>1, <1>5 DEF Calm
<1>8. Pending = e /\ e.t = "none" /\ e.n = 0 /\ 0 \in Numbers BY <1>1, <1>4 DEF Pending, Item, Numbers
<1>9. Up(srv, FALSE, 1, "bound", 0, 0, e)
  <2>1. Counted(srv, FALSE, 1, "bound", 0)
    <3>1. 0 \in 0..0 OBVIOUS
    <3>2. Carries(<<>>, 0, 0) BY CarriesNone
    <3> QED BY <1>2, <1>3, <3>1, <3>2 DEF Counted
  <2>2. Enabling(srv, FALSE, 1, "bound", FALSE)
    <3>1. \A d \in Conn : Offered(srv, d, 1, "bound", FALSE) BY <1>3, <1>5 DEF Offered, Lacks
    <3> QED BY <1>2, <1>3, <3>1 DEF Enabling
  <2>3. Asked(srv, 1, "bound") BY <1>3, <1>4, <1>5 DEF Asked, Lacks
  <2>4. Claims(srv, 0) BY <1>2, <1>3, <1>5 DEF Claims, NoH
  <2>5. Rising(srv, 1, e) BY <1>3, <1>4, <1>5, <1>8 DEF Rising
  <2>6. Cuts(srv, FALSE) BY <1>3, <1>5 DEF Cuts, Lacks
  <2>7. Ranges(srv) BY <1>2, <1>3, <1>4, <1>5 DEF Ranges, Small
  <2> QED BY <1>2, <1>8, <2>1, <2>2, <2>3, <2>4, <2>5, <2>6, <2>7 DEF Up
<1> HIDE DEF e
<1>10. Up(srv, partial, cl.conn, cl.phase, cl.sent, Len(hist.done), Pending) BY <1>1, <1>5, <1>6, <1>8, <1>9
<1> QED BY <1>4, <1>1, <1>5, <1>6, <1>7, <1>8, <1>10 DEF UpInv

(* However connections are lost and resumed: what is on its way to the     *)
(* session continues what it has counted. *)
THEOREM AlwaysUpInv == ASSUME ~MayWait PROVE Spec => []UpInv
<1>1. SmacksInit => UpInv BY UpInit
<1>2. SmacksInv /\ UpInv /\ [Next]_vars => UpInv' BY UpStep
<1> QED BY <1>1, <1>2, AlwaysSmacksInv, PTL DEF Spec

(* When handlers do not wait and connections do not break inside a stanza: *)
(* what the client sends is processed once and in order, no count the      *)
(* server gives out exceeds what was processed, everything read is         *)
(* counted, and the client's own counts are never refused.                 *)
THEOREM UpstreamProcessingHolds ==
  ASSUME ~MayWait, ~MayCut PROVE Spec => []UpstreamProcessing
<1>1. SmacksInv /\ UpInv => UpstreamProcessing
  <2> SUFFICES ASSUME SmacksInv, UpInv PROVE UpstreamProcessing OBVIOUS
  <2> DEFINE n == Len(hist.done)
  <2>1. /\ Right(srv) /\ Sound(srv) /\ Up(srv, partial, cl.conn, cl.phase, cl.sent, n, Pending) /\ n \in Nat
        /\ cl.conn \in Conn \union {None} /\ cl.sent \in Nat /\ (cl.conn = None => cl.phase \in {"off", "gone"})
    BY UpIs
  <2>2. ProcessedOnceInOrder BY DEF UpInv, ProcessedOnceInOrder
  <2>3. ClaimedMeansProcessed BY <2>1 DEF UpInv, ClaimedMeansProcessed, Up, Claims
  <2>4. HonestNotRejected BY DEF UpInv, HonestNotRejected
  <2>5. QuiescentAllCounted
    <3> SUFFICES ASSUME cl.phase = "on", cl.conn = srv.conn, ~srv.destroyed, srv.up[cl.conn] = <<>>
                 PROVE  srv.handled = cl.sent
      BY DEF QuiescentAllCounted
    <3>1. cl.conn \in Conn BY <2>1
    <3>2. srv.owner[cl.conn] = "S" BY <2>1, <3>1 DEF Sound, Owns
    <3>3. ~partial BY <2>1 DEF Up, Cuts
    <3>4. Carries(<<>>, srv.handled, cl.sent) /\ srv.handled <= cl.sent /\ srv.handled \in Int
      <4>1. PICK e \in srv.handled..cl.sent :
              Carries(srv.up[cl.conn], srv.handled, e)
              /\ (cl.conn = cl.conn => e = IF cl.phase = "resuming" THEN srv.handled ELSE cl.sent)
        BY <2>1, <3>1, <3>2, <3>3 DEF Up, Counted
      <4>2. e = cl.sent BY <4>1
      <4> QED BY <2>1, <4>1, <4>2, SoundIs DEF Up, Counted
    <3>5. ~(srv.handled < cl.sent)
      <4> SUFFICES ASSUME srv.handled < cl.sent PROVE FALSE OBVIOUS
      <4>1. cl.sent \in (srv.handled + 1)..cl.sent BY <2>1, <3>4
      <4>2. PICK k \in DOMAIN <<>> : TRUE BY <3>4, <4>1 DEF Carries
      <4> QED BY <4>2
    <3> QED BY <2>1, <3>4, <3>5
  <2> QED BY <2>2, <2>3, <2>4, <2>5 DEF UpstreamProcessing
<1> QED BY <1>1, AlwaysUpInv, AlwaysSmacksInv, PTL

(* A sequence is one of what its elements are. *)
LEMMA SeqOf ==
  ASSUME NEW S, NEW T, NEW s \in Seq(S), \A k \in DOMAIN s : s[k] \in T
  PROVE  s \in Seq(T)
OBVIOUS

(* The items on the connections are those the type invariant lists. *)
LEMMA ItemTypeIs ==
  /\ \A s \in Seq(UpItem) : Small(s) => s \in Seq(ItemType)
  /\ \A s \in Seq(DownItem) : Small(s) => s \in Seq(ItemType)
<1>1. \A i : (i \in UpItem \/ i \in DownItem) /\ i.n \in Numbers => i \in ItemType
  BY DEF UpItem, DownItem, ItemType, Numbers
<1>2. ASSUME NEW S, NEW s \in Seq(S), S = UpItem \/ S = DownItem, Small(s) PROVE s \in Seq(ItemType)
  <2>1. ASSUME NEW k \in DOMAIN s PROVE s[k] \in ItemType
    <3>1. s[k] \in S OBVIOUS
    <3>2. s[k].n \in Numbers BY <1>2 DEF Small
    <3> QED BY <1>1, <1>2, <3>1, <3>2
  <2> QED BY <2>1, SeqOf
<1> QED BY <1>2

(* When handlers do not wait and no session is ended before stream         *)
(* management is on: a token never leads to a dead session, nor two        *)
(* connections to one, and every field keeps its type, the numbers within  *)
(* the bounds.                                                             *)
THEOREM SessionRegistryHolds ==
  ASSUME ~MayWait, ~MayCloseEarly PROVE Spec => []SessionRegistry
<1>1. SmacksInv /\ UpInv => TypeOK
  <2> SUFFICES ASSUME SmacksInv, UpInv PROVE TypeOK OBVIOUS
  <2>1. srv \in Server /\ Types /\ Ranges(srv) /\ inbox \in Seq(InItem) /\ Calm /\ Pending.n \in Numbers
    BY UpIs DEF SmacksInv, Up, UpInv, Sound
  <2>2. srv.up \in [Conn -> Seq(ItemType)] /\ srv.down \in [Conn -> Seq(ItemType)]
    <3>1. srv.up \in [Conn -> Seq(UpItem)] /\ srv.down \in [Conn -> Seq(DownItem)] BY <2>1 DEF Server
    <3>2. \A c \in Conn : srv.up[c] \in Seq(ItemType) /\ srv.down[c] \in Seq(ItemType)
      BY <2>1, <3>1, ItemTypeIs DEF Ranges
    <3> QED BY <3>1, <3>2
  <2>3. inbox \in Seq(ItemType)
    <3>1. CASE inbox = <<>> BY <3>1
    <3>2. CASE inbox # <<>>
      <4>1. Len(inbox) = 1 /\ inbox[1] \in InItem /\ inbox[1].n \in Numbers
        <5>1. Len(inbox) \in Nat /\ Len(inbox) # 0 /\ Len(inbox) <= 1 BY <2>1, <3>2 DEF Calm
        <5>2. Len(inbox) = 1 BY <5>1
        <5>3. inbox[1] \in InItem BY <2>1, <5>2
        <5> QED BY <2>1, <3>2, <5>2, <5>3 DEF Pending
      <4>2. inbox[1] \in ItemType
        <5>1. ItemType = [t : {"stanza", "a", "r", "enable", "enabled", "resume", "resumed", "failed",
                               "close", "end", "half", "expire"}, n : Numbers] BY DEF ItemType, Numbers
        <5> QED BY <4>1, <5>1 DEF InItem
      <4>3. inbox = [k \in 1..1 |-> inbox[1]] BY <2>1, <4>1
      <4> QED BY <4>2, <4>3
    <3> QED BY <3>1, <3>2
  <2>4. cl \in Client /\ hist \in History /\ thread \in {"ready", "waiting"} /\ partial \in BOOLEAN BY <2>1 DEF Types
  <2>5. /\ srv.smacks \in {"nil", "on", "off"} /\ srv.watchdog \in {"none", "armed", "fired"}
        /\ {srv.token, srv.registered, srv.hibernating, srv.awaiting_ack, srv.destroyed,
            srv.closing, srv.grace, partial, hist.rejected, hist.stopped} \subseteq BOOLEAN
    <3>1. /\ srv.token \in BOOLEAN /\ srv.registered \in BOOLEAN /\ srv.hibernating \in BOOLEAN
          /\ srv.awaiting_ack \in BOOLEAN /\ srv.destroyed \in BOOLEAN /\ srv.closing \in BOOLEAN
          /\ srv.grace \in BOOLEAN /\ srv.smacks \in {"nil", "on", "off"} /\ srv.watchdog \in {"none", "armed", "fired"}
      BY <2>1 DEF Server
    <3>2. hist.rejected \in BOOLEAN /\ hist.stopped \in BOOLEAN BY <2>4 DEF History
    <3> QED BY <2>4, <3>1, <3>2
  <2>6. srv.conn \in Conn \union {None} /\ cl.conn \in Conn \union {None} BY <2>1, <2>4 DEF Server, Client
  <2>7. srv.owner \in [Conn -> {"none", "S", "N"}] /\ srv.handled \in 0..MaxIn /\ srv.old_h \in {NoH} \union 0..MaxIn
    BY <2>1 DEF Server, Ranges
  <2>8. cl.phase \in {"bound", "enabling", "on", "off", "resuming", "fresh", "gone"} BY <2>4 DEF Client
  <2> QED BY <2>2, <2>3, <2>4, <2>5, <2>6, <2>7, <2>8 DEF TypeOK
<1>2. TypeOK /\ RegisteredIsResumable /\ OneConnection => SessionRegistry BY DEF SessionRegistry
<1> QED BY <1>1, <1>2, AlwaysUpInv, AlwaysSmacksInv, RegisteredIsResumableHolds, OneConnectionHolds, PTL
=============================================================================
