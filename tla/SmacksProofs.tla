---------------------------- MODULE SmacksProofs -----------------------------
(***************************************************************************)
(* Proofs about stream management, for every bound on connections and      *)
(* stanzas, every queue size, and whether or not handlers wait,            *)
(* connections break inside a stanza, sessions are closed early or the     *)
(* server is stopped: what is routed to a session is received once and in  *)
(* order, reported as undelivered, or was pushed out of a full queue.      *)
(* SmacksUpstreamProofs goes on to the client's stanzas, the registry of   *)
(* tokens and the timers.                                                  *)
(***************************************************************************)
EXTENDS Smacks, TLAPS

(* What travels to the server, to the client and into the session's thread. *)
UpItem == [t : {"stanza", "a", "r", "enable", "resume", "close", "half"}, n : Int]
DownItem == [t : {"stanza", "a", "r", "enabled", "resumed", "failed", "end"}, n : Int]
InItem == [t : {"stanza", "a", "r", "enable", "close", "expire"}, n : Int]

(* The types of the session, the client and the history. *)
Queue == [head : Nat, tail : Nat, queue : Seq(Nat)]

Server ==
  [smacks : {"nil", "on", "off"}, token : BOOLEAN, registered : BOOLEAN, q : Queue,
   hibernating : BOOLEAN, watchdog : {"none", "armed", "fired"}, awaiting_ack : BOOLEAN,
   last_requested_h : Int, handled : Int, destroyed : BOOLEAN,
   conn : Conn \union {None}, closing : BOOLEAN, grace : BOOLEAN, old_h : Int,
   owner : [Conn -> {"none", "S", "N"}], closed : SUBSET Conn,
   up : [Conn -> Seq(UpItem)], down : [Conn -> Seq(DownItem)], failed : SUBSET Nat]

Client ==
  [phase : {"bound", "enabling", "on", "off", "resuming", "fresh", "gone"},
   conn : Conn \union {None}, got : Seq(Nat), sent : Nat, acked : Int, asks : Nat]

History ==
  [out : Nat, lost : SUBSET Nat, done : Seq(Nat), rejected : BOOLEAN, stopped : BOOLEAN]

Types ==
  /\ srv \in Server /\ cl \in Client /\ hist \in History
  /\ thread \in {"ready", "waiting"} /\ inbox \in Seq(InItem)
  /\ chunk \in [c : Conn \union {None}, n : Nat] /\ (chunk.n > 0 => chunk.c \in Conn)
  /\ paused \subseteq Conn /\ partial \in BOOLEAN
  /\ cl.conn = None => cl.phase \in {"off", "gone"}

(* The stanzas in s are those numbered g + 1 to e, in order. *)
Carries(s, g, e) ==
  /\ \A k \in DOMAIN s : s[k].t = "stanza" => s[k].n \in (g + 1)..e
  /\ \A j, k \in DOMAIN s : j < k /\ s[j].t = "stanza" /\ s[k].t = "stanza" => s[j].n < s[k].n
  /\ \A n \in (g + 1)..e : \E k \in DOMAIN s : s[k].t = "stanza" /\ s[k].n = n

(* The queue holds the newest stanzas, no more than the unacknowledged     *)
(* ones; every other stanza was acknowledged, failed or pushed out.        *)
Booked(q, failed, out, lost) ==
  /\ q.head = out /\ q.tail <= out /\ Len(q.queue) <= out - q.tail
  /\ \A i \in 1..Len(q.queue) : q.queue[i] = out - Len(q.queue) + i
  /\ \A n \in 1..out : n <= q.tail \/ n > out - Len(q.queue) \/ n \in failed \/ n \in lost
  /\ \A n \in failed : n > q.tail

(* How the session's fields hang together. *)
Alive(x) ==
  /\ x.smacks # "off"
  /\ x.destroyed => x.conn = None /\ x.smacks = "nil" /\ ~x.token /\ ~x.hibernating
  /\ x.failed # {} => x.destroyed
  /\ x.token => x.smacks = "on"
  /\ x.smacks = "nil" /\ ~x.destroyed => x.q.head = 0
  /\ x.hibernating => x.conn = None
  /\ x.grace => x.closing
  /\ x.closing /\ x.token => x.q.head = 0

(* A session that is alive owns the connection it sends on, and no other.  *)
Owns(x) == ~x.destroyed => \A c \in Conn : x.owner[c] = "S" <=> x.conn = c

(* A request to resume is the first thing a connection carries, and is not *)
(* handed to S; nothing was ever sent on a connection that is not in use.  *)
Wired(x) ==
  /\ \A c \in Conn : \A k \in DOMAIN x.up[c] : x.up[c][k].t = "resume" => k = 1 /\ x.owner[c] # "S"
  /\ \A c \in Conn : x.owner[c] = "none" /\ c \notin x.closed => x.down[c] = <<>>

(* No acknowledgement on its way counts more than the g stanzas received.  *)
Honest(s, g) == \A k \in DOMAIN s : s[k].t \in {"a", "resume"} => s[k].n \in 0..g

(* What the client still gets on c continues the g stanzas it has; on the  *)
(* session's own connection it is everything that was sent.  While the     *)
(* client waits for an answer to its request to resume, its count does not *)
(* change.                                                                 *)
Flows(x, c, g, out) ==
  /\ \E e \in g..out : Carries(x.down[c], g, e) /\ (x.conn = c => e = out)
  /\ x.up[c] # <<>> /\ x.up[c][1].t = "resume" => x.up[c][1].n = g /\ x.down[c] = <<>>

(* The connections: c is the client's, g the number of stanzas it has.     *)
Net(x, c, g, out) ==
  /\ Wired(x)
  /\ \A d \in Conn : Honest(x.up[d], g)
  /\ c # None => Flows(x, c, g, out)

(* The queue, as far as the g stanzas received go. *)
Books(x, g, out, lost) == Booked(x.q, x.failed, out, lost) /\ x.q.tail <= g

(* The server's state x is right for the client and the history. *)
RightFor(x, c, g, out, lost) ==
  /\ x \in Server /\ Alive(x) /\ Owns(x)
  /\ Net(x, c, g, out) /\ Books(x, g, out, lost)

(* RightFor, with the client and the history as they are. *)
Right(x) ==
  /\ x \in Server /\ Alive(x) /\ Owns(x)
  /\ Net(x, cl.conn, Len(cl.got), hist.out)
  /\ Books(x, Len(cl.got), hist.out, hist.lost)

(* The client has the stanzas 1 to Len(got). *)
Received == Len(cl.got) <= hist.out /\ \A k \in 1..Len(cl.got) : cl.got[k] = k

(* The inductive invariant. *)
SmacksInv == Types /\ Received /\ Right(srv) /\ Honest(inbox, Len(cl.got))
-----------------------------------------------------------------------------
(* Sequences of items. *)

(* One more item on the way that is not a stanza. *)
LEMMA CarriesOther ==
  ASSUME NEW T, NEW s \in Seq(T), NEW i \in T, i.t # "stanza", NEW g \in Nat, NEW e \in Nat, Carries(s, g, e)
  PROVE  Carries(s \o <<i>>, g, e)
<1> DEFINE u == s \o <<i>>
<1>1. /\ DOMAIN s = 1..Len(s) /\ DOMAIN u = 1..(Len(s) + 1) /\ Len(s) \in Nat
      /\ \A k \in 1..Len(s) : u[k] = s[k]
      /\ u[Len(s) + 1] = i
  OBVIOUS
<1> HIDE DEF u
<1>2. \A k \in DOMAIN u : u[k].t = "stanza" => k \in DOMAIN s /\ u[k] = s[k] BY <1>1
<1>3. \A k \in DOMAIN s : k \in DOMAIN u /\ u[k] = s[k] BY <1>1
<1> QED BY <1>2, <1>3 DEF Carries, u

(* One more stanza on the way. *)
LEMMA CarriesNext ==
  ASSUME NEW T, NEW s \in Seq(T), NEW i \in T, NEW g \in Nat, NEW e \in Nat, g <= e, Carries(s, g, e),
         i.t = "stanza", i.n = e + 1
  PROVE  Carries(s \o <<i>>, g, e + 1)
<1> DEFINE u == s \o <<i>>
           l == Len(s)
<1>1. /\ l \in Nat /\ DOMAIN s = 1..l /\ DOMAIN u = 1..(l + 1)
      /\ \A k \in 1..l : u[k] = s[k]
      /\ u[l + 1] = i
  OBVIOUS
<1> HIDE DEF u, l
<1>2. \A k \in DOMAIN u : (k \in DOMAIN s /\ u[k] = s[k]) \/ (k = l + 1 /\ u[k] = i) BY <1>1
<1>3. \A k \in DOMAIN s : k \in DOMAIN u /\ u[k] = s[k] /\ k < l + 1 BY <1>1
<1>4. \A k \in DOMAIN u : u[k].t = "stanza" => u[k].n \in (g + 1)..(e + 1) BY <1>2 DEF Carries
<1>5. ASSUME NEW j \in DOMAIN u, NEW k \in DOMAIN u, j < k, u[j].t = "stanza", u[k].t = "stanza" PROVE u[j].n < u[k].n
  <2>1. j \in DOMAIN s /\ u[j] = s[j] BY <1>1, <1>2, <1>5
  <2>2. s[j].n \in (g + 1)..e BY <1>5, <2>1 DEF Carries
  <2>3. CASE k \in DOMAIN s /\ u[k] = s[k] BY <1>5, <2>1, <2>3 DEF Carries
  <2>4. CASE k = l + 1 /\ u[k] = i BY <2>1, <2>2, <2>4
  <2> QED BY <1>2, <2>3, <2>4
<1>6. ASSUME NEW n \in (g + 1)..(e + 1) PROVE \E k \in DOMAIN u : u[k].t = "stanza" /\ u[k].n = n
  <2>1. CASE n = e + 1 BY <1>1, <2>1
  <2>2. CASE n # e + 1
    <3>1. n \in (g + 1)..e BY <2>2
    <3> QED BY <1>3, <3>1 DEF Carries
  <2> QED BY <2>1, <2>2
<1> QED BY <1>4, <1>5, <1>6 DEF Carries, u

(* The client takes an item that is not a stanza. *)
LEMMA CarriesTail ==
  ASSUME NEW T, NEW s \in Seq(T), s # <<>>, Head(s).t # "stanza", NEW g \in Nat, NEW e \in Nat, Carries(s, g, e)
  PROVE  Carries(Tail(s), g, e)
<1> DEFINE u == Tail(s)
           l == Len(s) - 1
<1>1. /\ l \in Nat /\ DOMAIN s = 1..(l + 1) /\ DOMAIN u = 1..l /\ Head(s) = s[1]
      /\ \A k \in 1..l : u[k] = s[k + 1]
  OBVIOUS
<1> HIDE DEF u, l
<1>2. \A k \in DOMAIN u : k + 1 \in DOMAIN s /\ u[k] = s[k + 1] BY <1>1
<1>3. \A k \in DOMAIN s : s[k].t = "stanza" => k - 1 \in DOMAIN u /\ u[k - 1] = s[k] BY <1>1
<1>4. \A j, k \in DOMAIN u : j < k => j + 1 < k + 1 BY <1>1
<1>5. \A n \in (g + 1)..e : \E k \in DOMAIN u : u[k].t = "stanza" /\ u[k].n = n BY <1>3 DEF Carries
<1>6. \A k \in DOMAIN u : u[k].t = "stanza" => u[k].n \in (g + 1)..e BY <1>2 DEF Carries
<1>7. \A j, k \in DOMAIN u : j < k /\ u[j].t = "stanza" /\ u[k].t = "stanza" => u[j].n < u[k].n
  BY <1>2, <1>4 DEF Carries
<1> QED BY <1>5, <1>6, <1>7 DEF Carries, u

(* The client takes a stanza: it is the next one. *)
LEMMA CarriesTaken ==
  ASSUME NEW T, NEW s \in Seq(T), s # <<>>, Head(s).t = "stanza", NEW g \in Nat, NEW e \in Nat, Carries(s, g, e)
  PROVE  Head(s).n = g + 1 /\ g + 1 <= e /\ Carries(Tail(s), g + 1, e)
<1> DEFINE u == Tail(s)
           l == Len(s) - 1
<1>1. /\ l \in Nat /\ DOMAIN s = 1..(l + 1) /\ DOMAIN u = 1..l /\ Head(s) = s[1]
      /\ \A k \in 1..l : u[k] = s[k + 1]
  OBVIOUS
<1> HIDE DEF u, l
<1>2. 1 \in DOMAIN s /\ s[1].t = "stanza" BY <1>1
<1>3. s[1].n \in (g + 1)..e BY <1>2 DEF Carries
<1>4. s[1].n = g + 1
  <2>1. g + 1 \in (g + 1)..e BY <1>3
  <2>2. PICK k \in DOMAIN s : s[k].t = "stanza" /\ s[k].n = g + 1 BY <2>1 DEF Carries
  <2>3. CASE k = 1 BY <2>2, <2>3
  <2>4. CASE k # 1
    <3>1. 1 < k BY <1>1, <2>4
    <3>2. s[1].n < s[k].n BY <1>2, <2>2, <3>1 DEF Carries
    <3> QED BY <1>3, <2>2, <3>2
  <2> QED BY <2>3, <2>4
<1>5. \A k \in DOMAIN u : k + 1 \in DOMAIN s /\ 1 < k + 1 /\ u[k] = s[k + 1] BY <1>1
<1>6. \A k \in DOMAIN u : u[k].t = "stanza" => u[k].n \in ((g + 1) + 1)..e
  <2> SUFFICES ASSUME NEW k \in DOMAIN u, u[k].t = "stanza" PROVE u[k].n \in ((g + 1) + 1)..e OBVIOUS
  <2>1. s[k + 1].n \in (g + 1)..e BY <1>5 DEF Carries
  <2>2. s[1].n < s[k + 1].n BY <1>2, <1>5 DEF Carries
  <2> QED BY <1>4, <1>5, <2>1, <2>2
<1>7. \A j, k \in DOMAIN u : j < k /\ u[j].t = "stanza" /\ u[k].t = "stanza" => u[j].n < u[k].n
  <2>1. \A j, k \in DOMAIN u : j < k => j + 1 < k + 1 BY <1>1
  <2> QED BY <1>5, <2>1 DEF Carries
<1>8. \A n \in ((g + 1) + 1)..e : \E k \in DOMAIN u : u[k].t = "stanza" /\ u[k].n = n
  <2> SUFFICES ASSUME NEW n \in ((g + 1) + 1)..e PROVE \E k \in DOMAIN u : u[k].t = "stanza" /\ u[k].n = n OBVIOUS
  <2>1. n \in (g + 1)..e /\ n # g + 1 OBVIOUS
  <2>2. PICK k \in DOMAIN s : s[k].t = "stanza" /\ s[k].n = n BY <2>1 DEF Carries
  <2>3. k # 1 BY <1>4, <2>1, <2>2
  <2>4. k - 1 \in DOMAIN u /\ u[k - 1] = s[k] BY <1>1, <2>3
  <2> QED BY <2>2, <2>4
<1> QED BY <1>1, <1>3, <1>4, <1>6, <1>7, <1>8 DEF Carries, u

(* Stanzas g + 1 to g + m sent after what holds none. *)
LEMMA CarriesAgain ==
  ASSUME NEW T, NEW s \in Seq(T), NEW g \in Nat, NEW m \in Nat, Carries(s, g, g),
         NEW r \in Seq(T), Len(r) = m, \A i \in 1..m : r[i].t = "stanza" /\ r[i].n = g + i
  PROVE  Carries(s \o r, g, g + m)
<1> DEFINE u == s \o r
           l == Len(s)
<1>1. /\ l \in Nat /\ DOMAIN s = 1..l /\ DOMAIN u = 1..(l + m)
      /\ \A k \in 1..l : u[k] = s[k]
      /\ \A k \in 1..m : u[l + k] = r[k]
  BY SMTT(60)
<1> HIDE DEF u, l
<1>2. \A k \in 1..l : s[k].t # "stanza"
  <2> SUFFICES ASSUME NEW k \in DOMAIN s, s[k].t = "stanza" PROVE FALSE BY <1>1
  <2>1. s[k].n \in (g + 1)..g BY DEF Carries
  <2>2. (g + 1)..g = {} OBVIOUS
  <2> QED BY <2>1, <2>2
<1>3. \A k \in DOMAIN u : u[k].t = "stanza" => k - l \in 1..m /\ u[k].n = g + (k - l)
  <2> SUFFICES ASSUME NEW k \in DOMAIN u, u[k].t = "stanza" PROVE k - l \in 1..m /\ u[k].n = g + (k - l) OBVIOUS
  <2>1. ~(k <= l) BY <1>1, <1>2
  <2>2. k - l \in 1..m /\ k = l + (k - l) BY <1>1, <2>1
  <2>3. u[k] = r[k - l] BY <1>1, <2>2
  <2> QED BY <2>2, <2>3
<1>4. \A k \in DOMAIN u : u[k].t = "stanza" => u[k].n \in (g + 1)..(g + m) BY <1>1, <1>3
<1>5. \A j, k \in DOMAIN u : j < k /\ u[j].t = "stanza" /\ u[k].t = "stanza" => u[j].n < u[k].n BY <1>1, <1>3
<1>6. \A n \in (g + 1)..(g + m) : \E k \in DOMAIN u : u[k].t = "stanza" /\ u[k].n = n
  <2> SUFFICES ASSUME NEW n \in (g + 1)..(g + m) PROVE \E k \in DOMAIN u : u[k].t = "stanza" /\ u[k].n = n OBVIOUS
  <2>1. n - g \in 1..m /\ g + (n - g) = n BY <1>1
  <2>2. l + (n - g) \in DOMAIN u /\ u[l + (n - g)] = r[n - g] BY <1>1, <2>1
  <2>3. r[n - g].t = "stanza" /\ r[n - g].n = n BY <2>1
  <2> QED BY <2>2, <2>3
<1> QED BY <1>4, <1>5, <1>6 DEF Carries, u

(* Nothing on the way carries nothing. *)
LEMMA CarriesNone == ASSUME NEW g \in Nat PROVE Carries(<<>>, g, g)
BY DEF Carries

(* Where an item of a sequence that grows or shrinks comes from. *)
LEMMA ConcatItems ==
  ASSUME NEW T, NEW s \in Seq(T), NEW r \in Seq(T)
  PROVE  /\ s \o r \in Seq(T) /\ DOMAIN s = 1..Len(s)
         /\ \A k \in DOMAIN (s \o r) : (k \in DOMAIN s /\ (s \o r)[k] = s[k]) \/ (k > Len(s) /\ k - Len(s) \in DOMAIN r /\ (s \o r)[k] = r[k - Len(s)])
OBVIOUS

(* Where an item of a sequence that shrinks comes from. *)
LEMMA TailItems ==
  ASSUME NEW T, NEW s \in Seq(T), s # <<>>
  PROVE  /\ Tail(s) \in Seq(T) /\ Head(s) \in T /\ Head(s) = s[1] /\ 1 \in DOMAIN s
         /\ \A k \in DOMAIN Tail(s) : k + 1 \in DOMAIN s /\ Tail(s)[k] = s[k + 1]
OBVIOUS

(* Acknowledgements stay honest while the client receives and sends. *)
LEMMA HonestConcat ==
  ASSUME NEW s \in Seq(UpItem), NEW r \in Seq(UpItem), NEW g, Honest(s, g), Honest(r, g)
  PROVE  Honest(s \o r, g)
BY ConcatItems DEF Honest

(* Taking an item off a sequence keeps it honest. *)
LEMMA HonestTail ==
  ASSUME NEW s \in Seq(UpItem), s # <<>>, NEW g, Honest(s, g)
  PROVE  Honest(Tail(s), g)
BY TailItems DEF Honest

(* What is honest stays so when the client has received more. *)
LEMMA HonestMore ==
  ASSUME NEW s, NEW g \in Nat, NEW h \in Nat, g <= h, Honest(s, g)
  PROVE  Honest(s, h)
BY DEF Honest
-----------------------------------------------------------------------------
(* The server's state from one field to the next. *)

(* What the proofs below know about the client and the history. *)
Around == cl \in Client /\ hist \in History /\ Received

(* The same, as types. *)
LEMMA AroundIs ==
  ASSUME Around
  PROVE  /\ Len(cl.got) \in Nat /\ hist.out \in Nat /\ Len(cl.got) <= hist.out /\ hist.lost \subseteq Nat
         /\ cl.conn \in Conn \union {None} /\ cl.got \in Seq(Nat)
<1>1. cl.got \in Seq(Nat) /\ cl.conn \in Conn \union {None} BY DEF Around, Client
<1>2. hist.out \in Nat /\ hist.lost \subseteq Nat BY DEF Around, History
<1>3. Len(cl.got) <= hist.out BY DEF Around, Received
<1> QED BY <1>1, <1>2, <1>3

(* No connection is called None. *)
LEMMA NoneIsNoConn == None \notin Conn /\ Conn \subseteq Nat
BY SmacksAssumption DEF None, Conn

(* The session itself, but for its ack requests. *)
Self(x, y) ==
  /\ y.smacks = x.smacks /\ y.token = x.token /\ y.registered = x.registered /\ y.q = x.q
  /\ y.hibernating = x.hibernating /\ y.watchdog = x.watchdog /\ y.destroyed = x.destroyed
  /\ y.handled = x.handled /\ y.closing = x.closing /\ y.grace = x.grace /\ y.failed = x.failed
  /\ y.old_h = x.old_h

(* What it is connected to. *)
Links(x, y) ==
  y.conn = x.conn /\ y.owner = x.owner /\ y.closed = x.closed /\ y.up = x.up

(* Fields the invariant does not look at. *)
LEMMA RightSame ==
  ASSUME NEW x, NEW y \in Server, Right(x), y.down = x.down,
         y.smacks = x.smacks, y.token = x.token, y.q = x.q, y.hibernating = x.hibernating,
         y.destroyed = x.destroyed, y.conn = x.conn, y.closing = x.closing, y.grace = x.grace,
         y.owner = x.owner, y.closed = x.closed, y.up = x.up, y.failed = x.failed
  PROVE  Right(y)
<1>1. Alive(y) BY DEF Right, Alive
<1>2. Owns(y) BY DEF Right, Owns
<1>3. Net(y, cl.conn, Len(cl.got), hist.out) BY DEF Right, Net, Wired, Flows
<1>4. Books(y, Len(cl.got), hist.out, hist.lost) BY DEF Right, Books
<1> QED BY <1>1, <1>2, <1>3, <1>4 DEF Right

(* The connections stay right when the session lets go of its own. *)
LEMMA NetLess ==
  ASSUME NEW x, NEW y, NEW c \in Conn \union {None}, NEW g, NEW out, Net(x, c, g, out),
         y.up = x.up, y.owner = x.owner, y.closed = x.closed, y.down = x.down, y.conn \in {x.conn, None}
  PROVE  Net(y, c, g, out)
<1>1. Wired(y) BY DEF Net, Wired
<1>2. c # None => Flows(y, c, g, out)
  <2> SUFFICES ASSUME c # None PROVE Flows(y, c, g, out) OBVIOUS
  <2>1. Flows(x, c, g, out) BY DEF Net
  <2>2. PICK e \in g..out : Carries(x.down[c], g, e) /\ (x.conn = c => e = out) BY <2>1 DEF Flows
  <2>3. y.conn = c => x.conn = c OBVIOUS
  <2> QED BY <2>1, <2>2, <2>3 DEF Flows
<1> QED BY <1>1, <1>2 DEF Net

(* Closing a connection. *)
LEMMA CloseIs ==
  ASSUME NEW x \in Server, NEW c \in Conn
  PROVE  /\ CloseConn(x, c) \in Server /\ Self(x, CloseConn(x, c))
         /\ CloseConn(x, c).owner = [x.owner EXCEPT ![c] = "none"]
         /\ CloseConn(x, c).up = [x.up EXCEPT ![c] = <<>>]
         /\ CloseConn(x, c).closed = x.closed \union {c}
         /\ CloseConn(x, c).down = x.down
         /\ CloseConn(x, c).conn = x.conn
<1>1. CloseConn(x, c) = [x EXCEPT !.closed = @ \union {c}, !.owner[c] = "none", !.up[c] = <<>>]
  BY NoneIsNoConn DEF CloseConn
<1>2. <<>> \in Seq(UpItem) OBVIOUS
<1> DEFINE o == [x.owner EXCEPT ![c] = "none"]
           u == [x.up EXCEPT ![c] = <<>>]
           d == x.closed \union {c}
<1>3. o \in [Conn -> {"none", "S", "N"}] /\ u \in [Conn -> Seq(UpItem)] /\ d \in SUBSET Conn BY <1>2 DEF Server
<1>4. CloseConn(x, c) = [x EXCEPT !.closed = d, !.owner = o, !.up = u] BY <1>1
<1> HIDE DEF o, u, d
<1>5. CloseConn(x, c) \in Server BY <1>3, <1>4, ZenonT(60) DEF Server
<1>6. Self(x, CloseConn(x, c)) BY <1>4 DEF Server, Self
<1> QED BY <1>4, <1>5, <1>6 DEF Server, o, u, d

(* The connections stay right when one is closed. *)
LEMMA NetClosed ==
  ASSUME NEW x \in Server, NEW c \in Conn, NEW d \in Conn \union {None}, NEW g, NEW out, Net(x, d, g, out)
  PROVE  Net(CloseConn(x, c), d, g, out)
<1> DEFINE y == CloseConn(x, c)
<1>1. /\ y.owner = [x.owner EXCEPT ![c] = "none"] /\ y.up = [x.up EXCEPT ![c] = <<>>]
      /\ y.closed = x.closed \union {c} /\ y.down = x.down /\ y.conn = x.conn
  BY CloseIs
<1>2. x.owner \in [Conn -> {"none", "S", "N"}] /\ x.up \in [Conn -> Seq(UpItem)] BY DEF Server
<1> HIDE DEF y
<1>3. y.up[c] = <<>> /\ DOMAIN y.up[c] = {} BY <1>1, <1>2
<1>4. \A e \in Conn \ {c} : y.up[e] = x.up[e] /\ y.owner[e] = x.owner[e] BY <1>1, <1>2
<1>5. Wired(y) BY <1>1, <1>3, <1>4 DEF Net, Wired
<1>6. \A e \in Conn : Honest(y.up[e], g) BY <1>3, <1>4 DEF Net, Honest
<1>7. d # None => Flows(y, d, g, out)
  <2> SUFFICES ASSUME d # None PROVE Flows(y, d, g, out) OBVIOUS
  <2>1. Flows(x, d, g, out) BY DEF Net
  <2> QED BY <1>1, <1>3, <1>4, <2>1 DEF Flows
<1> QED BY <1>5, <1>6, <1>7 DEF Net, y

(* Closing a connection that is not the session's. *)
LEMMA RightClosed ==
  ASSUME Around, NEW x, Right(x), NEW c \in Conn, x.conn # c
  PROVE  Right(CloseConn(x, c)) /\ Self(x, CloseConn(x, c))
<1> DEFINE y == CloseConn(x, c)
<1>0. x \in Server /\ cl.conn \in Conn \union {None} BY AroundIs DEF Right
<1>1. y \in Server /\ Self(x, y) /\ y.conn = x.conn /\ y.owner = [x.owner EXCEPT ![c] = "none"] BY <1>0, CloseIs
<1>2. Net(y, cl.conn, Len(cl.got), hist.out) BY <1>0, NetClosed DEF Right
<1> HIDE DEF y
<1>3. Alive(y) BY <1>1 DEF Right, Alive, Self
<1>4. Owns(y)
  <2>1. x.owner \in [Conn -> {"none", "S", "N"}] BY <1>0 DEF Server
  <2>2. y.owner[c] # "S" /\ \A d \in Conn \ {c} : y.owner[d] = x.owner[d] BY <1>1, <2>1
  <2>3. y.destroyed = x.destroyed BY <1>1 DEF Self
  <2> QED BY <1>1, <2>2, <2>3 DEF Right, Owns
<1>5. Books(y, Len(cl.got), hist.out, hist.lost) BY <1>1 DEF Right, Books, Self
<1>6. Right(y) BY <1>1, <1>2, <1>3, <1>4, <1>5 DEF Right
<1> QED BY <1>1, <1>6 DEF y

(* Writing to a connection. *)
LEMMA TransmitIs ==
  ASSUME NEW x \in Server, NEW c \in Conn, NEW s \in Seq(DownItem)
  PROVE  /\ Transmit(x, c, s) \in Server /\ Self(x, Transmit(x, c, s)) /\ Links(x, Transmit(x, c, s))
         /\ c = cl.conn => Transmit(x, c, s).down[c] = x.down[c] \o s
         /\ \A d \in Conn : d # c => Transmit(x, c, s).down[d] = x.down[d]
         /\ c # cl.conn => Transmit(x, c, s) = x
<1>1. CASE c # cl.conn BY <1>1 DEF Transmit, Self, Links
<1>2. CASE c = cl.conn
  <2> DEFINE d == [x.down EXCEPT ![c] = @ \o s]
  <2>1. d \in [Conn -> Seq(DownItem)]
    <3>1. x.down \in [Conn -> Seq(DownItem)] BY DEF Server
    <3>2. x.down[c] \o s \in Seq(DownItem) BY <3>1
    <3> QED BY <3>1, <3>2
  <2>2. Transmit(x, c, s) = [x EXCEPT !.down = d] BY <1>2 DEF Transmit
  <2> HIDE DEF d
  <2>3. Transmit(x, c, s) \in Server BY <2>1, <2>2, ZenonT(60) DEF Server
  <2>4. Self(x, Transmit(x, c, s)) BY <2>2 DEF Server, Self
  <2>5. Links(x, Transmit(x, c, s)) BY <2>2 DEF Server, Links
  <2>6. Transmit(x, c, s).down = d BY <2>2 DEF Server
  <2>7. x.down \in [Conn -> Seq(DownItem)] BY DEF Server
  <2> QED BY <1>2, <2>3, <2>4, <2>5, <2>6, <2>7 DEF d
<1> QED BY <1>1, <1>2

(* An item that is no stanza, on a connection in use whose request to      *)
(* resume has been read.                                                   *)
LEMMA RightTransmitted ==
  ASSUME Around, NEW x, Right(x), NEW c \in Conn, NEW i \in DownItem, i.t # "stanza",
         x.owner[c] # "none", x.up[c] = <<>> \/ x.up[c][1].t # "resume"
  PROVE  Right(Transmit(x, c, <<i>>))
<1>0. x \in Server BY DEF Right
<1>s. <<i>> \in Seq(DownItem) OBVIOUS
<1>1. CASE c # cl.conn
  <2>1. Transmit(x, c, <<i>>) = x BY <1>1 DEF Transmit
  <2> QED BY <2>1
<1>2. CASE c = cl.conn
  <2> DEFINE y == Transmit(x, c, <<i>>)
             g == Len(cl.got)
  <2>1. y \in Server /\ Self(x, y) /\ Links(x, y) BY <1>0, <1>s, TransmitIs
  <2>2. x.down \in [Conn -> Seq(DownItem)] BY <1>0 DEF Server
  <2>3. y.down[c] = x.down[c] \o <<i>> /\ \A d \in Conn : d # c => y.down[d] = x.down[d]
    BY <1>0, <1>s, <1>2, TransmitIs, ZenonT(60)
  <2> HIDE DEF y
  <2>4. Alive(y) BY <2>1 DEF Right, Alive, Self, Links
  <2>5. Owns(y) BY <2>1 DEF Right, Owns, Self, Links
  <2>6. Books(y, g, hist.out, hist.lost) BY <2>1 DEF Right, Books, Self
  <2>7. Wired(y) BY <2>1, <2>3 DEF Right, Net, Wired, Links
  <2>8. Flows(y, c, g, hist.out)
    <3>1. Flows(x, c, g, hist.out) BY <1>2, NoneIsNoConn DEF Right, Net
    <3>2. PICK e \in g..hist.out : Carries(x.down[c], g, e) /\ (x.conn = c => e = hist.out) BY <3>1 DEF Flows
    <3>3. g \in Nat /\ e \in Nat BY AroundIs
    <3> HIDE DEF g
    <3>4. Carries(x.down[c] \o <<i>>, g, e) BY <2>2, <3>2, <3>3, CarriesOther
    <3> QED BY <2>1, <2>3, <3>2, <3>4 DEF Flows, Links
  <2>9. \A d \in Conn : Honest(y.up[d], g) BY <2>1 DEF Right, Net, Links
  <2>10. Net(y, cl.conn, g, hist.out) BY <1>2, <2>7, <2>8, <2>9 DEF Net
  <2> QED BY <2>1, <2>4, <2>5, <2>6, <2>10 DEF Right, y
<1> QED BY <1>1, <1>2

(* A step that touches neither the session nor what it is connected to. *)
LEMMA RightSelf ==
  ASSUME NEW x, Right(x), NEW y \in Server, Self(x, y), Links(x, y), y.down = x.down
  PROVE  Right(y)
BY RightSame DEF Self, Links

(* A session with a connection is alive and owns it, and nothing on that   *)
(* connection is a request to resume.                                      *)
LEMMA ConnectedIs ==
  ASSUME NEW x, Right(x), x.conn # None
  PROVE  /\ x.conn \in Conn /\ ~x.destroyed /\ ~x.hibernating /\ x.owner[x.conn] = "S"
         /\ x.up[x.conn] = <<>> \/ x.up[x.conn][1].t # "resume"
<1>1. x.conn \in Conn /\ x.up \in [Conn -> Seq(UpItem)] BY DEF Right, Server
<1>2. ~x.destroyed /\ ~x.hibernating BY DEF Right, Alive
<1>3. x.owner[x.conn] = "S" BY <1>1, <1>2 DEF Right, Owns
<1>4. x.up[x.conn] # <<>> => 1 \in DOMAIN x.up[x.conn] BY <1>1
<1>5. x.up[x.conn] = <<>> \/ x.up[x.conn][1].t # "resume" BY <1>1, <1>3, <1>4 DEF Right, Net, Wired
<1> QED BY <1>1, <1>2, <1>3, <1>5

(* session.send of anything that is no stanza. *)
LEMMA RightSent ==
  ASSUME Around, NEW x, Right(x), NEW i \in DownItem, i.t # "stanza"
  PROVE  Right(Send(x, i)) /\ Self(x, Send(x, i)) /\ Links(x, Send(x, i))
<1>0. x \in Server /\ <<i>> \in Seq(DownItem) BY DEF Right
<1>1. CASE x.conn # None /\ ~x.closing
  <2>1. Send(x, i) = Transmit(x, x.conn, <<i>>) BY <1>1 DEF Send
  <2>2. /\ x.conn \in Conn /\ x.owner[x.conn] = "S"
        /\ x.up[x.conn] = <<>> \/ x.up[x.conn][1].t # "resume"
    BY <1>1, ConnectedIs
  <2>3. Right(Transmit(x, x.conn, <<i>>)) BY <2>2, RightTransmitted
  <2>4. Self(x, Transmit(x, x.conn, <<i>>)) /\ Links(x, Transmit(x, x.conn, <<i>>)) BY <1>0, <2>2, TransmitIs
  <2> QED BY <2>1, <2>3, <2>4
<1>2. CASE ~(x.conn # None /\ ~x.closing)
  <2>1. Send(x, i) = x BY <1>2 DEF Send
  <2> QED BY <2>1 DEF Self, Links
<1> QED BY <1>1, <1>2

(* What the server sends. *)
LEMMA ItemIs ==
  /\ \A n \in Int : Item("a", n) \in DownItem /\ Item("resumed", n) \in DownItem /\ Item("failed", n) \in DownItem
  /\ \A n \in Int : Item("stanza", n) \in DownItem
  /\ Item("r", 0) \in DownItem /\ Item("enabled", 0) \in DownItem /\ Item("end", 0) \in DownItem
  /\ \A n : /\ Item("a", n).t = "a" /\ Item("resumed", n).t = "resumed" /\ Item("failed", n).t = "failed"
            /\ Item("r", n).t = "r" /\ Item("enabled", n).t = "enabled" /\ Item("end", n).t = "end"
            /\ Item("stanza", n).t = "stanza" /\ Item("stanza", n).n = n
BY DEF Item, DownItem

(* Asking for an acknowledgement. *)
LEMMA RightRequested ==
  ASSUME Around, NEW x, Right(x), NEW force
  PROVE  LET y == request_ack_now_if_needed(x, force) IN Right(y) /\ Self(x, y) /\ Links(x, y)
<1> DEFINE w == Send(x, Item("r", 0))
           l == CountAcked(x.q) + CountUnacked(x.q)
           y == [w EXCEPT !.awaiting_ack = TRUE, !.last_requested_h = l]
<1>1. CASE ~should_ack(x, force)
  BY <1>1 DEF request_ack_now_if_needed, Self, Links
<1>2. CASE should_ack(x, force)
  <2>1. request_ack_now_if_needed(x, force) = y BY <1>2 DEF request_ack_now_if_needed
  <2>2. Right(w) /\ Self(x, w) /\ Links(x, w)
    <3>1. Item("r", 0) \in DownItem /\ Item("r", 0).t # "stanza" BY ItemIs
    <3> QED BY <3>1, RightSent
  <2>3. w \in Server BY <2>2 DEF Right
  <2>4. l \in Int
    <3>1. x.q \in Queue BY DEF Right, Server
    <3> QED BY <3>1 DEF Queue, CountAcked, CountUnacked
  <2> HIDE DEF w, l
  <2>5. y \in Server BY <2>3, <2>4 DEF Server
  <2>6. Self(w, y) BY <2>3 DEF Self, Server
  <2>7. Links(w, y) /\ y.down = w.down BY <2>3 DEF Links, Server
  <2> HIDE DEF y
  <2>8. Right(y) BY <2>2, <2>5, <2>6, <2>7, RightSelf
  <2>9. Self(x, y) BY <2>2, <2>6 DEF Self
  <2>10. Links(x, y) BY <2>2, <2>7 DEF Links
  <2> QED BY <2>1, <2>8, <2>9, <2>10
<1> QED BY <1>1, <1>2
-----------------------------------------------------------------------------
(* The end of a session. *)

(* consume() leaves both counters alone. *)
LEMMA ConsumeIs ==
  ASSUME NEW q \in Queue
  PROVE  /\ Consume(q) \in Queue /\ Consume(q).head = q.head /\ Consume(q).tail = q.tail
         /\ Consume(q).queue = <<>>
<1>1. <<>> \in Seq(Nat) OBVIOUS
<1> QED BY <1>1 DEF Queue, Consume

(* What is held goes to delivery/failure and nothing is forgotten. *)
LEMMA BookedFailed ==
  ASSUME NEW q \in Queue, NEW failed \in SUBSET Nat, NEW out \in Nat, NEW lost, Booked(q, failed, out, lost)
  PROVE  Booked(Consume(q), failed \union Range(q.queue), out, lost) /\ Range(q.queue) \subseteq Nat
<1> DEFINE s == q.queue
           l == Len(s)
           p == Consume(q)
           all == failed \union Range(s)
<1>1. /\ q.head = out /\ q.tail <= out /\ l <= out - q.tail
      /\ \A i \in 1..l : s[i] = out - l + i
      /\ \A n \in 1..out : n <= q.tail \/ n > out - l \/ n \in failed \/ n \in lost
      /\ \A n \in failed : n > q.tail
  BY DEF Booked
<1>2. q.tail \in Nat /\ s \in Seq(Nat) BY DEF Queue
<1>3. l \in Nat /\ DOMAIN s = 1..l BY <1>2
<1>4. p.head = out /\ p.tail = q.tail /\ p.queue = <<>> /\ Len(p.queue) = 0 BY <1>1, ConsumeIs
<1> HIDE DEF p, l, s
<1>5. \A n \in Range(s) : n > q.tail /\ n \in Nat
  <2> SUFFICES ASSUME NEW i \in DOMAIN s PROVE s[i] > q.tail /\ s[i] \in Nat BY DEF Range
  <2>1. s[i] = out - l + i /\ i \in 1..l BY <1>1, <1>3
  <2> QED BY <1>1, <1>2, <1>3, <2>1
<1>6. \A n \in all : n > p.tail BY <1>1, <1>4, <1>5
<1>7. ASSUME NEW n \in 1..out PROVE n <= p.tail \/ n > out - Len(p.queue) \/ n \in all \/ n \in lost
  <2>1. CASE n > out - l
    <3>1. n - out + l \in 1..l BY <1>3, <2>1
    <3>2. s[n - out + l] = n BY <1>1, <1>3, <3>1
    <3>3. n \in Range(s) BY <1>3, <3>1, <3>2 DEF Range
    <3> QED BY <3>3
  <2>2. CASE ~(n > out - l) BY <1>1, <1>4, <2>2
  <2> QED BY <2>1, <2>2
<1>8. p.head = out /\ p.tail <= out /\ Len(p.queue) <= out - p.tail BY <1>1, <1>2, <1>4
<1>9. \A i \in 1..Len(p.queue) : p.queue[i] = out - Len(p.queue) + i BY <1>4
<1>10. Booked(p, all, out, lost) BY <1>6, <1>7, <1>8, <1>9 DEF Booked
<1> QED BY <1>5, <1>10 DEF p, s

(* A session that has let go of everything, its connections as they were   *)
(* in some state x.                                                        *)
LEMMA RightGone ==
  ASSUME Around, NEW x, x.q \in Queue, x.failed \in SUBSET Nat, Books(x, Len(cl.got), hist.out, hist.lost),
         NEW y \in Server, Net(y, cl.conn, Len(cl.got), hist.out),
         y.destroyed, y.smacks = "nil", ~y.token, ~y.hibernating, y.conn = None, y.grace => y.closing,
         y.q = Consume(x.q), y.failed = x.failed \union Range(x.q.queue)
  PROVE  Right(y)
<1>1. Alive(y) BY DEF Alive
<1>2. Owns(y) BY DEF Owns
<1>3. Booked(y.q, y.failed, hist.out, hist.lost) BY AroundIs, BookedFailed DEF Books
<1>4. y.q.tail <= Len(cl.got) BY ConsumeIs DEF Books
<1> QED BY <1>1, <1>2, <1>3, <1>4 DEF Right, Books

(* A session is retired: what it held is reported as undelivered. *)
LEMMA RightRetired ==
  ASSUME Around, NEW x, Right(x), NEW y \in Server,
         y.destroyed, y.smacks = "nil", ~y.token, ~y.hibernating, y.conn = None,
         y.closing = x.closing, y.grace => x.grace,
         y.owner = x.owner, y.closed = x.closed, y.up = x.up, y.down = x.down,
         y.q = Consume(x.q), y.failed = x.failed \union Range(x.q.queue)
  PROVE  Right(y)
<1>1. y.grace => y.closing BY DEF Alive, Right
<1>2. Net(y, cl.conn, Len(cl.got), hist.out) BY AroundIs, NetLess DEF Right
<1>3. x.q \in Queue /\ x.failed \in SUBSET Nat BY DEF Right, Server
<1>4. Books(x, Len(cl.got), hist.out, hist.lost) BY DEF Right
<1> QED BY <1>1, <1>2, <1>3, <1>4, RightGone

(* Nothing is held of what was never sent. *)
LEMMA NothingHeld ==
  ASSUME Around, NEW x, Right(x), CountUnacked(x.q) <= 0 \/ x.q.head = 0
  PROVE  Range(x.q.queue) = {} /\ x.q.queue = <<>>
<1>1. x.q \in Queue BY DEF Right, Server
<1>2. x.q.head \in Nat /\ x.q.tail \in Nat /\ x.q.queue \in Seq(Nat) BY <1>1 DEF Queue
<1>3. Len(x.q.queue) <= x.q.head - x.q.tail BY DEF Right, Books, Booked
<1>4. Len(x.q.queue) = 0 BY <1>2, <1>3 DEF CountUnacked
<1>5. x.q.queue = <<>> BY <1>2, <1>4
<1>6. DOMAIN x.q.queue = {} BY <1>5
<1> QED BY <1>5, <1>6 DEF Range

(* What retire_session leaves behind. *)
LEMMA RetireIs ==
  ASSUME NEW x \in Server
  PROVE  /\ retire(x) \in Server
         /\ retire(x).destroyed /\ retire(x).smacks = "nil" /\ ~retire(x).token /\ ~retire(x).hibernating
         /\ retire(x).conn = None /\ retire(x).q = Consume(x.q) /\ retire(x).watchdog = "none"
         /\ retire(x).closing = x.closing /\ retire(x).grace = x.grace /\ retire(x).owner = x.owner
         /\ retire(x).closed = x.closed /\ retire(x).up = x.up /\ retire(x).down = x.down
         /\ retire(x).failed = x.failed /\ retire(x).registered = x.registered
         /\ retire(x).handled = x.handled /\ retire(x).old_h = x.old_h
<1> DEFINE p == Consume(x.q)
<1>1. p \in Queue
  <2>1. x.q \in Queue BY DEF Server
  <2> QED BY <2>1, ConsumeIs
<1>2. retire(x) = [x EXCEPT !.destroyed = TRUE, !.smacks = "nil", !.token = FALSE, !.hibernating = FALSE,
                            !.watchdog = "none", !.conn = None, !.q = p]
  BY DEF retire
<1> HIDE DEF p
<1>3. retire(x) \in Server BY <1>1, <1>2, ZenonT(60) DEF Server
<1>4. /\ retire(x).destroyed /\ retire(x).smacks = "nil" /\ ~retire(x).token /\ ~retire(x).hibernating
      /\ retire(x).conn = None /\ retire(x).q = p /\ retire(x).watchdog = "none"
  BY <1>2 DEF Server
<1>5. /\ retire(x).closing = x.closing /\ retire(x).grace = x.grace /\ retire(x).owner = x.owner
      /\ retire(x).closed = x.closed /\ retire(x).up = x.up /\ retire(x).down = x.down
      /\ retire(x).failed = x.failed /\ retire(x).registered = x.registered
      /\ retire(x).handled = x.handled /\ retire(x).old_h = x.old_h
  BY <1>2 DEF Server
<1> QED BY <1>3, <1>4, <1>5 DEF p

(* retire_session of a session that holds nothing. *)
LEMMA RightRetire ==
  ASSUME Around, NEW x, Right(x), x.smacks # "on" \/ x.q.head = 0, ~x.destroyed
  PROVE  Right(retire(x))
<1>1. x \in Server BY DEF Right
<1>2. x.smacks = "nil" \/ x.q.head = 0 BY <1>1 DEF Server, Right, Alive
<1>3. Range(x.q.queue) = {}
  <2>1. x.q.head = 0 BY <1>2 DEF Right, Alive
  <2> QED BY <2>1, NothingHeld
<1> DEFINE y == retire(x)
<1>4. /\ y \in Server /\ y.destroyed /\ y.smacks = "nil" /\ ~y.token /\ ~y.hibernating /\ y.conn = None
      /\ y.q = Consume(x.q) /\ y.closing = x.closing /\ y.grace = x.grace /\ y.owner = x.owner
      /\ y.closed = x.closed /\ y.up = x.up /\ y.down = x.down /\ y.failed = x.failed
  BY <1>1, RetireIs
<1> HIDE DEF y
<1>5. y.failed = x.failed \union Range(x.q.queue) BY <1>3, <1>4
<1>6. Right(y) BY <1>4, <1>5, RightRetired
<1> QED BY <1>6 DEF y

(* handle_unacked_stanzas before that. *)
LEMMA UnackedIs ==
  ASSUME Around, NEW x, Right(x), x.smacks = "on"
  PROVE  LET w == handle_unacked_stanzas(x)
         IN /\ w \in Server /\ w.smacks \in {"on", "off"} /\ w.q.queue = <<>> /\ w.q.head = x.q.head
            /\ CountUnacked(w.q) > 0 => w.smacks = "off"
            /\ w.q = Consume(x.q) /\ w.failed = x.failed \union Range(x.q.queue)
            /\ w.token = x.token /\ w.hibernating = x.hibernating /\ w.destroyed = x.destroyed
            /\ w.closing = x.closing /\ w.grace = x.grace /\ Links(x, w) /\ w.down = x.down
            /\ w.registered = x.registered /\ w.handled = x.handled /\ w.old_h = x.old_h
            /\ w.watchdog = x.watchdog
<1> DEFINE w == handle_unacked_stanzas(x)
<1>0. x \in Server /\ x.q \in Queue /\ x.failed \in SUBSET Nat BY DEF Right, Server
<1>1. CASE CountUnacked(x.q) > 0
  <2> DEFINE p == Consume(x.q)
             f == x.failed \union Range(x.q.queue)
  <2>1. w = [x EXCEPT !.smacks = "off", !.q = p, !.failed = f] BY <1>1 DEF handle_unacked_stanzas
  <2>2. p \in Queue /\ p.queue = <<>> /\ p.head = x.q.head BY <1>0, ConsumeIs
  <2>3. f \in SUBSET Nat BY <1>0, AroundIs, BookedFailed DEF Right, Books
  <2> HIDE DEF p, f
  <2>4. w \in Server BY <1>0, <2>1, <2>2, <2>3, ZenonT(60) DEF Server
  <2>5. /\ w.smacks = "off" /\ w.q = p /\ w.failed = f /\ w.token = x.token /\ w.hibernating = x.hibernating
        /\ w.destroyed = x.destroyed /\ w.closing = x.closing /\ w.grace = x.grace /\ w.down = x.down
        /\ w.registered = x.registered /\ w.handled = x.handled /\ w.old_h = x.old_h /\ w.watchdog = x.watchdog
    BY <1>0, <2>1 DEF Server
  <2>6. Links(x, w) BY <1>0, <2>1 DEF Server, Links
  <2> QED BY <2>2, <2>4, <2>5, <2>6 DEF p, f
<1>2. CASE ~(CountUnacked(x.q) > 0)
  <2>1. w = x BY <1>2 DEF handle_unacked_stanzas
  <2>2. CountUnacked(x.q) <= 0 BY <1>0, <1>2 DEF CountUnacked, Queue
  <2>3. Range(x.q.queue) = {} BY <2>2, NothingHeld
  <2>5. x.q.queue = <<>> BY <2>2, NothingHeld
  <2>6. Consume(x.q) = x.q BY <1>0, <2>5 DEF Consume, Queue
  <2> QED BY <1>0, <1>2, <2>1, <2>3, <2>5, <2>6 DEF Links
<1> QED BY <1>1, <1>2

(* A resumable session hibernates. *)
LEMMA HibernateIs ==
  ASSUME NEW x \in Server
  PROVE  LET y == hibernate(x)
             w == CloseConn(x, x.conn)
         IN /\ y \in Server /\ y.hibernating /\ y.watchdog = "armed" /\ y.conn = None
            /\ y.owner = w.owner /\ y.up = w.up /\ y.closed = w.closed /\ y.down = w.down
            /\ y.smacks = x.smacks /\ y.token = x.token /\ y.registered = x.registered /\ y.q = x.q
            /\ y.destroyed = x.destroyed /\ y.handled = x.handled /\ y.closing = x.closing
            /\ y.grace = x.grace /\ y.failed = x.failed /\ y.old_h = x.old_h
<1> DEFINE y == hibernate(x)
           w == CloseConn(x, x.conn)
<1>1. w \in Server /\ Self(x, w)
  <2>1. CASE x.conn = None BY <2>1 DEF CloseConn, Self
  <2>2. CASE x.conn # None
    <3>1. x.conn \in Conn BY <2>2 DEF Server
    <3> QED BY <3>1, CloseIs
  <2> QED BY <2>1, <2>2
<1>2. y = [w EXCEPT !.hibernating = TRUE, !.watchdog = "armed", !.conn = None] BY DEF hibernate
<1> HIDE DEF w
<1>3. y \in Server BY <1>1, <1>2, ZenonT(60) DEF Server
<1>4. /\ y.hibernating /\ y.watchdog = "armed" /\ y.conn = None
      /\ y.owner = w.owner /\ y.up = w.up /\ y.closed = w.closed /\ y.down = w.down
      /\ y.smacks = w.smacks /\ y.token = w.token /\ y.registered = w.registered /\ y.q = w.q
      /\ y.destroyed = w.destroyed /\ y.handled = w.handled /\ y.closing = w.closing
      /\ y.grace = w.grace /\ y.failed = w.failed /\ y.old_h = w.old_h
  BY <1>1, <1>2 DEF Server
<1> HIDE DEF y
<1>5. /\ y.smacks = x.smacks /\ y.token = x.token /\ y.registered = x.registered /\ y.q = x.q
      /\ y.destroyed = x.destroyed /\ y.handled = x.handled /\ y.closing = x.closing
      /\ y.grace = x.grace /\ y.failed = x.failed /\ y.old_h = x.old_h
  BY <1>1, <1>4 DEF Self
<1> QED BY <1>3, <1>4, <1>5 DEF y, w

(* A session that can be resumed hibernates. *)
LEMMA RightHibernates ==
  ASSUME Around, NEW x, Right(x), x.smacks = "on", x.token, ~x.destroyed
  PROVE  Right(hibernate(x))
<1> DEFINE y == hibernate(x)
           w == CloseConn(x, x.conn)
<1>0. x \in Server /\ x.owner \in [Conn -> {"none", "S", "N"}] /\ x.conn \in Conn \union {None} BY DEF Right, Server
<1>1. /\ y \in Server /\ y.hibernating /\ y.conn = None
      /\ y.owner = w.owner /\ y.up = w.up /\ y.closed = w.closed /\ y.down = w.down
      /\ y.smacks = x.smacks /\ y.token = x.token /\ y.q = x.q /\ y.destroyed = x.destroyed
      /\ y.closing = x.closing /\ y.grace = x.grace /\ y.failed = x.failed
  BY <1>0, HibernateIs
<1>2. Net(w, cl.conn, Len(cl.got), hist.out)
  <2>0. Net(x, cl.conn, Len(cl.got), hist.out) /\ cl.conn \in Conn \union {None} BY AroundIs DEF Right
  <2>1. CASE x.conn = None BY <2>0, <2>1 DEF CloseConn
  <2>2. CASE x.conn # None
    <3>1. x.conn \in Conn BY <1>0, <2>2
    <3> QED BY <1>0, <2>0, <3>1, NetClosed
  <2> QED BY <2>1, <2>2
<1>3. \A c \in Conn : w.owner[c] # "S"
  <2>0. \A c \in Conn : x.owner[c] = "S" <=> x.conn = c BY DEF Right, Owns
  <2>1. CASE x.conn = None BY <2>0, <2>1, NoneIsNoConn DEF CloseConn
  <2>2. CASE x.conn # None
    <3>1. x.conn \in Conn BY <1>0, <2>2
    <3>2. w.owner = [x.owner EXCEPT ![x.conn] = "none"] BY <1>0, <3>1, CloseIs
    <3> QED BY <1>0, <2>0, <3>1, <3>2
  <2> QED BY <2>1, <2>2
<1> HIDE DEF y, w
<1>4. Net(y, cl.conn, Len(cl.got), hist.out) BY <1>1, <1>2, AroundIs, NetLess
<1>5. Owns(y) BY <1>1, <1>3, NoneIsNoConn DEF Owns
<1>6. Alive(y) BY <1>1 DEF Right, Alive
<1>7. Books(y, Len(cl.got), hist.out, hist.lost) BY <1>1 DEF Right, Books
<1>8. Right(y) BY <1>1, <1>4, <1>5, <1>6, <1>7 DEF Right
<1> QED BY <1>8 DEF y

(* destroy_session, of a session that does not both hibernate and hold     *)
(* stanzas for a client that could still come back.                        *)
LEMMA RightDestroyed ==
  ASSUME Around, NEW x, Right(x), x.token /\ x.hibernating => x.q.head = 0
  PROVE  Right(destroy_session(x)) /\ destroy_session(x).conn = None
<1>0. x \in Server BY DEF Right
<1>1. CASE x.destroyed BY <1>1 DEF destroy_session, Right, Alive
<1>2. CASE ~x.destroyed /\ x.smacks = "on" /\ x.token /\ ~x.hibernating
  <2>1. destroy_session(x) = hibernate(x) BY <1>2 DEF destroy_session
  <2>2. Right(hibernate(x)) BY <1>2, RightHibernates
  <2>3. hibernate(x).conn = None BY <1>0, HibernateIs
  <2> QED BY <2>1, <2>2, <2>3
<1>3. CASE ~x.destroyed /\ x.smacks = "on" /\ ~x.token
  <2> DEFINE w == handle_unacked_stanzas(x)
             y == retire(w)
  <2>1. destroy_session(x) = y BY <1>3 DEF destroy_session
  <2>2. /\ w \in Server /\ w.q = Consume(x.q) /\ w.failed = x.failed \union Range(x.q.queue)
        /\ w.closing = x.closing /\ w.grace = x.grace /\ Links(x, w) /\ w.down = x.down
    BY <1>3, UnackedIs
  <2> HIDE DEF w
  <2>3. /\ y \in Server /\ y.destroyed /\ y.smacks = "nil" /\ ~y.token /\ ~y.hibernating
        /\ y.conn = None /\ y.q = Consume(w.q)
        /\ y.closing = w.closing /\ y.grace = w.grace /\ y.owner = w.owner
        /\ y.closed = w.closed /\ y.up = w.up /\ y.down = w.down /\ y.failed = w.failed
    BY <2>2, RetireIs
  <2> HIDE DEF y
  <2>4. y.q = Consume(x.q)
    <3>1. x.q \in Queue BY <1>0 DEF Server
    <3>2. Consume(Consume(x.q)) = Consume(x.q) BY <3>1 DEF Consume, Queue
    <3> QED BY <2>2, <2>3, <3>2
  <2>5. /\ y.closing = x.closing /\ y.grace = x.grace /\ y.owner = x.owner /\ y.closed = x.closed
        /\ y.up = x.up /\ y.down = x.down /\ y.failed = x.failed \union Range(x.q.queue)
    BY <2>2, <2>3 DEF Links
  <2>6. Right(y) BY <2>3, <2>4, <2>5, RightRetired
  <2> QED BY <2>1, <2>3, <2>6
<1>4. CASE ~x.destroyed /\ (x.smacks # "on" \/ (x.token /\ x.hibernating))
  <2>1. destroy_session(x) = retire(x) BY <1>4 DEF destroy_session
  <2>2. Right(retire(x)) BY <1>4, RightRetire
  <2>3. retire(x).conn = None BY <1>0, RetireIs
  <2> QED BY <2>1, <2>2, <2>3
<1>5. x.destroyed \in BOOLEAN /\ x.token \in BOOLEAN /\ x.hibernating \in BOOLEAN BY <1>0 DEF Server
<1> QED BY <1>1, <1>2, <1>3, <1>4, <1>5

(* mod_smacks' pre-session-close hook: the session cannot be resumed any   *)
(* more.                                                                   *)
LEMMA RightPreClose ==
  ASSUME Around, NEW x, Right(x)
  PROVE  LET y == pre_session_close(x)
         IN /\ Right(y) /\ ~y.token /\ Links(x, y) /\ y.destroyed = x.destroyed /\ y.smacks = x.smacks
            /\ y.hibernating = x.hibernating /\ y.q = x.q /\ y.grace = x.grace /\ y.closing = x.closing
<1> DEFINE y == pre_session_close(x)
           w == [x EXCEPT !.token = FALSE, !.watchdog = "none", !.registered = @ /\ ~x.token]
<1>0. x \in Server BY DEF Right
<1>1. CASE x.smacks = "nil"
  <2>1. y = x BY <1>1 DEF pre_session_close
  <2>2. ~x.token BY <1>1 DEF Right, Alive
  <2> QED BY <2>1, <2>2 DEF Links
<1>2. CASE x.smacks # "nil"
  <2>1. w \in Server BY <1>0, ZenonT(60) DEF Server
  <2>2. /\ ~w.token /\ w.smacks = x.smacks /\ w.q = x.q /\ w.hibernating = x.hibernating
        /\ w.destroyed = x.destroyed /\ w.closing = x.closing /\ w.grace = x.grace /\ w.failed = x.failed
        /\ w.down = x.down /\ w.handled = x.handled
    BY <1>0 DEF Server
  <2>3. Links(x, w) BY <1>0 DEF Server, Links
  <2> HIDE DEF w
  <2>4. Alive(w) BY <2>2, <2>3 DEF Right, Alive, Links
  <2>5. Owns(w) BY <2>2, <2>3 DEF Right, Owns, Links
  <2>6. Net(w, cl.conn, Len(cl.got), hist.out) BY <2>2, <2>3, AroundIs, NetLess DEF Right, Links
  <2>7. Books(w, Len(cl.got), hist.out, hist.lost) BY <2>2 DEF Right, Books
  <2>8. Right(w) BY <2>1, <2>4, <2>5, <2>6, <2>7 DEF Right
  <2>9. y = IF w.smacks = "on" THEN Send(w, Item("a", w.handled)) ELSE w BY <1>2 DEF pre_session_close, w
  <2>10. Right(y) /\ Self(w, y) /\ Links(w, y)
    <3>1. w.handled \in Int BY <2>1 DEF Server
    <3>2. Item("a", w.handled) \in DownItem /\ Item("a", w.handled).t # "stanza" BY <3>1, ItemIs
    <3>3. Right(Send(w, Item("a", w.handled))) /\ Self(w, Send(w, Item("a", w.handled))) /\ Links(w, Send(w, Item("a", w.handled)))
      BY <2>8, <3>2, RightSent
    <3>4. Self(w, w) /\ Links(w, w) BY DEF Self, Links
    <3> QED BY <2>8, <2>9, <3>3, <3>4
  <2> HIDE DEF y
  <2>11. ~y.token /\ y.destroyed = x.destroyed /\ y.smacks = x.smacks /\ y.hibernating = x.hibernating /\ y.q = x.q
         /\ y.grace = x.grace /\ y.closing = x.closing
    BY <2>2, <2>10 DEF Self
  <2>12. Links(x, y) BY <2>3, <2>10 DEF Links
  <2> QED BY <2>10, <2>11, <2>12 DEF y
<1> QED BY <1>1, <1>2

(* Setting closing, grace or neither on a session that cannot be resumed. *)
LEMMA RightClosing ==
  ASSUME Around, NEW x, Right(x), NEW y \in Server, y.down = x.down, Links(x, y), ~x.token,
         y.smacks = x.smacks, y.token = x.token, y.q = x.q, y.hibernating = x.hibernating,
         y.destroyed = x.destroyed, y.failed = x.failed, y.closing
  PROVE  Right(y)
<1>1. Alive(y) BY DEF Right, Alive, Links
<1>2. Owns(y) BY DEF Right, Owns, Links
<1>3. Net(y, cl.conn, Len(cl.got), hist.out) BY AroundIs, NetLess DEF Right, Links
<1>4. Books(y, Len(cl.got), hist.out, hist.lost) BY DEF Right, Books
<1> QED BY <1>1, <1>2, <1>3, <1>4 DEF Right

(* session:close, whatever the reason. *)
LEMMA RightSessionClose ==
  ASSUME Around, NEW x, Right(x), NEW reason
  PROVE  Right(session_close(x, reason)) /\ (reason # "none" => session_close(x, reason).conn = None)
<1> DEFINE y == pre_session_close(x)
           e == Send(y, Item("end", 0))
           a == [e EXCEPT !.closing = TRUE, !.grace = TRUE]
           b == [e EXCEPT !.closing = TRUE]
<1>1. CASE x.destroyed
  <2>1. session_close(x, reason) = x BY <1>1 DEF session_close
  <2> QED BY <1>1, <2>1 DEF Right, Alive
<1>2. CASE ~x.destroyed
  <2>1. /\ Right(y) /\ ~y.token /\ ~y.destroyed BY <1>2, RightPreClose
  <2>2. session_close(x, reason) =
          IF y.conn = None THEN destroy_session(y)
          ELSE IF reason = "none" THEN a ELSE CloseConn(destroy_session(b), y.conn)
    BY <1>2 DEF session_close
  <2> HIDE DEF y
  <2>3. Right(e) /\ Self(y, e) /\ Links(y, e)
    <3>1. Item("end", 0) \in DownItem /\ Item("end", 0).t # "stanza" BY ItemIs
    <3> QED BY <2>1, <3>1, RightSent
  <2>4. e \in Server /\ ~e.token BY <2>1, <2>3 DEF Right, Self
  <2> HIDE DEF e
  <2>5. Right(a)
    <3>1. a \in Server BY <2>4 DEF Server
    <3>2. /\ a.down = e.down /\ a.smacks = e.smacks /\ a.token = e.token /\ a.q = e.q
          /\ a.hibernating = e.hibernating /\ a.destroyed = e.destroyed /\ a.failed = e.failed /\ a.closing
      BY <2>4 DEF Server
    <3>3. Links(e, a) BY <2>4 DEF Server, Links
    <3> HIDE DEF a
    <3> QED BY <2>3, <2>4, <3>1, <3>2, <3>3, RightClosing
  <2>6. Right(b) /\ ~b.token
    <3>1. b \in Server BY <2>4 DEF Server
    <3>2. /\ b.down = e.down /\ b.smacks = e.smacks /\ b.token = e.token /\ b.q = e.q
          /\ b.hibernating = e.hibernating /\ b.destroyed = e.destroyed /\ b.failed = e.failed /\ b.closing
      BY <2>4 DEF Server
    <3>3. Links(e, b) BY <2>4 DEF Server, Links
    <3> HIDE DEF b
    <3> QED BY <2>3, <2>4, <3>1, <3>2, <3>3, RightClosing
  <2> HIDE DEF a, b
  <2>7. CASE y.conn = None BY <2>1, <2>2, <2>7, RightDestroyed
  <2>8. CASE y.conn # None /\ reason = "none" BY <2>2, <2>5, <2>8
  <2>9. CASE y.conn # None /\ reason # "none"
    <3>1. Right(destroy_session(b)) /\ destroy_session(b).conn = None BY <2>6, RightDestroyed
    <3>2. y.conn \in Conn BY <2>1, <2>9, ConnectedIs
    <3>3. destroy_session(b).conn # y.conn BY <2>9, <3>1
    <3>4. Right(CloseConn(destroy_session(b), y.conn)) BY <3>1, <3>2, <3>3, RightClosed
    <3>5. CloseConn(destroy_session(b), y.conn).conn = None BY <3>1, <3>2, CloseIs DEF Right
    <3> QED BY <2>2, <2>9, <3>4, <3>5
  <2> QED BY <2>7, <2>8, <2>9
<1>3. x.destroyed \in BOOLEAN BY DEF Right, Server
<1> QED BY <1>1, <1>2, <1>3

(* The connection is gone. *)
LEMMA RightDisconnected ==
  ASSUME Around, NEW x, Right(x), NEW c \in Conn
  PROVE  Right(ondisconnect(x, c))
<1>0. x \in Server BY DEF Right
<1>1. CASE x.owner[c] = "S"
  <2>1. x.hibernating => x.destroyed
    <3>1. ~x.destroyed => x.conn = c BY <1>1 DEF Right, Owns
    <3> QED BY <3>1, NoneIsNoConn DEF Right, Alive
  <2>2. ~(x.token /\ x.hibernating) BY <2>1 DEF Right, Alive
  <2>3. Right(destroy_session(x)) /\ destroy_session(x).conn = None BY <2>2, RightDestroyed
  <2>4. destroy_session(x).conn # c BY <2>3, NoneIsNoConn
  <2>5. Right(CloseConn(destroy_session(x), c)) BY <2>3, <2>4, RightClosed
  <2> QED BY <1>1, <2>5 DEF ondisconnect
<1>2. CASE x.owner[c] # "S"
  <2>1. x.conn # c
    <3>1. CASE x.destroyed BY <3>1, NoneIsNoConn DEF Right, Alive
    <3>2. CASE ~x.destroyed BY <1>2, <3>2 DEF Right, Owns
    <3> QED BY <3>1, <3>2
  <2>2. Right(CloseConn(x, c)) BY <2>1, RightClosed
  <2> QED BY <1>2, <2>2 DEF ondisconnect
<1> QED BY <1>1, <1>2

(* A session whose token is taken away, its count stored. *)
LEMMA RightUntoken ==
  ASSUME Around, NEW x, Right(x)
  PROVE  LET y == [x EXCEPT !.old_h = x.handled, !.registered = FALSE, !.token = FALSE]
         IN /\ Right(y) /\ Links(x, y) /\ y.down = x.down /\ y.smacks = x.smacks /\ ~y.token /\ y.q = x.q
            /\ y.hibernating = x.hibernating /\ y.destroyed = x.destroyed /\ y.failed = x.failed
            /\ y.closing = x.closing /\ y.grace = x.grace /\ y.handled = x.handled /\ y.old_h = x.handled
            /\ ~y.registered
<1> DEFINE y == [x EXCEPT !.old_h = x.handled, !.registered = FALSE, !.token = FALSE]
<1>0. x \in Server BY DEF Right
<1>1. y \in Server BY <1>0 DEF Server
<1>2. /\ y.down = x.down /\ y.smacks = x.smacks /\ ~y.token /\ y.q = x.q
      /\ y.hibernating = x.hibernating /\ y.destroyed = x.destroyed /\ y.failed = x.failed
      /\ y.closing = x.closing /\ y.grace = x.grace /\ y.handled = x.handled /\ y.old_h = x.handled
      /\ ~y.registered
  BY <1>0 DEF Server
<1>3. Links(x, y) BY <1>0 DEF Server, Links
<1> HIDE DEF y
<1>5. Alive(y) BY <1>2, <1>3 DEF Right, Alive, Links
<1>6. Owns(y) BY <1>2, <1>3 DEF Right, Owns, Links
<1>7. Net(y, cl.conn, Len(cl.got), hist.out) BY <1>2, <1>3, AroundIs, NetLess DEF Right, Links
<1>8. Books(y, Len(cl.got), hist.out, hist.lost) BY <1>2 DEF Right, Books
<1>9. Right(y) BY <1>1, <1>5, <1>6, <1>7, <1>8 DEF Right
<1> QED BY <1>2, <1>3, <1>9 DEF y

(* The watchdog's callback in the session's thread. *)
LEMMA RightExpired ==
  ASSUME Around, NEW x, Right(x)
  PROVE  Right(expire(x))
<1> DEFINE y == [x EXCEPT !.old_h = x.handled, !.registered = FALSE, !.token = FALSE]
<1>1. Right(y) /\ ~y.token BY RightUntoken
<1>2. expire(x) = destroy_session(y) BY DEF expire
<1> HIDE DEF y
<1> QED BY <1>1, <1>2, RightDestroyed
-----------------------------------------------------------------------------
(* What the session's thread handles. *)

(* The last n elements of a sequence. *)
LEMMA LastNIs ==
  ASSUME NEW T, NEW s \in Seq(T), NEW n \in Nat
  PROVE  /\ LastN(s, n) \in Seq(T)
         /\ Len(LastN(s, n)) = IF Len(s) <= n THEN Len(s) ELSE n
         /\ \A i \in 1..Len(LastN(s, n)) : LastN(s, n)[i] = s[Len(s) - Len(LastN(s, n)) + i]
<1>1. CASE Len(s) <= n BY <1>1 DEF LastN
<1>2. CASE Len(s) > n
  <2>1. LastN(s, n) = SubSeq(s, Len(s) - n + 1, Len(s)) BY <1>2 DEF LastN
  <2>2. /\ LastN(s, n) \in Seq(T) /\ Len(LastN(s, n)) = n
        /\ \A i \in 1..n : LastN(s, n)[i] = s[(Len(s) - n + 1) + i - 1]
    BY <1>2, <2>1
  <2> QED BY <1>2, <2>2
<1> QED BY <1>1, <1>2

(* An acknowledgement in range: what is no longer held is acknowledged. *)
LEMMA BookedAck ==
  ASSUME NEW q \in Queue, NEW out \in Nat, NEW lost, Booked(q, {}, out, lost), NEW h \in Nat, q.tail <= h, h <= q.head
  PROVE  /\ Ack(q, h) \in Queue /\ Ack(q, h).tail = h /\ Ack(q, h).head = q.head
         /\ Booked(Ack(q, h), {}, out, lost)
<1> DEFINE s == q.queue
           l == Len(s)
           m == out - h
           u == LastN(s, m)
           k == Len(u)
           p == Ack(q, h)
<1>1. /\ q.head = out /\ q.tail <= out /\ l <= out - q.tail
      /\ \A i \in 1..l : s[i] = out - l + i
      /\ \A n \in 1..out : n <= q.tail \/ n > out - l \/ n \in lost
  BY DEF Booked
<1>2. q.tail \in Nat /\ s \in Seq(Nat) /\ l \in Nat /\ m \in Nat BY <1>1 DEF Queue
<1>3. u \in Seq(Nat) /\ k = (IF l <= m THEN l ELSE m) /\ \A i \in 1..k : u[i] = s[l - k + i] BY <1>2, LastNIs, ZenonT(60)
<1>4. p = [q EXCEPT !.tail = h, !.queue = u] BY <1>1 DEF Ack
<1>5. p \in Queue /\ p.tail = h /\ p.head = q.head /\ p.queue = u
  <2> HIDE DEF u
  <2> QED BY <1>3, <1>4 DEF Queue
<1>6. m = out - h OBVIOUS
<1>7. k \in Nat BY <1>3
<1> HIDE DEF s, l, m, u, k, p
<1>8. k <= m /\ k <= l /\ (k = l \/ k = m) BY <1>2, <1>3
<1>9. \A i \in 1..k : u[i] = out - k + i
  <2> SUFFICES ASSUME NEW i \in 1..k PROVE u[i] = out - k + i OBVIOUS
  <2>1. l - k + i \in 1..l BY <1>2, <1>7, <1>8
  <2>2. s[l - k + i] = out - l + (l - k + i) BY <1>1, <2>1
  <2> QED BY <1>2, <1>3, <1>7, <2>2
<1>10. \A n \in 1..out : n <= h \/ n > out - k \/ n \in lost
  <2> SUFFICES ASSUME NEW n \in 1..out, ~(n <= h), ~(n > out - k) PROVE n \in lost OBVIOUS
  <2>1. k = l BY <1>2, <1>6, <1>7, <1>8
  <2>2. ~(n <= q.tail) /\ ~(n > out - l) BY <1>2, <2>1
  <2> QED BY <1>1, <2>2
<1>11. p.head = out /\ p.tail <= out /\ Len(p.queue) <= out - p.tail BY <1>1, <1>5, <1>6, <1>8 DEF k
<1>12. Len(p.queue) = k BY <1>5 DEF k
<1>13. Booked(p, {}, out, lost)
  <2>1. \A i \in 1..Len(p.queue) : p.queue[i] = out - Len(p.queue) + i BY <1>5, <1>9, <1>12
  <2>2. \A n \in 1..out : n <= p.tail \/ n > out - Len(p.queue) \/ n \in {} \/ n \in lost BY <1>5, <1>10, <1>12
  <2> QED BY <1>11, <2>1, <2>2 DEF Booked
<1> QED BY <1>5, <1>13 DEF p

(* <enable/>: a session that is alive and has no stream management has had *)
(* no stanza.                                                              *)
LEMMA RightEnabled ==
  ASSUME Around, NEW x, Right(x), ~x.destroyed
  PROVE  Right(handle_enable(x))
<1> DEFINE e == Send(x, Item("enabled", 0))
           y == [e EXCEPT !.smacks = "on", !.token = TRUE, !.registered = TRUE, !.q = NewQueue, !.handled = 0]
<1>1. CASE x.smacks = "on"
  <2>1. handle_enable(x) = Send(x, Item("failed", NoH)) BY <1>1 DEF handle_enable
  <2>2. NoH \in Int BY DEF NoH
  <2>3. Item("failed", NoH) \in DownItem /\ Item("failed", NoH).t # "stanza" BY <2>2, ItemIs
  <2> QED BY <2>1, <2>3, RightSent
<1>2. CASE x.smacks # "on"
  <2>1. handle_enable(x) = y BY <1>2 DEF handle_enable
  <2>2. Right(e) /\ Self(x, e) /\ Links(x, e)
    <3>1. Item("enabled", 0) \in DownItem /\ Item("enabled", 0).t # "stanza" BY ItemIs
    <3> QED BY <3>1, RightSent
  <2>3. e \in Server BY <2>2 DEF Right
  <2>5. NewQueue \in Queue /\ NewQueue.head = 0 /\ NewQueue.tail = 0 /\ NewQueue.queue = <<>>
    <3>1. <<>> \in Seq(Nat) OBVIOUS
    <3> QED BY <3>1 DEF NewQueue, Queue
  <2>6. ~e.destroyed /\ e.q.head = 0 /\ e.failed = {}
    <3>1. e.smacks # "on" /\ ~e.destroyed BY <1>2, <2>2 DEF Self
    <3>2. e.smacks \in {"nil", "on", "off"} BY <2>3 DEF Server
    <3> QED BY <2>2, <3>1, <3>2 DEF Right, Alive
  <2> HIDE DEF e
  <2>q. NewQueue \in Queue BY <2>5
  <2>7. y \in Server
    <3> DEFINE f == [e EXCEPT !.smacks = "on", !.token = TRUE, !.registered = TRUE]
    <3>1. f \in Server BY <2>3 DEF Server
    <3>2. y = [f EXCEPT !.q = NewQueue, !.handled = 0] BY <2>3 DEF Server
    <3> HIDE DEF f, y
    <3>3. 0 \in Int OBVIOUS
    <3>4. \A v \in Queue, h \in Int : [f EXCEPT !.q = v, !.handled = h] \in Server BY <3>1 DEF Server
    <3> QED BY ONLY <2>q, <3>2, <3>3, <3>4
  <2>8. /\ y.smacks = "on" /\ y.token /\ y.q = NewQueue /\ y.hibernating = e.hibernating /\ y.destroyed = e.destroyed
        /\ y.conn = e.conn /\ y.closing = e.closing /\ y.grace = e.grace /\ y.owner = e.owner
        /\ y.closed = e.closed /\ y.up = e.up /\ y.down = e.down /\ y.failed = e.failed
    BY <2>3 DEF Server
  <2> HIDE DEF y
  <2>9. Alive(y) BY <2>2, <2>5, <2>6, <2>8 DEF Right, Alive
  <2>10. Owns(y) BY <2>2, <2>8 DEF Right, Owns
  <2>11. Net(y, cl.conn, Len(cl.got), hist.out) BY <2>2, <2>8, AroundIs, NetLess DEF Right
  <2>12. hist.out = 0 BY <2>2, <2>6 DEF Right, Books, Booked
  <2>13. Booked(NewQueue, {}, 0, hist.lost) BY <2>5 DEF Booked
  <2>14. Books(y, Len(cl.got), hist.out, hist.lost) BY <2>5, <2>6, <2>8, <2>12, <2>13, AroundIs DEF Books
  <2> QED BY <2>1, <2>7, <2>9, <2>10, <2>11, <2>14 DEF Right
<1> QED BY <1>1, <1>2

(* A new value of the acknowledged count in a session that is alive. *)
LEMMA RightAcked ==
  ASSUME Around, NEW x, Right(x), ~x.destroyed, NEW h \in Nat, h <= Len(cl.got), AckError(x.q, h) = "none"
  PROVE  /\ Ack(x.q, h) \in Queue /\ Ack(x.q, h).head = x.q.head /\ Ack(x.q, h).tail = h
         /\ x.failed = {} /\ Booked(Ack(x.q, h), x.failed, hist.out, hist.lost)
<1>1. x.q \in Queue BY DEF Right, Server
<1>2. x.q.tail <= h /\ h <= x.q.head BY <1>1 DEF AckError, Queue
<1>3. x.failed = {} BY DEF Right, Alive
<1>4. Booked(x.q, {}, hist.out, hist.lost) BY <1>3 DEF Right, Books
<1> QED BY <1>1, <1>2, <1>3, <1>4, AroundIs, BookedAck

(* The queue after an honest <a/>. *)
LEMMA RightAckedA ==
  ASSUME Around, NEW x, Right(x), ~x.destroyed, NEW h \in Nat, h <= Len(cl.got), AckError(x.q, h) = "none"
  PROVE  Right([[x EXCEPT !.awaiting_ack = FALSE] EXCEPT !.q = Ack(@, h)])
<1> DEFINE y == [x EXCEPT !.awaiting_ack = FALSE]
           p == Ack(y.q, h)
           z == [y EXCEPT !.q = p]
<1>0. x \in Server BY DEF Right
<1>1. y \in Server BY <1>0 DEF Server
<1>2. Self(x, y) BY <1>0 DEF Self, Server
<1>3. Links(x, y) /\ y.down = x.down BY <1>0 DEF Links, Server
<1> HIDE DEF y
<1>4. Right(y) /\ ~y.destroyed BY <1>1, <1>2, <1>3, RightSelf DEF Self
<1>5. AckError(y.q, h) = "none" BY <1>2 DEF Self
<1>6. p \in Queue /\ p.head = y.q.head /\ p.tail = h /\ Booked(p, y.failed, hist.out, hist.lost)
  BY <1>4, <1>5, RightAcked
<1> HIDE DEF p
<1>7. z \in Server BY <1>1, <1>6 DEF Server
<1>8. /\ z.q = p /\ z.smacks = y.smacks /\ z.token = y.token /\ z.hibernating = y.hibernating
      /\ z.destroyed = y.destroyed /\ z.closing = y.closing /\ z.grace = y.grace /\ z.failed = y.failed
      /\ z.down = y.down
  BY <1>1 DEF Server
<1>9. Links(y, z) BY <1>1 DEF Server, Links
<1> HIDE DEF z
<1>10. Alive(z) BY <1>4, <1>6, <1>8, <1>9 DEF Right, Alive, Links
<1>11. Owns(z) BY <1>4, <1>8, <1>9 DEF Right, Owns, Links
<1>12. Net(z, cl.conn, Len(cl.got), hist.out) BY <1>4, <1>8, <1>9, AroundIs, NetLess DEF Right, Links
<1>13. Books(z, Len(cl.got), hist.out, hist.lost) BY <1>6, <1>8 DEF Books
<1>14. Right(z) BY <1>7, <1>10, <1>11, <1>12, <1>13 DEF Right
<1> QED BY <1>14 DEF z, p, y

(* <a/> from an honest client. *)
LEMMA RightA ==
  ASSUME Around, NEW x, Right(x), ~x.destroyed, NEW h \in Nat, h <= Len(cl.got)
  PROVE  Right(handle_a(x, h))
<1> DEFINE y == [x EXCEPT !.awaiting_ack = FALSE]
           z == [y EXCEPT !.q = Ack(@, h)]
<1>0. x \in Server BY DEF Right
<1>1. y \in Server BY <1>0 DEF Server
<1>2. Self(x, y) BY <1>0 DEF Self, Server
<1>3. Links(x, y) /\ y.down = x.down BY <1>0 DEF Links, Server
<1>4. /\ x.smacks # "on" => handle_a(x, h) = x
      /\ x.smacks = "on" /\ AckError(x.q, h) # "none" => handle_a(x, h) = session_close(y, "error")
      /\ x.smacks = "on" /\ AckError(x.q, h) = "none" => handle_a(x, h) = request_ack_now_if_needed(z, FALSE)
  BY DEF handle_a
<1>5. AckError(x.q, h) = "none" => Right(z) BY RightAckedA
<1> HIDE DEF y, z
<1>6. Right(y) BY <1>1, <1>2, <1>3, RightSelf
<1>7. CASE x.smacks # "on" BY <1>4, <1>7
<1>8. CASE x.smacks = "on" /\ AckError(x.q, h) # "none" BY <1>4, <1>6, <1>8, RightSessionClose
<1>9. CASE x.smacks = "on" /\ AckError(x.q, h) = "none" BY <1>4, <1>5, <1>9, RightRequested
<1> QED BY <1>7, <1>8, <1>9

(* <r/> from the client. *)
LEMMA RightR ==
  ASSUME Around, NEW x, Right(x)
  PROVE  Right(handle_r(x))
<1>1. CASE x.smacks # "on" BY <1>1 DEF handle_r
<1>2. CASE x.smacks = "on"
  <2>1. x.handled \in Int BY DEF Right, Server
  <2>2. Item("a", x.handled) \in DownItem /\ Item("a", x.handled).t # "stanza" BY <2>1, ItemIs
  <2>3. Right(Send(x, Item("a", x.handled))) BY <2>2, RightSent
  <2>4. Right(request_ack_now_if_needed(Send(x, Item("a", x.handled)), FALSE)) BY <2>3, RightRequested
  <2> QED BY <1>2, <2>4 DEF handle_r
<1> QED BY <1>1, <1>2

(* All connections are closed with the process. *)
LEMMA RightAllClosed ==
  ASSUME Around, NEW y, Right(y), y.conn = None
  PROVE  Right([y EXCEPT !.owner = [c \in Conn |-> "none"], !.registered = FALSE,
                         !.closed = @ \union {c \in Conn : y.owner[c] # "none"}])
<1> DEFINE o == [c \in Conn |-> "none"]
           d == y.closed \union {c \in Conn : y.owner[c] # "none"}
           z == [y EXCEPT !.owner = o, !.registered = FALSE, !.closed = d]
<1>0. y \in Server BY DEF Right
<1>1. o \in [Conn -> {"none", "S", "N"}] /\ d \in SUBSET Conn BY <1>0 DEF Server
<1>2. \A c \in Conn : o[c] = "none" /\ (c \notin d => y.owner[c] = "none" /\ c \notin y.closed) OBVIOUS
<1> HIDE DEF o, d
<1>3. z \in Server BY <1>0, <1>1, ZenonT(60) DEF Server
<1>4. /\ z.owner = o /\ z.closed = d /\ z.up = y.up /\ z.down = y.down /\ z.conn = None /\ z.q = y.q
      /\ z.failed = y.failed /\ z.smacks = y.smacks /\ z.token = y.token /\ z.destroyed = y.destroyed
      /\ z.hibernating = y.hibernating /\ z.grace = y.grace /\ z.closing = y.closing
  BY <1>0 DEF Server
<1> HIDE DEF z
<1>5. Alive(z) BY <1>4 DEF Right, Alive
<1>6. Owns(z) BY <1>2, <1>4, NoneIsNoConn DEF Owns
<1>7. Wired(z) BY <1>2, <1>4 DEF Right, Net, Wired
<1>8. cl.conn # None => Flows(z, cl.conn, Len(cl.got), hist.out) BY <1>4 DEF Right, Net, Flows
<1>9. Net(z, cl.conn, Len(cl.got), hist.out) BY <1>4, <1>7, <1>8 DEF Right, Net
<1>10. Books(z, Len(cl.got), hist.out, hist.lost) BY <1>4 DEF Right, Books
<1>11. Right(z) BY <1>3, <1>5, <1>6, <1>9, <1>10 DEF Right
<1> QED BY <1>11 DEF z, o, d

(* The two server-stopping hooks for a session with a token: everything    *)
(* held is handed to delivery/failure before the session is closed.        *)
LEMMA RightStoppedToken ==
  ASSUME Around, NEW x, Right(x), x.token
  PROVE  LET y == session_close([CloseConn(handle_unacked_stanzas(
                    [x EXCEPT !.old_h = x.handled, !.registered = FALSE, !.token = FALSE]),
                    x.conn) EXCEPT !.conn = None], "error")
         IN /\ Right(y) /\ y.conn = None /\ y.destroyed /\ ~y.hibernating /\ y.watchdog = "none" /\ y.smacks = "nil"
            /\ y.handled = x.handled /\ y.old_h = x.handled /\ y.q.tail = x.q.tail /\ y.down = x.down
            /\ y.owner = CloseConn(x, x.conn).owner /\ y.up = CloseConn(x, x.conn).up
<1> DEFINE a == [x EXCEPT !.old_h = x.handled, !.registered = FALSE, !.token = FALSE]
           b == handle_unacked_stanzas(a)
           d == CloseConn(b, x.conn)
           e == [d EXCEPT !.conn = None]
           f == [e EXCEPT !.token = FALSE, !.watchdog = "none", !.registered = @ /\ ~e.token]
           y == session_close(e, "error")
<1>1. /\ Right(a) /\ Links(x, a) /\ a.down = x.down /\ a.smacks = "on" /\ ~a.token /\ ~a.destroyed
      /\ a.closing = x.closing /\ a.grace = x.grace /\ a.handled = x.handled /\ a.old_h = x.handled /\ a.q = x.q
  <2>1. x.smacks = "on" /\ ~x.destroyed BY DEF Right, Alive
  <2> QED BY <2>1, RightUntoken
<1> HIDE DEF a
<1>2. /\ b \in Server /\ b.smacks \in {"on", "off"} /\ (CountUnacked(b.q) > 0 => b.smacks = "off")
      /\ b.q = Consume(a.q) /\ b.failed = a.failed \union Range(a.q.queue)
      /\ ~b.token /\ ~b.destroyed /\ b.closing = a.closing /\ b.grace = a.grace /\ Links(a, b) /\ b.down = a.down
      /\ b.handled = a.handled /\ b.old_h = a.old_h
  BY <1>1, UnackedIs
<1> HIDE DEF b
<1>3. x.conn \in Conn \union {None} /\ cl.conn \in Conn \union {None} BY AroundIs DEF Right, Server
<1>c. x \in Server /\ b.up = x.up /\ b.owner = x.owner /\ b.down = x.down
  BY <1>1, <1>2 DEF Right, Links
<1>4. /\ d \in Server /\ Self(b, d) /\ d.down = x.down
      /\ d.owner = CloseConn(x, x.conn).owner /\ d.up = CloseConn(x, x.conn).up
  <2>1. CASE x.conn = None BY <1>2, <1>c, <2>1 DEF CloseConn, Self
  <2>2. CASE x.conn # None
    <3>1. x.conn \in Conn BY <1>3, <2>2
    <3>2. /\ d \in Server /\ Self(b, d) /\ d.down = b.down
          /\ d.owner = [b.owner EXCEPT ![x.conn] = "none"] /\ d.up = [b.up EXCEPT ![x.conn] = <<>>]
      BY <1>2, <3>1, CloseIs
    <3>3. /\ CloseConn(x, x.conn).owner = [x.owner EXCEPT ![x.conn] = "none"]
          /\ CloseConn(x, x.conn).up = [x.up EXCEPT ![x.conn] = <<>>]
      BY <1>c, <3>1, CloseIs
    <3> HIDE DEF d
    <3> QED BY <1>c, <3>2, <3>3
  <2> QED BY <2>1, <2>2
<1>5. Net(d, cl.conn, Len(cl.got), hist.out)
  <2>0. Net(b, cl.conn, Len(cl.got), hist.out) BY <1>1, <1>2, <1>3, NetLess DEF Right, Links
  <2>1. CASE x.conn = None BY <2>0, <2>1 DEF CloseConn
  <2>2. CASE x.conn # None BY <1>2, <1>3, <2>0, <2>2, NetClosed
  <2> QED BY <2>1, <2>2
<1> HIDE DEF d
<1>6. e \in Server BY <1>4 DEF Server
<1>7. /\ e.conn = None /\ e.smacks = d.smacks /\ e.token = d.token /\ e.q = d.q /\ e.destroyed = d.destroyed
      /\ e.closing = d.closing /\ e.grace = d.grace /\ e.failed = d.failed
      /\ e.owner = d.owner /\ e.closed = d.closed /\ e.up = d.up /\ e.down = d.down
      /\ e.handled = d.handled /\ e.old_h = d.old_h
  BY <1>4 DEF Server
<1> HIDE DEF e
<1>8. f \in Server BY <1>6, ZenonT(60) DEF Server
<1>9. /\ f.conn = None /\ f.smacks = e.smacks /\ ~f.token /\ f.q = e.q /\ f.destroyed = e.destroyed
      /\ f.closing = e.closing /\ f.grace = e.grace /\ f.failed = e.failed
      /\ f.owner = e.owner /\ f.closed = e.closed /\ f.up = e.up /\ f.down = e.down
      /\ f.handled = e.handled /\ f.old_h = e.old_h
  BY <1>6, <1>7 DEF Server
<1>10. f.smacks \in {"on", "off"} /\ f.q = b.q /\ ~f.destroyed /\ ~e.destroyed BY <1>2, <1>4, <1>7, <1>9 DEF Self
<1>11. y = retire(f)
  <2>1. pre_session_close(e) = f
    <3>1. e.smacks # "nil" BY <1>9, <1>10
    <3>2. pre_session_close(e) = IF f.smacks = "on" THEN Send(f, Item("a", f.handled)) ELSE f
      BY <3>1 DEF pre_session_close, f
    <3>3. Send(f, Item("a", f.handled)) = f BY <1>9 DEF Send
    <3> QED BY <3>2, <3>3
  <2> HIDE DEF f
  <2>2. y = destroy_session(f) BY <1>9, <1>10, <2>1 DEF session_close
  <2>3. CASE f.smacks = "off"
    <3> QED BY <1>9, <1>10, <2>2, <2>3 DEF destroy_session
  <2>4. CASE f.smacks = "on"
    <3>1. ~(CountUnacked(f.q) > 0)
      <4>1. b.smacks = "on" BY <1>4, <1>7, <1>9, <2>4 DEF Self
      <4> QED BY <1>2, <1>10, <4>1
    <3>2. handle_unacked_stanzas(f) = f BY <3>1 DEF handle_unacked_stanzas
    <3> QED BY <1>9, <1>10, <2>2, <2>4, <3>2 DEF destroy_session
  <2> QED BY <1>10, <2>3, <2>4
<1> HIDE DEF f
<1> DEFINE z == retire(f)
<1>12. /\ z \in Server /\ z.destroyed /\ z.smacks = "nil" /\ ~z.token /\ ~z.hibernating /\ z.conn = None
       /\ z.q = Consume(f.q) /\ z.closing = f.closing /\ z.grace = f.grace /\ z.owner = f.owner
       /\ z.closed = f.closed /\ z.up = f.up /\ z.down = f.down /\ z.failed = f.failed
       /\ z.handled = f.handled /\ z.old_h = f.old_h /\ z.watchdog = "none"
  BY <1>8, RetireIs
<1> HIDE DEF z
<1>13. Net(z, cl.conn, Len(cl.got), hist.out)
  <2>1. z.up = d.up /\ z.owner = d.owner /\ z.closed = d.closed /\ z.down = d.down BY <1>7, <1>9, <1>12
  <2>2. z.conn \in {d.conn, None} BY <1>12
  <2> QED BY <1>3, <1>5, <2>1, <2>2, NetLess
<1>14. a.q \in Queue /\ a.failed \in SUBSET Nat /\ Books(a, Len(cl.got), hist.out, hist.lost) BY <1>1 DEF Right, Server
<1>15. z.q = Consume(a.q)
  <2>1. Consume(Consume(a.q)) = Consume(a.q) BY <1>14 DEF Consume, Queue
  <2> QED BY <1>2, <1>10, <1>12, <2>1
<1>16. z.failed = a.failed \union Range(a.q.queue)
  <2>1. z.failed = d.failed BY <1>7, <1>9, <1>12
  <2>2. d.failed = b.failed BY <1>4 DEF Self
  <2> QED BY <1>2, <2>1, <2>2
<1>17. z.grace => z.closing
  <2>1. z.grace = d.grace /\ z.closing = d.closing BY <1>7, <1>9, <1>12
  <2>2. d.grace = b.grace /\ d.closing = b.closing BY <1>4 DEF Self
  <2>3. a.grace => a.closing BY <1>1 DEF Right, Alive
  <2> QED BY <1>2, <2>1, <2>2, <2>3
<1>18. Right(z) BY <1>12, <1>13, <1>14, <1>15, <1>16, <1>17, RightGone
<1>19. /\ z.handled = x.handled /\ z.old_h = x.handled /\ z.down = x.down
       /\ z.owner = CloseConn(x, x.conn).owner /\ z.up = CloseConn(x, x.conn).up
  BY <1>1, <1>2, <1>4, <1>7, <1>9, <1>12 DEF Self
<1>20. z.q.tail = x.q.tail BY <1>1, <1>14, <1>15, ConsumeIs
<1> QED BY <1>11, <1>12, <1>18, <1>19, <1>20 DEF y, e, d, b, a, z

(* The server is stopped. *)
LEMMA RightStopped ==
  ASSUME Around, NEW x, Right(x)
  PROVE  Right(server_stopping(x))
<1> DEFINE y == IF x.token
             THEN session_close([CloseConn(handle_unacked_stanzas(
                    [x EXCEPT !.old_h = x.handled, !.registered = FALSE, !.token = FALSE]),
                    x.conn) EXCEPT !.conn = None], "error")
             ELSE session_close(x, "error")
<1>1. Right(y) /\ y.conn = None
  <2>1. CASE x.token BY <2>1, RightStoppedToken
  <2>2. CASE ~x.token BY <2>2, RightSessionClose
  <2> QED BY <2>1, <2>2
<1>2. server_stopping(x) = [y EXCEPT !.owner = [c \in Conn |-> "none"], !.registered = FALSE,
                                     !.closed = @ \union {c \in Conn : y.owner[c] # "none"}]
  BY DEF server_stopping
<1> HIDE DEF y
<1> QED BY <1>1, <1>2, RightAllClosed, ZenonT(60)
-----------------------------------------------------------------------------
(* Resumption. *)

(* What S is after it has moved to connection c: its old connection is     *)
(* closed, and a client on c is sent the answer and what the queue holds.  *)
Moved(x, y, c) ==
  /\ y.smacks = x.smacks /\ y.token = x.token /\ y.registered = x.registered
  /\ y.destroyed = x.destroyed /\ y.handled = x.handled /\ y.old_h = x.old_h /\ y.closing = x.closing
  /\ ~y.hibernating /\ y.conn = c
  /\ y.owner = [CloseConn(x, x.conn).owner EXCEPT ![c] = "S"] /\ y.up = CloseConn(x, x.conn).up
  /\ \A d \in Conn : d # c \/ c # cl.conn => y.down[d] = x.down[d]
  /\ c = cl.conn => \E r \in Seq(DownItem) :
       /\ y.down[c] = (IF x.closing THEN <<>> ELSE <<Item("resumed", x.handled)>>) \o r
       /\ \A k \in DOMAIN r : r[k].t = "stanza" /\ r[k].n \in 1..hist.out

(* The session moves to connection c, where it sends again what it holds.  *)
LEMMA RightMoved ==
  ASSUME Around, NEW z, Right(z), ~z.destroyed, NEW c \in Conn, z.owner[c] = "N",
         z.up[c] = <<>> \/ z.up[c][1].t # "resume", Resumable(z.q),
         c = cl.conn => z.q.tail = Len(cl.got) /\ z.down[c] = <<>>
  PROVE  LET w == Send(update_session(z, c), Item("resumed", z.handled))
             resent == [i \in DOMAIN w.q.queue |-> Item("stanza", w.q.queue[i])]
             y == [Transmit(w, w.conn, resent) EXCEPT !.awaiting_ack = FALSE]
         IN Right(y) /\ Moved(z, y, c) /\ y.q = z.q /\ y.watchdog = z.watchdog
<1> DEFINE v == CloseConn(z, z.conn)
           o == [v.owner EXCEPT ![c] = "S"]
           u == update_session(z, c)
           i == Item("resumed", z.handled)
           w == Send(u, i)
           resent == [k \in DOMAIN w.q.queue |-> Item("stanza", w.q.queue[k])]
           t == Transmit(w, w.conn, resent)
           y == [t EXCEPT !.awaiting_ack = FALSE]
           g == Len(cl.got)
<1>0. /\ z \in Server /\ z.owner \in [Conn -> {"none", "S", "N"}] /\ z.conn \in Conn \union {None}
      /\ z.up \in [Conn -> Seq(UpItem)] /\ z.q \in Queue /\ z.handled \in Int
      /\ z.down \in [Conn -> Seq(DownItem)]
  BY DEF Right, Server
<1>1. cl.conn \in Conn \union {None} /\ g \in Nat /\ hist.out \in Nat /\ g <= hist.out BY AroundIs
<1>2. z.conn # c /\ \A d \in Conn : z.owner[d] = "S" <=> z.conn = d BY DEF Right, Owns
<1>3. v \in Server /\ Self(z, v) /\ v.down = z.down
  <2>1. CASE z.conn = None BY <1>0, <2>1 DEF CloseConn, Self
  <2>2. CASE z.conn # None BY <1>0, <2>2, CloseIs
  <2> QED BY <2>1, <2>2
<1>4. v.owner \in [Conn -> {"none", "S", "N"}] /\ \A d \in Conn : v.owner[d] # "S"
  <2>1. CASE z.conn = None BY <1>0, <1>2, <2>1, NoneIsNoConn DEF CloseConn
  <2>2. CASE z.conn # None
    <3>1. v.owner = [z.owner EXCEPT ![z.conn] = "none"] BY <1>0, <2>2, CloseIs
    <3> QED BY <1>0, <1>2, <3>1
  <2> QED BY <2>1, <2>2
<1>5. v.owner[c] = "N" /\ v.up[c] = z.up[c]
  <2>1. CASE z.conn = None BY <2>1 DEF CloseConn
  <2>2. CASE z.conn # None
    <3>1. v.owner = [z.owner EXCEPT ![z.conn] = "none"] /\ v.up = [z.up EXCEPT ![z.conn] = <<>>]
      BY <1>0, <2>2, CloseIs
    <3> QED BY <1>0, <1>2, <3>1
  <2> QED BY <2>1, <2>2
<1>6. Net(v, cl.conn, g, hist.out)
  <2>0. Net(z, cl.conn, g, hist.out) BY DEF Right
  <2>1. CASE z.conn = None BY <2>0, <2>1 DEF CloseConn
  <2>2. CASE z.conn # None BY <1>0, <1>1, <2>0, <2>2, NetClosed
  <2> QED BY <2>1, <2>2
<1>7. u = [v EXCEPT !.conn = c, !.owner = o, !.hibernating = FALSE] BY DEF update_session
<1>8. o \in [Conn -> {"none", "S", "N"}] /\ o[c] = "S" /\ \A d \in Conn : d # c => o[d] = v.owner[d]
  BY <1>4
<1>8a. o = [v.owner EXCEPT ![c] = "S"] /\ v = CloseConn(z, z.conn) OBVIOUS
<1> HIDE DEF v, o
<1>9. u \in Server BY <1>3, <1>7, <1>8, ZenonT(60) DEF Server
<1>10. /\ u.conn = c /\ u.owner = o /\ ~u.hibernating /\ u.smacks = v.smacks /\ u.token = v.token /\ u.q = v.q
       /\ u.destroyed = v.destroyed /\ u.closing = v.closing /\ u.grace = v.grace /\ u.failed = v.failed
       /\ u.closed = v.closed /\ u.up = v.up /\ u.down = v.down
       /\ u.registered = v.registered /\ u.watchdog = v.watchdog /\ u.handled = v.handled /\ u.old_h = v.old_h
  BY <1>3, <1>7 DEF Server
<1> HIDE DEF u
<1>11. u.q = z.q /\ u.down = z.down BY <1>3, <1>10 DEF Self
<1>12a. i = Item("resumed", z.handled) OBVIOUS
<1>12. i \in DownItem /\ i.t # "stanza" /\ <<i>> \in Seq(DownItem) BY <1>0, ItemIs
<1> HIDE DEF i
<1>13. w = (IF ~u.closing THEN Transmit(u, c, <<i>>) ELSE u) BY <1>10, NoneIsNoConn DEF Send
<1> HIDE DEF w
<1>14. w \in Server /\ Self(u, w) /\ Links(u, w) /\ \A d \in Conn : d # c \/ c # cl.conn => w.down[d] = u.down[d]
  <2>1. Self(u, u) /\ Links(u, u) BY DEF Self, Links
  <2>2. CASE u.closing BY <1>9, <1>13, <2>1, <2>2
  <2>3. CASE ~u.closing
    <3>1. w = Transmit(u, c, <<i>>) BY <1>13, <2>3
    <3>2. /\ Transmit(u, c, <<i>>) \in Server /\ Self(u, Transmit(u, c, <<i>>)) /\ Links(u, Transmit(u, c, <<i>>))
          /\ \A d \in Conn : d # c \/ c # cl.conn => Transmit(u, c, <<i>>).down[d] = u.down[d]
      BY <1>9, <1>12, TransmitIs
    <3> QED BY ONLY <3>1, <3>2
  <2> QED BY <2>2, <2>3
<1>15. c = cl.conn => Carries(w.down[c], g, g) /\ w.down[c] \in Seq(DownItem)
  <2> SUFFICES ASSUME c = cl.conn PROVE Carries(w.down[c], g, g) /\ w.down[c] \in Seq(DownItem) OBVIOUS
  <2>1. u.down[c] = <<>> BY <1>11
  <2>2. w.down[c] \in Seq(DownItem) BY <1>14 DEF Server
  <2>3. Carries(<<>>, g, g) BY <1>1, CarriesNone
  <2>4. CASE u.closing BY <1>13, <2>1, <2>2, <2>3, <2>4
  <2>5. CASE ~u.closing
    <3>0. w = Transmit(u, c, <<i>>) BY <1>13, <2>5
    <3>01. Transmit(u, c, <<i>>).down[c] = u.down[c] \o <<i>> BY <1>9, <1>12, TransmitIs
    <3>1. w.down[c] = <<>> \o <<i>> BY ONLY <3>0, <3>01, <2>1
    <3>2. Carries(<<>> \o <<i>>, g, g)
      <4>1. <<>> \in Seq(DownItem) OBVIOUS
      <4> HIDE DEF g
      <4> QED BY <1>1, <1>12, <2>3, <4>1, CarriesOther
    <3> QED BY <2>2, <3>1, <3>2
  <2> QED BY <2>4, <2>5
<1>15a. c = cl.conn => w.down[c] = IF z.closing THEN <<>> ELSE <<i>>
  <2> SUFFICES ASSUME c = cl.conn PROVE w.down[c] = IF z.closing THEN <<>> ELSE <<i>> OBVIOUS
  <2>1. u.down[c] = <<>> /\ u.closing = z.closing BY <1>3, <1>10, <1>11 DEF Self
  <2>2. CASE u.closing BY <1>13, <2>1, <2>2
  <2>3. CASE ~u.closing
    <3>1. w = Transmit(u, c, <<i>>) BY <1>13, <2>3
    <3>2. Transmit(u, c, <<i>>).down[c] = u.down[c] \o <<i>> BY <1>9, <1>12, TransmitIs
    <3>3. w.down[c] = <<>> \o <<i>> BY ONLY <3>1, <3>2, <2>1
    <3>4. <<>> \o <<i>> = <<i>> OBVIOUS
    <3> QED BY <2>1, <2>3, <3>3, <3>4
  <2> QED BY <2>2, <2>3
<1>16. w.q = z.q /\ w.conn = c BY <1>10, <1>11, <1>14 DEF Self, Links
<1>17. /\ z.q.queue \in Seq(Nat) /\ z.q.head \in Nat /\ z.q.tail \in Nat /\ z.q.head = hist.out
       /\ Len(z.q.queue) = hist.out - z.q.tail
       /\ \A k \in 1..Len(z.q.queue) : z.q.queue[k] = hist.out - Len(z.q.queue) + k
  <2>1. z.q.queue \in Seq(Nat) /\ z.q.head \in Nat /\ z.q.tail \in Nat BY <1>0 DEF Queue
  <2>2. /\ z.q.head = hist.out /\ Len(z.q.queue) <= hist.out - z.q.tail
        /\ \A k \in 1..Len(z.q.queue) : z.q.queue[k] = hist.out - Len(z.q.queue) + k
    BY DEF Right, Books, Booked
  <2>3. Len(z.q.queue) >= z.q.head - z.q.tail BY DEF Resumable
  <2>4. Len(z.q.queue) \in Nat BY <2>1
  <2>5. Len(z.q.queue) = hist.out - z.q.tail
    <3> HIDE DEF g
    <3> QED BY ONLY <2>1, <2>2, <2>3, <2>4
  <2> QED BY <2>1, <2>2, <2>5
<1>18. resent \in Seq(DownItem) /\ Len(resent) = Len(z.q.queue) /\
       \A k \in 1..Len(z.q.queue) : resent[k].t = "stanza" /\ resent[k].n = z.q.queue[k]
  <2> DEFINE s == z.q.queue
  <2>1. resent = [k \in DOMAIN s |-> Item("stanza", s[k])] BY <1>16
  <2>2. s \in Seq(Nat) /\ DOMAIN s = 1..Len(s) /\ Len(s) \in Nat BY <1>17
  <2>3. \A k \in DOMAIN s : Item("stanza", s[k]) \in DownItem /\ Item("stanza", s[k]).t = "stanza" /\ Item("stanza", s[k]).n = s[k]
    <3> SUFFICES ASSUME NEW k \in DOMAIN s PROVE Item("stanza", s[k]) \in DownItem /\ Item("stanza", s[k]).t = "stanza" /\ Item("stanza", s[k]).n = s[k] OBVIOUS
    <3>1. s[k] \in Int BY <2>2
    <3> HIDE DEF s
    <3> QED BY <3>1, ItemIs
  <2> HIDE DEF s, resent
  <2>4. resent \in [1..Len(s) -> DownItem] BY <2>1, <2>2, <2>3
  <2>5. resent \in Seq(DownItem) /\ Len(resent) = Len(s) BY <2>2, <2>4
  <2>6. \A k \in 1..Len(s) : resent[k].t = "stanza" /\ resent[k].n = s[k] BY <2>1, <2>2, <2>3
  <2> QED BY <2>5, <2>6 DEF s
<1> HIDE DEF resent
<1>19. t = Transmit(w, c, resent) BY <1>16
<1>20. /\ t \in Server /\ Self(w, t) /\ Links(w, t) /\ \A d \in Conn : d # c \/ c # cl.conn => t.down[d] = w.down[d]
       /\ c = cl.conn => t.down[c] = w.down[c] \o resent
  BY <1>14, <1>18, <1>19, TransmitIs
<1>21. c = cl.conn => Carries(t.down[c], g, hist.out)
  <2> SUFFICES ASSUME c = cl.conn PROVE Carries(t.down[c], g, hist.out) OBVIOUS
  <2> DEFINE m == hist.out - g
  <2>1. m \in Nat /\ g + m = hist.out /\ Len(resent) = m BY <1>1, <1>17, <1>18
  <2>2. \A k \in 1..m : resent[k].t = "stanza" /\ resent[k].n = g + k
    <3> SUFFICES ASSUME NEW k \in 1..m PROVE resent[k].t = "stanza" /\ resent[k].n = g + k OBVIOUS
    <3>1. k \in 1..Len(z.q.queue) /\ hist.out - Len(z.q.queue) + k = g + k BY <1>1, <1>17
    <3> QED BY <1>17, <1>18, <3>1
  <2> HIDE DEF m, g
  <2>3. Carries(w.down[c] \o resent, g, g + m) BY <1>1, <1>15, <1>18, <2>1, <2>2, CarriesAgain
  <2> QED BY <1>20, <2>1, <2>3
<1> HIDE DEF t
<1>22. y \in Server BY <1>20 DEF Server
<1>23. Self(t, y) /\ Links(t, y) /\ y.down = t.down BY <1>20 DEF Server, Self, Links
<1> HIDE DEF y
<1>24. /\ y.smacks = z.smacks /\ y.token = z.token /\ y.q = z.q /\ y.destroyed = z.destroyed
       /\ y.closing = z.closing /\ y.grace = z.grace /\ y.failed = z.failed /\ ~y.hibernating
       /\ y.registered = z.registered /\ y.watchdog = z.watchdog /\ y.handled = z.handled /\ y.old_h = z.old_h
  <2>1. Self(w, y) BY <1>20, <1>23 DEF Self
  <2>2. Self(u, y) BY <1>14, <2>1 DEF Self
  <2>3. /\ y.smacks = u.smacks /\ y.token = u.token /\ y.q = u.q /\ y.destroyed = u.destroyed
        /\ y.closing = u.closing /\ y.grace = u.grace /\ y.failed = u.failed /\ y.hibernating = u.hibernating
        /\ y.registered = u.registered /\ y.watchdog = u.watchdog /\ y.handled = u.handled /\ y.old_h = u.old_h
    BY <2>2 DEF Self
  <2> QED BY <1>3, <1>10, <2>3 DEF Self
<1>25. y.conn = c /\ y.owner = o /\ y.closed = v.closed /\ y.up = v.up
  BY <1>10, <1>14, <1>20, <1>23 DEF Links
<1>26. \A d \in Conn : d # c \/ c # cl.conn => y.down[d] = z.down[d] BY <1>11, <1>14, <1>20, <1>23
<1>27. Alive(y) BY <1>24, <1>25 DEF Right, Alive
<1>28. Owns(y) BY <1>4, <1>8, <1>25 DEF Owns
<1>29. Wired(y)
  <2>1. ASSUME NEW d \in Conn, NEW k \in DOMAIN y.up[d], y.up[d][k].t = "resume" PROVE k = 1 /\ y.owner[d] # "S"
    <3>1. k = 1 BY <1>6, <1>25, <2>1 DEF Net, Wired
    <3>2. d # c
      <4>1. CASE d = c
        <5>1. y.up[d] = z.up[c] BY <1>5, <1>25, <4>1
        <5>2. z.up[c] # <<>> BY <1>0, <5>1
        <5> QED BY <2>1, <3>1, <5>1, <5>2
      <4> QED BY <4>1
    <3> QED BY <1>4, <1>8, <1>25, <3>1, <3>2
  <2>2. ASSUME NEW d \in Conn, y.owner[d] = "none", d \notin y.closed PROVE y.down[d] = <<>>
    <3>1. d # c BY <1>8, <1>25, <2>2
    <3>2. v.owner[d] = "none" /\ d \notin v.closed BY <1>8, <1>25, <2>2, <3>1
    <3>3. v.down[d] = <<>> BY <1>6, <3>2 DEF Net, Wired
    <3> QED BY <1>3, <1>26, <3>1, <3>3
  <2> QED BY <2>1, <2>2 DEF Wired
<1>30. cl.conn # None => Flows(y, cl.conn, g, hist.out)
  <2> SUFFICES ASSUME cl.conn # None PROVE Flows(y, cl.conn, g, hist.out) OBVIOUS
  <2>0. Flows(v, cl.conn, g, hist.out) BY <1>6 DEF Net
  <2>1. CASE cl.conn = c
    <3>1. Carries(y.down[c], g, hist.out) BY <1>21, <1>23, <2>1
    <3>2. hist.out \in g..hist.out BY <1>1
    <3>3. y.up[c] = <<>> \/ y.up[c][1].t # "resume" BY <1>5, <1>25
    <3> QED BY <2>1, <3>1, <3>2, <3>3 DEF Flows
  <2>2. CASE cl.conn # c
    <3>1. y.down[cl.conn] = v.down[cl.conn] BY <1>1, <1>3, <1>26, <2>2
    <3>2. y.up = v.up /\ y.conn # cl.conn BY <1>25, <2>2
    <3> QED BY <2>0, <3>1, <3>2 DEF Flows
  <2> QED BY <2>1, <2>2
<1>31. Net(y, cl.conn, g, hist.out) BY <1>6, <1>25, <1>29, <1>30 DEF Net
<1>32. Books(y, g, hist.out, hist.lost) BY <1>24 DEF Right, Books
<1>33. Right(y) BY <1>22, <1>27, <1>28, <1>31, <1>32 DEF Right
<1>34. c = cl.conn => \E r \in Seq(DownItem) :
         /\ y.down[c] = (IF z.closing THEN <<>> ELSE <<Item("resumed", z.handled)>>) \o r
         /\ \A k \in DOMAIN r : r[k].t = "stanza" /\ r[k].n \in 1..hist.out
  <2> SUFFICES ASSUME c = cl.conn
               PROVE  \E r \in Seq(DownItem) :
                        /\ y.down[c] = (IF z.closing THEN <<>> ELSE <<Item("resumed", z.handled)>>) \o r
                        /\ \A k \in DOMAIN r : r[k].t = "stanza" /\ r[k].n \in 1..hist.out
    OBVIOUS
  <2>1. y.down[c] = (IF z.closing THEN <<>> ELSE <<Item("resumed", z.handled)>>) \o resent
    BY <1>12a, <1>15a, <1>20, <1>23
  <2>2. \A k \in DOMAIN resent : k \in 1..Len(z.q.queue) BY <1>17, <1>18
  <2>3. ASSUME NEW k \in 1..Len(z.q.queue) PROVE z.q.queue[k] \in 1..hist.out
    <3> DEFINE l == Len(z.q.queue)
    <3>1. l = hist.out - z.q.tail /\ z.q.tail \in Nat /\ z.q.queue[k] = hist.out - l + k /\ k \in 1..l BY <1>17
    <3> HIDE DEF l
    <3> QED BY <1>1, <3>1
  <2>4. \A k \in DOMAIN resent : resent[k].t = "stanza" /\ resent[k].n \in 1..hist.out BY <1>18, <2>2, <2>3
  <2> QED BY <1>18, <2>1, <2>4
<1>35. Moved(z, y, c) BY <1>8a, <1>24, <1>25, <1>26, <1>34 DEF Moved
<1> QED BY <1>24, <1>33, <1>35 DEF y, t, resent, w, i, u

(* A resumption that is refused: the count it came with may still have     *)
(* been taken for an acknowledgement.                                      *)
Refused(x, y, c, h) ==
  /\ y.smacks = x.smacks /\ y.token = x.token /\ (y.registered => x.registered)
  /\ y.hibernating = x.hibernating /\ y.destroyed = x.destroyed /\ y.handled = x.handled
  /\ y.closing = x.closing /\ y.conn = x.conn /\ y.owner = x.owner /\ y.up = x.up
  /\ y.watchdog \in {x.watchdog, "none"} /\ y.old_h \in {x.old_h, NoH}
  /\ y.q.tail = x.q.tail \/ (x.q.tail <= h /\ y.q.tail = h)
  /\ \A d \in Conn : d # c \/ c # cl.conn => y.down[d] = x.down[d]
  /\ c = cl.conn => \E n \in {NoH, x.old_h} : y.down[c] = x.down[c] \o <<Item("failed", n)>>

(* One that is not: S moves to c, then asks for an acknowledgement. *)
Accepted(x, y, c, h) ==
  /\ x.registered /\ ~x.destroyed /\ x.q.tail <= h
  /\ \E f : /\ Right(f) /\ Moved(x, f, c) /\ f.q.tail = h /\ f.watchdog = "none"
            /\ y = request_ack_now_if_needed(f, TRUE)

(* The answer to a refused one is sent on its connection. *)
LEMMA RefusedBy ==
  ASSUME NEW x, NEW y \in Server, NEW c \in Conn, NEW h, NEW n \in {NoH, x.old_h}, n \in Int,
         y.smacks = x.smacks, y.token = x.token, y.registered => x.registered,
         y.hibernating = x.hibernating, y.destroyed = x.destroyed, y.handled = x.handled,
         y.closing = x.closing, y.conn = x.conn, y.owner = x.owner, y.up = x.up, y.down = x.down,
         y.watchdog \in {x.watchdog, "none"}, y.old_h \in {x.old_h, NoH},
         y.q.tail = x.q.tail \/ (x.q.tail <= h /\ y.q.tail = h)
  PROVE  Refused(x, Transmit(y, c, <<Item("failed", n)>>), c, h)
<1> DEFINE i == Item("failed", n)
           w == Transmit(y, c, <<i>>)
<1>1. i \in DownItem BY ItemIs
<1>2. <<i>> \in Seq(DownItem) BY <1>1
<1> HIDE DEF i
<1>3. /\ Self(y, w) /\ Links(y, w)
      /\ c = cl.conn => w.down[c] = y.down[c] \o <<i>>
      /\ \A d \in Conn : d # c => w.down[d] = y.down[d]
      /\ c # cl.conn => w = y
  BY <1>2, TransmitIs, ZenonT(60)
<1> HIDE DEF w
<1>4. c = cl.conn => w.down[c] = x.down[c] \o <<Item("failed", n)>> BY <1>3 DEF i
<1>5. \A d \in Conn : d # c \/ c # cl.conn => w.down[d] = x.down[d] BY <1>3
<1>6. Refused(x, w, c, h) BY <1>3, <1>4, <1>5 DEF Refused, Self, Links
<1> QED BY <1>6 DEF w, i

(* <resume/>, read from connection c: h is what the client had received    *)
(* when it sent it, and if c is still its connection, has received now.    *)
LEMMA RightResumed ==
  ASSUME Around, NEW x, Right(x), NEW c \in Conn, x.owner[c] = "N",
         x.up[c] = <<>> \/ x.up[c][1].t # "resume", NEW h \in Nat, h <= Len(cl.got),
         c = cl.conn => h = Len(cl.got) /\ x.down[c] = <<>>
  PROVE  /\ Right(handle_resume(x, c, h))
         /\ Refused(x, handle_resume(x, c, h), c, h) \/ Accepted(x, handle_resume(x, c, h), c, h)
<1>0. x \in Server /\ x.old_h \in Int /\ NoH \in Int BY DEF Right, Server, NoH
<1>1. \A n \in Int : Item("failed", n) \in DownItem /\ Item("failed", n).t # "stanza" BY ItemIs
<1>2. CASE ~x.registered \/ x.destroyed
  <2> DEFINE y == [x EXCEPT !.registered = FALSE, !.old_h = NoH]
             i == Item("failed", x.old_h)
  <2>1. y \in Server BY <1>0 DEF Server
  <2>2. /\ y.down = x.down /\ y.smacks = x.smacks /\ y.token = x.token /\ y.q = x.q /\ y.hibernating = x.hibernating
        /\ y.destroyed = x.destroyed /\ y.conn = x.conn /\ y.closing = x.closing /\ y.grace = x.grace
        /\ y.owner = x.owner /\ y.closed = x.closed /\ y.up = x.up /\ y.failed = x.failed
        /\ ~y.registered /\ y.watchdog = x.watchdog /\ y.handled = x.handled /\ y.old_h = NoH
    BY <1>0 DEF Server
  <2>3. handle_resume(x, c, h) = Transmit(y, c, <<i>>) BY <1>2 DEF handle_resume
  <2>4. i \in DownItem /\ i.t # "stanza" BY <1>0, <1>1
  <2> HIDE DEF y
  <2>a. Refused(x, Transmit(y, c, <<i>>), c, h) BY <1>0, <2>1, <2>2, RefusedBy
  <2> HIDE DEF i
  <2>5. Right(y) BY <2>1, <2>2, RightSame
  <2>6. y.owner[c] # "none" /\ (y.up[c] = <<>> \/ y.up[c][1].t # "resume") BY <2>2
  <2>7. Right(Transmit(y, c, <<i>>)) BY <2>4, <2>5, <2>6, RightTransmitted
  <2> QED BY <2>3, <2>7, <2>a
<1>3. CASE x.registered /\ ~x.destroyed
  <2> DEFINE y == [x EXCEPT !.watchdog = "none"]
             z == [y EXCEPT !.q = Ack(@, h)]
             i == Item("failed", NoH)
             w == Send(update_session(z, c), Item("resumed", z.handled))
             resent == [k \in DOMAIN w.q.queue |-> Item("stanza", w.q.queue[k])]
             f == [Transmit(w, w.conn, resent) EXCEPT !.awaiting_ack = FALSE]
  <2>1. y \in Server BY <1>0 DEF Server
  <2>2. /\ y.down = x.down /\ y.smacks = x.smacks /\ y.token = x.token /\ y.q = x.q /\ y.hibernating = x.hibernating
        /\ y.destroyed = x.destroyed /\ y.conn = x.conn /\ y.closing = x.closing /\ y.grace = x.grace
        /\ y.owner = x.owner /\ y.closed = x.closed /\ y.up = x.up /\ y.failed = x.failed
        /\ y.registered = x.registered /\ y.watchdog = "none" /\ y.handled = x.handled /\ y.old_h = x.old_h
    BY <1>0 DEF Server
  <2>3. handle_resume(x, c, h) =
          IF AckError(x.q, h) # "none" THEN Transmit(y, c, <<i>>)
          ELSE IF ~Resumable(z.q) THEN Transmit(z, c, <<i>>)
          ELSE finish_resume(w)
    BY <1>3 DEF handle_resume
  <2>4. finish_resume(w) = request_ack_now_if_needed(f, TRUE) BY DEF finish_resume
  <2>5. i \in DownItem /\ i.t # "stanza" BY <1>0, <1>1
  <2> HIDE DEF y
  <2>a. Refused(x, Transmit(y, c, <<i>>), c, h) BY <1>0, <2>1, <2>2, RefusedBy
  <2>b. x.q \in Queue BY <1>0 DEF Server
  <2>c. AckError(x.q, h) = "none" => x.q.tail <= h BY <2>b DEF AckError, Queue
  <2>6. Right(y) BY <2>1, <2>2, RightSame
  <2>7. CASE AckError(x.q, h) # "none"
    <3>1. y.owner[c] # "none" /\ (y.up[c] = <<>> \/ y.up[c][1].t # "resume") BY <2>2
    <3>2. Right(Transmit(y, c, <<i>>)) BY <2>5, <2>6, <3>1, RightTransmitted
    <3> QED BY <2>3, <2>7, <2>a, <3>2
  <2>8. CASE AckError(x.q, h) = "none"
    <3> DEFINE p == Ack(y.q, h)
    <3>1. p \in Queue /\ p.head = y.q.head /\ p.tail = h /\ Booked(p, y.failed, hist.out, hist.lost)
      BY <1>3, <2>2, <2>6, <2>8, RightAcked
    <3>2. z = [y EXCEPT !.q = p] OBVIOUS
    <3> HIDE DEF p
    <3>3. z \in Server BY <2>1, <3>1, <3>2 DEF Server
    <3>4. /\ z.q = p /\ z.smacks = y.smacks /\ z.token = y.token /\ z.hibernating = y.hibernating
          /\ z.destroyed = y.destroyed /\ z.closing = y.closing /\ z.grace = y.grace /\ z.failed = y.failed
          /\ z.down = y.down /\ z.registered = y.registered /\ z.watchdog = y.watchdog
          /\ z.handled = y.handled /\ z.old_h = y.old_h
      BY <2>1, <3>2 DEF Server
    <3>5. Links(y, z) BY <2>1, <3>2 DEF Server, Links
    <3> HIDE DEF z
    <3>6. Alive(z) BY <2>6, <3>1, <3>4, <3>5 DEF Right, Alive, Links
    <3>7. Owns(z) BY <2>6, <3>4, <3>5 DEF Right, Owns, Links
    <3>8. Net(z, cl.conn, Len(cl.got), hist.out) BY <2>6, <3>4, <3>5, AroundIs, NetLess DEF Right, Links
    <3>9. Books(z, Len(cl.got), hist.out, hist.lost) BY <3>1, <3>4 DEF Books
    <3>10. Right(z) BY <3>3, <3>6, <3>7, <3>8, <3>9 DEF Right
    <3>11. z.owner[c] = "N" /\ (z.up[c] = <<>> \/ z.up[c][1].t # "resume") BY <2>2, <3>5 DEF Links
    <3>12. CASE ~Resumable(z.q)
      <4>1. Right(Transmit(z, c, <<i>>)) BY <2>5, <3>10, <3>11, RightTransmitted
      <4>2. x.q.tail <= h /\ z.q.tail = h BY <2>8, <2>c, <3>1, <3>4
      <4>3. Refused(x, Transmit(z, c, <<i>>), c, h)
        BY <1>0, <2>2, <3>3, <3>4, <3>5, <4>2, RefusedBy, ZenonT(60) DEF Links
      <4> QED BY <2>3, <2>8, <3>12, <4>1, <4>3
    <3>13. CASE Resumable(z.q)
      <4>1. ~z.destroyed BY <1>3, <2>2, <3>4
      <4>2. c = cl.conn => z.q.tail = Len(cl.got) /\ z.down[c] = <<>> BY <2>2, <3>1, <3>4
      <4>3. Right(f) /\ Moved(z, f, c) /\ f.q = z.q /\ f.watchdog = z.watchdog
        BY <3>10, <3>11, <3>13, <4>1, <4>2, RightMoved
      <4> HIDE DEF f
      <4>5. Moved(x, f, c)
        <5>1. /\ CloseConn(z, z.conn).owner = CloseConn(x, x.conn).owner
              /\ CloseConn(z, z.conn).up = CloseConn(x, x.conn).up
          <6>1. z.conn = x.conn /\ z.owner = x.owner /\ z.up = x.up BY <2>2, <3>5 DEF Links
          <6>2. x.conn \in Conn \union {None} BY <1>0 DEF Server
          <6>3. CASE x.conn = None BY <6>1, <6>3 DEF CloseConn
          <6>4. CASE x.conn \in Conn
            <7>1. /\ CloseConn(z, x.conn).owner = [z.owner EXCEPT ![x.conn] = "none"]
                  /\ CloseConn(z, x.conn).up = [z.up EXCEPT ![x.conn] = <<>>]
              BY <3>3, <6>4, CloseIs
            <7>2. /\ CloseConn(x, x.conn).owner = [x.owner EXCEPT ![x.conn] = "none"]
                  /\ CloseConn(x, x.conn).up = [x.up EXCEPT ![x.conn] = <<>>]
              BY <1>0, <6>4, CloseIs
            <7> QED BY <6>1, <7>1, <7>2
          <6> QED BY <6>2, <6>3, <6>4
        <5>2. /\ z.smacks = x.smacks /\ z.token = x.token /\ z.registered = x.registered
              /\ z.destroyed = x.destroyed /\ z.handled = x.handled /\ z.old_h = x.old_h
              /\ z.closing = x.closing /\ z.down = x.down
          BY <2>2, <3>4
        <5>3. \A d \in Conn : d # c \/ c # cl.conn => f.down[d] = x.down[d] BY <4>3, <5>2 DEF Moved
        <5>4. c = cl.conn => \E r \in Seq(DownItem) :
                /\ f.down[c] = (IF x.closing THEN <<>> ELSE <<Item("resumed", x.handled)>>) \o r
                /\ \A k \in DOMAIN r : r[k].t = "stanza" /\ r[k].n \in 1..hist.out
          BY ONLY <4>3, <5>2 DEF Moved
        <5>5. /\ f.smacks = x.smacks /\ f.token = x.token /\ f.registered = x.registered
              /\ f.destroyed = x.destroyed /\ f.handled = x.handled /\ f.old_h = x.old_h
              /\ f.closing = x.closing /\ ~f.hibernating /\ f.conn = c
              /\ f.owner = [CloseConn(x, x.conn).owner EXCEPT ![c] = "S"] /\ f.up = CloseConn(x, x.conn).up
          BY <4>3, <5>1, <5>2 DEF Moved
        <5> QED BY <5>3, <5>4, <5>5 DEF Moved
      <4>6. f.q.tail = h /\ f.watchdog = "none" /\ x.q.tail <= h BY <2>2, <2>8, <2>c, <3>1, <3>4, <4>3
      <4>7. Accepted(x, request_ack_now_if_needed(f, TRUE), c, h) BY <1>3, <4>3, <4>5, <4>6 DEF Accepted
      <4>4. Right(request_ack_now_if_needed(f, TRUE)) BY <4>3, RightRequested
      <4> QED BY <2>3, <2>4, <2>8, <3>13, <4>4, <4>7
    <3> QED BY <3>12, <3>13
  <2> QED BY <2>7, <2>8
<1>4. x.registered \in BOOLEAN /\ x.destroyed \in BOOLEAN BY <1>0 DEF Server
<1> QED BY <1>2, <1>3, <1>4

(* The parser takes an item off connection c. *)
LEMMA RightParsed ==
  ASSUME Around, NEW x, Right(x), NEW c \in Conn, x.up[c] # <<>>
  PROVE  LET y == [x EXCEPT !.up[c] = Tail(@)]
             i == Head(x.up[c])
         IN /\ Right(y) /\ Self(x, y) /\ y.owner = x.owner /\ y.conn = x.conn /\ y.closed = x.closed /\ y.down = x.down
            /\ i \in UpItem /\ (i.t \in {"a", "resume"} => i.n \in 0..Len(cl.got))
            /\ i.t = "resume" => x.owner[c] # "S"
            /\ i.t = "resume" /\ c = cl.conn => i.n = Len(cl.got) /\ x.down[c] = <<>>
            /\ y.up[c] = <<>> \/ y.up[c][1].t # "resume"
            /\ y.up[c] = Tail(x.up[c]) /\ \A d \in Conn : d # c => y.up[d] = x.up[d]
<1> DEFINE y == [x EXCEPT !.up[c] = Tail(@)]
           s == x.up[c]
           i == Head(s)
           r == Tail(s)
           u == [x.up EXCEPT ![c] = r]
<1>0. x \in Server /\ x.up \in [Conn -> Seq(UpItem)] BY DEF Right, Server
<1>1. /\ s \in Seq(UpItem) /\ r \in Seq(UpItem) /\ i \in UpItem /\ i = s[1] /\ 1 \in DOMAIN s
      /\ \A k \in DOMAIN r : k + 1 \in DOMAIN s /\ r[k] = s[k + 1]
  <2>1. s \in Seq(UpItem) BY <1>0
  <2> HIDE DEF s
  <2> QED BY <2>1, TailItems DEF s
<1>2. u \in [Conn -> Seq(UpItem)] /\ u[c] = r /\ \A d \in Conn : d # c => u[d] = x.up[d] BY <1>0, <1>1
<1>3. y = [x EXCEPT !.up = u] OBVIOUS
<1>4. Honest(r, Len(cl.got)) /\ (i.t \in {"a", "resume"} => i.n \in 0..Len(cl.got))
  <2>1. Honest(s, Len(cl.got)) BY DEF Right, Net
  <2> QED BY <1>1, <2>1 DEF Honest
<1>5. \A k \in DOMAIN r : r[k].t # "resume"
  <2> SUFFICES ASSUME NEW k \in DOMAIN r, r[k].t = "resume" PROVE FALSE OBVIOUS
  <2>1. k + 1 \in DOMAIN s /\ s[k + 1].t = "resume" BY <1>1
  <2>2. k + 1 = 1 BY <2>1 DEF Right, Net, Wired
  <2>3. k \in Nat /\ k > 0 BY <1>1
  <2> QED BY <2>2, <2>3
<1>6. r = <<>> \/ r[1].t # "resume"
  <2>1. r # <<>> => 1 \in DOMAIN r BY <1>1
  <2> QED BY <1>5, <2>1
<1>7. i.t = "resume" => x.owner[c] # "S" BY <1>1 DEF Right, Net, Wired
<1>8. i.t = "resume" /\ c = cl.conn => i.n = Len(cl.got) /\ x.down[c] = <<>>
  BY <1>1, NoneIsNoConn DEF Right, Net, Flows
<1> HIDE DEF u, r, i, s
<1>9. y \in Server BY <1>0, <1>2, <1>3 DEF Server
<1>10. Self(x, y) BY <1>0, <1>3 DEF Server, Self
<1>11. y.up = u /\ y.owner = x.owner /\ y.conn = x.conn /\ y.closed = x.closed /\ y.down = x.down
  BY <1>0, <1>3 DEF Server
<1> HIDE DEF y
<1>12. Alive(y) BY <1>10, <1>11 DEF Right, Alive, Self
<1>13. Owns(y) BY <1>10, <1>11 DEF Right, Owns, Self
<1>14. Wired(y)
  <2>1. ASSUME NEW d \in Conn, NEW k \in DOMAIN y.up[d], y.up[d][k].t = "resume" PROVE k = 1 /\ y.owner[d] # "S"
    <3>1. d # c BY <1>2, <1>5, <1>11, <2>1
    <3>2. y.up[d] = x.up[d] BY <1>2, <1>11, <3>1
    <3> QED BY <1>11, <2>1, <3>2 DEF Right, Net, Wired
  <2>2. \A d \in Conn : y.owner[d] = "none" /\ d \notin y.closed => y.down[d] = <<>>
    BY <1>11 DEF Right, Net, Wired
  <2> QED BY <2>1, <2>2 DEF Wired
<1>15. \A d \in Conn : Honest(y.up[d], Len(cl.got)) BY <1>2, <1>4, <1>11 DEF Right, Net
<1>16. cl.conn # None => Flows(y, cl.conn, Len(cl.got), hist.out)
  <2> SUFFICES ASSUME cl.conn # None PROVE Flows(y, cl.conn, Len(cl.got), hist.out) OBVIOUS
  <2>0. Flows(x, cl.conn, Len(cl.got), hist.out) /\ cl.conn \in Conn BY AroundIs DEF Right, Net
  <2>1. CASE cl.conn = c BY <1>2, <1>6, <1>11, <2>0, <2>1 DEF Flows
  <2>2. CASE cl.conn # c
    <3>1. y.up[cl.conn] = x.up[cl.conn] BY <1>2, <1>11, <2>0, <2>2
    <3> QED BY <1>11, <2>0, <3>1 DEF Flows
  <2> QED BY <2>1, <2>2
<1>17. Net(y, cl.conn, Len(cl.got), hist.out) BY <1>14, <1>15, <1>16 DEF Net
<1>18. Books(y, Len(cl.got), hist.out, hist.lost) BY <1>10 DEF Right, Books, Self
<1>19. Right(y) BY <1>9, <1>12, <1>13, <1>17, <1>18 DEF Right
<1> QED BY <1>1, <1>2, <1>4, <1>6, <1>7, <1>8, <1>10, <1>11, <1>19 DEF y, s, i, r

(* count_incoming_stanzas does not touch any of this. *)
LEMMA RightCounted ==
  ASSUME NEW x, Right(x), NEW i
  PROVE  Right(count_incoming_stanzas(x, i))
<1> DEFINE y == [x EXCEPT !.handled = @ + 1]
<1>0. x \in Server /\ x.handled \in Int BY DEF Right, Server
<1>1. y \in Server
  <2>1. x.handled + 1 \in Int BY <1>0
  <2> QED BY <1>0, <2>1 DEF Server
<1>2. /\ y.down = x.down /\ y.smacks = x.smacks /\ y.token = x.token /\ y.q = x.q /\ y.hibernating = x.hibernating
      /\ y.destroyed = x.destroyed /\ y.conn = x.conn /\ y.closing = x.closing /\ y.grace = x.grace
      /\ y.owner = x.owner /\ y.closed = x.closed /\ y.up = x.up /\ y.failed = x.failed
  BY <1>0 DEF Server
<1>3. count_incoming_stanzas(x, i) \in {x, y} BY DEF count_incoming_stanzas
<1> HIDE DEF y
<1>4. Right(y) BY <1>1, <1>2, RightSame
<1> QED BY <1>3, <1>4
-----------------------------------------------------------------------------
(* The actions. *)

(* Right is RightFor at the present client and history. *)
LEMMA RightIs == \A x : Right(x) <=> RightFor(x, cl.conn, Len(cl.got), hist.out, hist.lost)
BY DEF Right, RightFor

(* The invariant says what the lemmas on the server's state assume. *)
LEMMA InvAround == SmacksInv => Around
BY DEF SmacksInv, Types, Around

(* What an action has to keep when it leaves alone what the client has and *)
(* what was routed.                                                        *)
LEMMA KeptBy ==
  ASSUME SmacksInv, Right(srv'), cl' \in Client, cl'.conn = cl.conn, cl'.got = cl.got,
         cl'.conn = None => cl'.phase \in {"off", "gone"},
         hist' \in History, hist'.out = hist.out, hist'.lost = hist.lost,
         inbox' \in Seq(InItem), Honest(inbox', Len(cl.got)), thread' \in {"ready", "waiting"},
         chunk' \in [c : Conn \union {None}, n : Nat], chunk'.n > 0 => chunk'.c \in Conn,
         paused' \subseteq Conn, partial' \in BOOLEAN
  PROVE  SmacksInv'
<1>1. Types' BY DEF Types, Right
<1>2. Received' BY DEF SmacksInv, Received
<1>3. Right(srv)' BY DEF Right
<1>4. Honest(inbox, Len(cl.got))' OBVIOUS
<1> QED BY <1>1, <1>2, <1>3, <1>4 DEF SmacksInv

(* Actions that change the server's state alone. *)
LEMMA KeptByServer ==
  ASSUME SmacksInv, Right(srv'), UNCHANGED <<thread, inbox, chunk, paused, partial, cl, hist>>
  PROVE  SmacksInv'
BY KeptBy DEF SmacksInv, Types

(* One lemma for each action that changes the server alone. *)
LEMMA RequestAckKeeps == ASSUME SmacksInv, NEW force, RequestAck(force) PROVE SmacksInv'
<1>1. Right(srv) BY DEF SmacksInv
<1>2. Right(srv') BY <1>1, InvAround, RightRequested DEF RequestAck
<1> QED BY <1>2, KeptByServer DEF RequestAck

(* A read timeout keeps the invariant. *)
LEMMA ReadTimeoutKeeps == ASSUME SmacksInv, ReadTimeout PROVE SmacksInv'
<1>1. Right(srv) BY DEF SmacksInv
<1>2. srv.conn \in Conn BY <1>1, ConnectedIs DEF ReadTimeout
<1>3. Right(ondisconnect(srv, srv.conn)) BY <1>1, <1>2, InvAround, RightDisconnected
<1>4. Right(request_ack_now_if_needed(srv, TRUE)) BY <1>1, InvAround, RightRequested
<1>5. Right(srv') BY <1>3, <1>4 DEF ReadTimeout
<1> QED BY <1>5, KeptByServer DEF ReadTimeout

(* So does noticing a connection the client has left, *)
LEMMA DisconnectKeeps == ASSUME SmacksInv, NEW c \in Conn, Disconnect(c) PROVE SmacksInv'
<1>1. Right(srv) BY DEF SmacksInv
<1>2. Right(srv') BY <1>1, InvAround, RightDisconnected DEF Disconnect
<1> QED BY <1>2, KeptByServer DEF Disconnect

(* closing the session, *)
LEMMA CloseSessionKeeps == ASSUME SmacksInv, NEW reason, CloseSession(reason) PROVE SmacksInv'
<1>1. Right(srv) BY DEF SmacksInv
<1>2. Right(srv') BY <1>1, InvAround, RightSessionClose DEF CloseSession
<1> QED BY <1>2, KeptByServer DEF CloseSession

(* The client's time to answer a clean close is up, or no longer matters. *)
LEMMA RightUngraced ==
  ASSUME Around, NEW x, Right(x)
  PROVE  Right([x EXCEPT !.grace = FALSE])
<1> DEFINE y == [x EXCEPT !.grace = FALSE]
<1>0. x \in Server BY DEF Right
<1>1. y \in Server BY <1>0 DEF Server
<1>2. /\ ~y.grace /\ y.smacks = x.smacks /\ y.token = x.token /\ y.q = x.q
      /\ y.hibernating = x.hibernating /\ y.destroyed = x.destroyed /\ y.closing = x.closing
      /\ y.failed = x.failed /\ y.down = x.down
  BY <1>0 DEF Server
<1>3. Links(x, y) BY <1>0 DEF Server, Links
<1> HIDE DEF y
<1>4. Alive(y) BY <1>2, <1>3 DEF Right, Alive, Links
<1>5. Owns(y) BY <1>2, <1>3 DEF Right, Owns, Links
<1>6. Net(y, cl.conn, Len(cl.got), hist.out) BY <1>2, <1>3, AroundIs, NetLess DEF Right, Links
<1>7. Books(y, Len(cl.got), hist.out, hist.lost) BY <1>2 DEF Right, Books
<1>8. Right(y) BY <1>1, <1>4, <1>5, <1>6, <1>7 DEF Right
<1> QED BY <1>8 DEF y

(* ending it when the client does not answer a clean close, *)
LEMMA GraceTimeoutKeeps == ASSUME SmacksInv, GraceTimeout PROVE SmacksInv'
<1> DEFINE y == [srv EXCEPT !.grace = FALSE]
<1>1. Right(srv) /\ Around BY InvAround DEF SmacksInv
<1>2. srv \in Server BY <1>1 DEF Right
<1>3. y.token = srv.token /\ y.q = srv.q BY <1>2 DEF Server
<1>4. Right(y) BY <1>1, RightUngraced
<1>5. srv' = IF srv.destroyed THEN y ELSE CloseConn(destroy_session(y), srv.conn) BY DEF GraceTimeout
<1> HIDE DEF y
<1>6. y.token => y.q.head = 0 BY <1>1, <1>3 DEF Right, Alive, GraceTimeout
<1>7. Right(destroy_session(y)) /\ destroy_session(y).conn = None BY <1>1, <1>4, <1>6, RightDestroyed
<1>8. Right(CloseConn(destroy_session(y), srv.conn))
  <2>1. CASE srv.conn = None BY <1>7, <2>1 DEF CloseConn
  <2>2. CASE srv.conn # None
    <3>1. srv.conn \in Conn BY <1>2, <2>2 DEF Server
    <3> QED BY <1>1, <1>7, <2>2, <3>1, RightClosed
  <2> QED BY <2>1, <2>2
<1>9. Right(srv') BY <1>4, <1>5, <1>8
<1> QED BY <1>9, KeptByServer DEF GraceTimeout

(* and stopping the server. *)
LEMMA ServerStopsKeeps == ASSUME SmacksInv, ServerStops PROVE SmacksInv'
<1>1. Right(srv) /\ Around BY InvAround DEF SmacksInv
<1>2. Right(srv') BY <1>1, RightStopped DEF ServerStops
<1>3. hist' \in History /\ hist'.out = hist.out /\ hist'.lost = hist.lost
  BY <1>1 DEF ServerStops, Around, History
<1>4. inbox' = <<>> /\ thread' = "ready" /\ UNCHANGED <<chunk, paused, partial, cl>> BY DEF ServerStops
<1>5. inbox' \in Seq(InItem) /\ Honest(inbox', Len(cl.got)) BY <1>4 DEF Honest
<1> QED BY <1>2, <1>3, <1>4, <1>5, KeptBy DEF SmacksInv, Types

(* An honest item is queued for the session's thread. *)
LEMMA HonestAppend ==
  ASSUME NEW s \in Seq(InItem), NEW i \in InItem, NEW g, Honest(s, g), i.t # "resume", i.t = "a" => i.n \in 0..g
  PROVE  Append(s, i) \in Seq(InItem) /\ Honest(Append(s, i), g)
<1> DEFINE u == Append(s, i)
<1>1. u \in Seq(InItem) /\ DOMAIN u = 1..(Len(s) + 1) /\ DOMAIN s = 1..Len(s) /\ Len(s) \in Nat
  OBVIOUS
<1>2. \A k \in DOMAIN u : (k \in DOMAIN s /\ u[k] = s[k]) \/ u[k] = i OBVIOUS
<1> HIDE DEF u
<1>3. Honest(u, g) BY <1>2 DEF Honest
<1> QED BY <1>1, <1>3 DEF u

(* The watchdog's timer keeps the invariant, *)
LEMMA WatchdogFiresKeeps == ASSUME SmacksInv, WatchdogFires PROVE SmacksInv'
<1>1. Right(srv) /\ Around BY InvAround DEF SmacksInv
<1>2. Right(srv')
  <2> DEFINE y == [srv EXCEPT !.watchdog = "fired"]
  <2>0. srv \in Server BY <1>1 DEF Right
  <2>1. y \in Server BY <2>0 DEF Server
  <2>2. /\ y.down = srv.down /\ y.smacks = srv.smacks /\ y.token = srv.token /\ y.q = srv.q
        /\ y.hibernating = srv.hibernating /\ y.destroyed = srv.destroyed /\ y.conn = srv.conn
        /\ y.closing = srv.closing /\ y.grace = srv.grace /\ y.owner = srv.owner
        /\ y.closed = srv.closed /\ y.up = srv.up /\ y.failed = srv.failed
    BY <2>0 DEF Server
  <2>3. srv' = y BY DEF WatchdogFires
  <2> HIDE DEF y
  <2> QED BY <1>1, <2>1, <2>2, <2>3, RightSame
<1>3. inbox' \in Seq(InItem) /\ Honest(inbox', Len(cl.got))
  <2>1. Item("expire", 0) \in InItem /\ Item("expire", 0).t = "expire" BY DEF Item, InItem
  <2>2. inbox \in Seq(InItem) /\ Honest(inbox, Len(cl.got)) BY DEF SmacksInv, Types
  <2>3. Append(inbox, Item("expire", 0)) \in Seq(InItem) /\ Honest(Append(inbox, Item("expire", 0)), Len(cl.got))
    BY <2>1, <2>2, HonestAppend
  <2>4. inbox' = inbox \/ inbox' = Append(inbox, Item("expire", 0)) BY DEF WatchdogFires
  <2> QED BY <2>2, <2>3, <2>4
<1>4. UNCHANGED <<thread, chunk, paused, partial, cl, hist>> BY DEF WatchdogFires
<1> QED BY <1>2, <1>3, <1>4, KeptBy DEF SmacksInv, Types

(* and so does waking the thread. *)
LEMMA WakeKeeps == ASSUME SmacksInv, Wake PROVE SmacksInv'
<1>1. Right(srv') BY DEF SmacksInv, Wake, Right
<1>2. paused' \subseteq Conn /\ thread' = "ready" BY DEF Wake, SmacksInv, Types
<1>3. UNCHANGED <<inbox, chunk, partial, cl, hist>> BY DEF Wake
<1> QED BY <1>1, <1>2, <1>3, KeptBy DEF SmacksInv, Types

(* The item the session's thread takes, and what is left in its queue. *)
LEMMA TakenIs ==
  ASSUME SmacksInv, inbox # <<>>
  PROVE  /\ Head(inbox) \in InItem /\ Tail(inbox) \in Seq(InItem) /\ Honest(Tail(inbox), Len(cl.got))
         /\ Head(inbox).t = "a" => Head(inbox).n \in 0..Len(cl.got)
<1>1. inbox \in Seq(InItem) /\ Honest(inbox, Len(cl.got)) BY DEF SmacksInv, Types
<1>2. /\ Head(inbox) \in InItem /\ Tail(inbox) \in Seq(InItem) /\ Head(inbox) = inbox[1] /\ 1 \in DOMAIN inbox
      /\ \A k \in DOMAIN Tail(inbox) : k + 1 \in DOMAIN inbox /\ Tail(inbox)[k] = inbox[k + 1]
  BY <1>1, TailItems
<1>3. Honest(Tail(inbox), Len(cl.got)) BY <1>1, <1>2 DEF Honest
<1>4. Head(inbox).t = "a" => Head(inbox).n \in 0..Len(cl.got) BY <1>1, <1>2 DEF Honest
<1> QED BY <1>2, <1>3, <1>4

(* Whatever item the thread takes, handling it keeps the invariant. *)
LEMMA RunItemKeeps == ASSUME SmacksInv, RunItem PROVE SmacksInv'
<1> DEFINE i == Head(inbox)
<1>0. Right(srv) /\ Around BY InvAround DEF SmacksInv
<1>1. inbox # <<>> /\ inbox' = Tail(inbox) /\ UNCHANGED <<chunk, partial, cl>> BY DEF RunItem
<1>2. /\ i \in InItem /\ inbox' \in Seq(InItem) /\ Honest(inbox', Len(cl.got))
      /\ i.t = "a" => i.n \in 0..Len(cl.got)
  BY <1>1, TakenIs
<1>3. i.t \in {"stanza", "a", "r", "enable", "close", "expire"} /\ i.n \in Int BY <1>2 DEF InItem
<1>4. srv' = CASE srv.destroyed \/ i.t = "stanza" -> srv
               [] ~srv.destroyed /\ i.t = "enable" -> handle_enable(srv)
               [] ~srv.destroyed /\ i.t = "a" -> handle_a(srv, i.n)
               [] ~srv.destroyed /\ i.t = "r" -> handle_r(srv)
               [] ~srv.destroyed /\ i.t = "expire" -> expire(srv)
               [] ~srv.destroyed /\ i.t = "close" -> session_close(srv, "client")
  BY DEF RunItem
<1>5. srv.destroyed \in BOOLEAN /\ srv.conn \in Conn \union {None} BY <1>0 DEF Right, Server
<1>6. hist' \in History /\ hist'.out = hist.out /\ hist'.lost = hist.lost
  <2> DEFINE d == IF i.t = "stanza" /\ i.n > 0 /\ ~srv.destroyed THEN Append(hist.done, i.n) ELSE hist.done
             r == hist.rejected \/ (/\ i.t = "a" /\ ~srv.destroyed /\ srv.smacks = "on"
                                    /\ srv.conn # None /\ srv.conn = cl.conn
                                    /\ AckError(srv.q, i.n) # "none")
  <2>1. hist \in History BY <1>0 DEF Around
  <2>2. d \in Seq(Nat)
    <3>1. hist.done \in Seq(Nat) BY <2>1 DEF History
    <3>2. i.n > 0 => i.n \in Nat BY <1>3
    <3> QED BY <3>1, <3>2
  <2>3. r \in BOOLEAN BY <2>1 DEF History
  <2>4. hist' = [hist EXCEPT !.done = d, !.rejected = r] BY DEF RunItem
  <2> HIDE DEF d, r
  <2> QED BY <2>1, <2>2, <2>3, <2>4 DEF History
<1>7. thread' \in {"ready", "waiting"} /\ paused' \subseteq Conn
  <2>1. thread \in {"ready", "waiting"} /\ paused \subseteq Conn BY DEF SmacksInv, Types
  <2>2. paused \union ({srv.conn} \ {None}) \subseteq Conn BY <1>5, <2>1
  <2>3. thread' = thread \/ thread' = "waiting" BY DEF RunItem
  <2>4. paused' = paused \/ paused' = paused \union ({srv.conn} \ {None}) BY DEF RunItem
  <2> QED BY <2>1, <2>2, <2>3, <2>4
<1> HIDE DEF i
<1>8. Right(srv')
  <2>1. CASE srv.destroyed \/ i.t = "stanza"
    <3>1. srv' = srv BY <1>4, <2>1
    <3> QED BY <1>0, <3>1
  <2>2. CASE ~srv.destroyed /\ i.t = "enable"
    <3>1. srv' = handle_enable(srv) BY <1>4, <2>2
    <3> QED BY <1>0, <2>2, <3>1, RightEnabled
  <2>3. CASE ~srv.destroyed /\ i.t = "a"
    <3>1. srv' = handle_a(srv, i.n) BY <1>4, <2>3
    <3>2. i.n \in Nat /\ i.n <= Len(cl.got) BY <1>0, <1>2, <2>3, AroundIs
    <3> QED BY <1>0, <2>3, <3>1, <3>2, RightA
  <2>4. CASE ~srv.destroyed /\ i.t = "r"
    <3>1. srv' = handle_r(srv) BY <1>4, <2>4
    <3> QED BY <1>0, <3>1, RightR
  <2>5. CASE ~srv.destroyed /\ i.t = "expire"
    <3>1. srv' = expire(srv) BY <1>4, <2>5
    <3> QED BY <1>0, <3>1, RightExpired
  <2>6. CASE ~srv.destroyed /\ i.t = "close"
    <3>1. srv' = session_close(srv, "client") BY <1>4, <2>6
    <3> QED BY <1>0, <3>1, RightSessionClose
  <2> QED BY <1>3, <1>5, <2>1, <2>2, <2>3, <2>4, <2>5, <2>6
<1> QED BY <1>1, <1>2, <1>6, <1>7, <1>8, KeptBy DEF SmacksInv, Types

(* The parser hands an item to the session or to N. *)
LEMMA Fed ==
  ASSUME SmacksInv, NEW c \in Conn, srv.up[c] # <<>>, srv.owner[c] # "none", FeedItem(c)
  PROVE  /\ Right(srv') /\ inbox' \in Seq(InItem) /\ Honest(inbox', Len(cl.got)) /\ partial' \in BOOLEAN
         /\ UNCHANGED <<thread, paused, cl, hist>>
<1> DEFINE i == Head(srv.up[c])
           x == [srv EXCEPT !.up[c] = Tail(@)]
<1>0. Right(srv) /\ Around BY InvAround DEF SmacksInv
<1>1. /\ Right(x) /\ Self(srv, x) /\ x.owner = srv.owner /\ x.down = srv.down
      /\ i \in UpItem /\ (i.t \in {"a", "resume"} => i.n \in 0..Len(cl.got))
      /\ i.t = "resume" => srv.owner[c] # "S"
      /\ i.t = "resume" /\ c = cl.conn => i.n = Len(cl.got) /\ srv.down[c] = <<>>
      /\ x.up[c] = <<>> \/ x.up[c][1].t # "resume"
  BY <1>0, RightParsed
<1>2. UNCHANGED <<thread, paused, cl, hist>> BY DEF FeedItem
<1>3. \/ /\ srv.owner[c] = "N" /\ i.t = "resume"
         /\ srv' = handle_resume(x, c, i.n)
         /\ UNCHANGED <<inbox, partial>>
      \/ /\ srv.owner[c] = "S"
         /\ srv' = count_incoming_stanzas(x, i)
         /\ inbox' = IF i.t = "half" THEN inbox ELSE Append(inbox, i)
         /\ partial' = (i.t = "half")
      \/ srv' = x /\ UNCHANGED <<inbox, partial>>
  BY DEF FeedItem
<1>4. inbox \in Seq(InItem) /\ Honest(inbox, Len(cl.got)) /\ partial \in BOOLEAN BY DEF SmacksInv, Types
<1> HIDE DEF i, x
<1>5. CASE /\ srv.owner[c] = "N" /\ i.t = "resume"
           /\ srv' = handle_resume(x, c, i.n)
           /\ UNCHANGED <<inbox, partial>>
  <2>1. i.n \in Nat /\ i.n <= Len(cl.got) BY <1>0, <1>1, <1>5, AroundIs
  <2>2. c = cl.conn => i.n = Len(cl.got) /\ x.down[c] = <<>> BY <1>1, <1>5
  <2>3. x.owner[c] = "N" BY <1>1, <1>5
  <2>4. Right(handle_resume(x, c, i.n)) BY <1>0, <1>1, <2>1, <2>2, <2>3, RightResumed
  <2> QED BY <1>2, <1>4, <1>5, <2>4
<1>6. CASE /\ srv.owner[c] = "S"
           /\ srv' = count_incoming_stanzas(x, i)
           /\ inbox' = IF i.t = "half" THEN inbox ELSE Append(inbox, i)
           /\ partial' = (i.t = "half")
  <2>1. Right(srv') BY <1>1, <1>6, RightCounted
  <2>2. i.t # "resume" BY <1>1, <1>6
  <2>3. i.t # "half" => i \in InItem BY <1>1, <2>2 DEF UpItem, InItem
  <2>4. i.t # "half" => Append(inbox, i) \in Seq(InItem) /\ Honest(Append(inbox, i), Len(cl.got))
    BY <1>1, <1>4, <2>2, <2>3, HonestAppend
  <2>5. inbox' \in Seq(InItem) /\ Honest(inbox', Len(cl.got)) BY <1>4, <1>6, <2>4
  <2>6. partial' \in BOOLEAN BY <1>6
  <2> QED BY <1>2, <2>1, <2>5, <2>6
<1>7. CASE srv' = x /\ UNCHANGED <<inbox, partial>> BY <1>1, <1>2, <1>4, <1>7
<1> QED BY <1>3, <1>5, <1>6, <1>7

(* Reading data keeps the invariant, *)
LEMMA ReadChunkKeeps == ASSUME SmacksInv, NEW c \in Conn, ReadChunk(c) PROVE SmacksInv'
<1>1. srv.owner[c] # "none" /\ srv.up[c] # <<>> /\ FeedItem(c) BY DEF ReadChunk
<1>2. /\ Right(srv') /\ inbox' \in Seq(InItem) /\ Honest(inbox', Len(cl.got)) /\ partial' \in BOOLEAN
      /\ UNCHANGED <<thread, paused, cl, hist>>
  BY <1>1, Fed
<1>3. chunk' \in [c : Conn \union {None}, n : Nat] /\ chunk'.c \in Conn
  <2>1. PICK n \in IF MayWait THEN 1..Len(srv.up[c]) ELSE {1} : chunk' = [c |-> c, n |-> n - 1] BY DEF ReadChunk
  <2>2. Len(srv.up[c]) \in Nat BY DEF SmacksInv, Right, Server
  <2>3. n - 1 \in Nat BY <2>1, <2>2
  <2> QED BY <2>1, <2>3
<1> QED BY <1>2, <1>3, KeptBy DEF SmacksInv, Types

(* and so does parsing the rest of it. *)
LEMMA FeedRestKeeps == ASSUME SmacksInv, FeedRest PROVE SmacksInv'
<1>0. Right(srv) /\ Around BY InvAround DEF SmacksInv
<1>1. chunk \in [c : Conn \union {None}, n : Nat] /\ chunk.c \in Conn /\ chunk.n > 0
  BY DEF SmacksInv, Types, FeedRest
<1>2. \A k \in Nat : [chunk EXCEPT !.n = k] \in [c : Conn \union {None}, n : Nat] /\ [chunk EXCEPT !.n = k].c \in Conn
  BY <1>1
<1>3. CASE srv.up[chunk.c] # <<>>
  <2>1. chunk' = [chunk EXCEPT !.n = @ - 1] /\ FeedItem(chunk.c) BY <1>3 DEF FeedRest
  <2>2. chunk.n - 1 \in Nat BY <1>1
  <2>3. chunk' \in [c : Conn \union {None}, n : Nat] /\ chunk'.c \in Conn BY <1>2, <2>1, <2>2
  <2>4. srv.owner[chunk.c] # "none"
    BY <2>1 DEF FeedItem
  <2>5. /\ Right(srv') /\ inbox' \in Seq(InItem) /\ Honest(inbox', Len(cl.got)) /\ partial' \in BOOLEAN
        /\ UNCHANGED <<thread, paused, cl, hist>>
    BY <1>1, <1>3, <2>1, <2>4, Fed
  <2> QED BY <2>3, <2>5, KeptBy DEF SmacksInv, Types
<1>4. CASE srv.up[chunk.c] = <<>>
  <2>1. chunk' = [chunk EXCEPT !.n = 0] /\ UNCHANGED <<srv, inbox, partial, thread, paused, cl, hist>>
    BY <1>4 DEF FeedRest
  <2>2. chunk' \in [c : Conn \union {None}, n : Nat] /\ chunk'.c \in Conn BY <1>2, <2>1
  <2>3. Right(srv') BY <1>0, <2>1
  <2> QED BY <2>1, <2>2, <2>3, KeptBy DEF SmacksInv, Types
<1> QED BY <1>3, <1>4
-----------------------------------------------------------------------------
(* A stanza is routed to the session. *)

(* Append adds one element at the end. *)
LEMMA AppendIs ==
  ASSUME NEW T, NEW s \in Seq(T), NEW v \in T
  PROVE  /\ Append(s, v) \in Seq(T) /\ Len(Append(s, v)) = Len(s) + 1 /\ Append(s, v)[Len(s) + 1] = v
         /\ \A i \in 1..Len(s) : Append(s, v)[i] = s[i]
OBVIOUS

(* What push makes of a queue: it holds one stanza more, or has let go of  *)
(* the oldest.                                                             *)
LEMMA PushIs ==
  ASSUME NEW q \in Queue, NEW v \in Nat
  PROVE  /\ Push(q, v) \in Queue /\ Push(q, v).head = q.head + 1 /\ Push(q, v).tail = q.tail
         /\ \/ /\ Len(q.queue) < QueueSize /\ Len(Push(q, v).queue) = Len(q.queue) + 1
               /\ \A i \in 1..Len(q.queue) : Push(q, v).queue[i] = q.queue[i]
            \/ /\ Len(q.queue) >= 1 /\ Len(Push(q, v).queue) = Len(q.queue)
               /\ \A i \in 1..(Len(q.queue) - 1) : Push(q, v).queue[i] = q.queue[i + 1]
         /\ Push(q, v).queue[Len(Push(q, v).queue)] = v
<1> DEFINE s == q.queue
           t == IF Len(s) >= QueueSize THEN Tail(s) ELSE s
           u == Append(t, v)
<1>1. s \in Seq(Nat) /\ Len(s) \in Nat /\ q.head \in Nat /\ q.tail \in Nat BY DEF Queue
<1>2. QueueSize \in Nat /\ QueueSize >= 1 BY QueueSizeAssumption
<1>3. /\ u \in Seq(Nat) /\ u[Len(u)] = v
      /\ \/ /\ Len(s) < QueueSize /\ Len(u) = Len(s) + 1 /\ \A i \in 1..Len(s) : u[i] = s[i]
         \/ /\ Len(s) >= 1 /\ Len(u) = Len(s) /\ \A i \in 1..(Len(s) - 1) : u[i] = s[i + 1]
  <2> HIDE DEF s
  <2>1. CASE Len(s) >= QueueSize
    <3>1. s # <<>> /\ Len(s) >= 1 BY <1>1, <1>2, <2>1
    <3>2. Tail(s) \in Seq(Nat) /\ Len(Tail(s)) = Len(s) - 1 /\ \A i \in 1..(Len(s) - 1) : Tail(s)[i] = s[i + 1]
      BY <1>1, <3>1
    <3>3. u = Append(Tail(s), v) BY <2>1
    <3> HIDE DEF u, t
    <3>4. /\ u \in Seq(Nat) /\ Len(u) = Len(Tail(s)) + 1 /\ u[Len(Tail(s)) + 1] = v
          /\ \A i \in 1..Len(Tail(s)) : u[i] = Tail(s)[i]
      BY <3>2, <3>3, AppendIs
    <3>5. Len(u) = Len(s) /\ u[Len(u)] = v BY <1>1, <3>2, <3>4
    <3>6. \A i \in 1..(Len(s) - 1) : u[i] = s[i + 1] BY <3>2, <3>4
    <3> QED BY <3>1, <3>4, <3>5, <3>6
  <2>2. CASE ~(Len(s) >= QueueSize)
    <3>1. u = Append(s, v) /\ Len(s) < QueueSize BY <1>1, <1>2, <2>2
    <3> HIDE DEF u, t
    <3>2. u \in Seq(Nat) /\ Len(u) = Len(s) + 1 /\ u[Len(s) + 1] = v /\ \A i \in 1..Len(s) : u[i] = s[i]
      BY <1>1, <3>1, AppendIs
    <3> QED BY <3>1, <3>2
  <2> QED BY <2>1, <2>2, SMTT(60)
<1>4. Push(q, v) = [q EXCEPT !.head = q.head + 1, !.queue = u] BY DEF Push
<1>5. /\ Push(q, v) \in Queue /\ Push(q, v).head = q.head + 1 /\ Push(q, v).tail = q.tail
      /\ Push(q, v).queue = u
  <2> HIDE DEF u
  <2>1. q.head + 1 \in Nat BY <1>1
  <2> QED BY <1>3, <1>4, <2>1 DEF Queue
<1> HIDE DEF u
<1> QED BY <1>3, <1>5

(* The books after a push: what fell out of the queue is lost. *)
LEMMA BookedPush ==
  ASSUME NEW q \in Queue, NEW out \in Nat, NEW lost, Booked(q, {}, out, lost)
  PROVE  LET p == Push(q, out + 1)
         IN Booked(p, {}, out + 1, lost \union (Range(q.queue) \ Range(p.queue)))
<1> DEFINE p == Push(q, out + 1)
           s == q.queue
           u == p.queue
           l == Len(s)
           k == Len(u)
           more == lost \union (Range(s) \ Range(u))
<1>1. /\ p \in Queue /\ p.head = q.head + 1 /\ p.tail = q.tail /\ u[k] = out + 1
      /\ \/ k = l + 1 /\ \A i \in 1..l : u[i] = s[i]
         \/ l >= 1 /\ k = l /\ \A i \in 1..(l - 1) : u[i] = s[i + 1]
  <2>1. out + 1 \in Nat OBVIOUS
  <2> QED BY <2>1, PushIs
<1>2. /\ q.head = out /\ q.tail <= out /\ l <= out - q.tail
      /\ \A i \in 1..l : s[i] = out - l + i
      /\ \A n \in 1..out : n <= q.tail \/ n > out - l \/ n \in lost
  BY DEF Booked
<1>3. /\ s \in Seq(Nat) /\ u \in Seq(Nat) /\ l \in Nat /\ k \in Nat /\ q.tail \in Nat
      /\ DOMAIN s = 1..l /\ DOMAIN u = 1..k
  BY <1>1 DEF Queue
<1> HIDE DEF p, s, u, l, k
<1>4. k <= (out + 1) - p.tail /\ k >= 1 BY <1>1, <1>2, <1>3
<1>5. \A i \in 1..k : u[i] = (out + 1) - k + i
  <2> SUFFICES ASSUME NEW i \in 1..k PROVE u[i] = (out + 1) - k + i OBVIOUS
  <2>1. CASE i = k BY <1>1, <1>3, <2>1
  <2>2. CASE i # k /\ k = l + 1 /\ \A j \in 1..l : u[j] = s[j]
    <3>1. i \in 1..l BY <1>3, <2>2
    <3> QED BY <1>2, <1>3, <2>2, <3>1
  <2>3. CASE i # k /\ l >= 1 /\ k = l /\ \A j \in 1..(l - 1) : u[j] = s[j + 1]
    <3>1. i \in 1..(l - 1) /\ i + 1 \in 1..l BY <1>3, <2>3, SMTT(60)
    <3>2. s[i + 1] = out - l + (i + 1) BY <1>2, <3>1
    <3> QED BY <1>3, <2>3, <3>1, <3>2
  <2> QED BY <1>1, <2>1, <2>2, <2>3
<1>6. \A n \in 1..(out + 1) : n <= p.tail \/ n > (out + 1) - k \/ n \in more
  <2> SUFFICES ASSUME NEW n \in 1..(out + 1), ~(n <= p.tail), ~(n > (out + 1) - k) PROVE n \in more OBVIOUS
  <2>1. n \in 1..out BY <1>3, <1>4
  <2>2. CASE n \in lost BY <2>2
  <2>3. CASE n > out - l
    <3>1. k = l /\ n = out - l + 1 /\ l >= 1 BY <1>1, <1>3, <2>1, <2>3
    <3>2. s[1] = n /\ 1 \in DOMAIN s BY <1>2, <1>3, <3>1
    <3>3. n \in Range(s) BY <3>2 DEF Range
    <3>4. n \notin Range(u)
      <4> SUFFICES ASSUME NEW j \in 1..k, u[j] = n PROVE FALSE BY <1>3 DEF Range
      <4>1. n = (out + 1) - k + j BY <1>5
      <4> QED BY <1>3, <3>1, <4>1
    <3> QED BY <3>3, <3>4
  <2> QED BY <1>1, <1>2, <2>1, <2>2, <2>3
<1>7. p.head = out + 1 /\ p.tail <= out + 1 BY <1>1, <1>2, <1>3
<1>8. Booked(p, {}, out + 1, more)
  <2> HIDE DEF more
  <2>1. u = p.queue /\ k = Len(p.queue) BY DEF u, k
  <2> QED BY <1>4, <1>5, <1>6, <1>7, <2>1 DEF Booked
<1> QED BY <1>8 DEF p, s, u

(* What an action has to keep when it changes what the client has or what  *)
(* was routed, but not the session's thread.                               *)
LEMMA KeptFor ==
  ASSUME SmacksInv, RightFor(srv', cl'.conn, Len(cl'.got), hist'.out, hist'.lost), cl' \in Client,
         cl'.conn = None => cl'.phase \in {"off", "gone"}, hist' \in History,
         Len(cl'.got) <= hist'.out, \A k \in 1..Len(cl'.got) : cl'.got[k] = k,
         Len(cl.got) <= Len(cl'.got), UNCHANGED <<thread, inbox, chunk, paused, partial>>
  PROVE  SmacksInv'
<1>1. Types' BY DEF Types, RightFor, SmacksInv
<1>2. Received' BY DEF Received
<1>3. Right(srv)' BY DEF Right, RightFor
<1>4. Len(cl.got) \in Nat BY InvAround, AroundIs
<1>5. Len(cl'.got) \in Nat BY DEF Client
<1>6. Honest(inbox, Len(cl'.got)) BY <1>4, <1>5, HonestMore DEF SmacksInv
<1>7. Honest(inbox, Len(cl.got))' BY <1>6
<1> QED BY <1>1, <1>2, <1>3, <1>7 DEF SmacksInv

(* The stanza reaches the client's connection if the session is on it, and *)
(* the queue in any case.                                                  *)
LEMMA RightRouted ==
  ASSUME Around, NEW x, Right(x), ~x.destroyed, x.smacks = "on", ~x.closing,
         NEW y, y = send_stanza(x, hist.out + 1)
  PROVE  RightFor(y, cl.conn, Len(cl.got), hist.out + 1,
                  hist.lost \union (Range(x.q.queue) \ Range(y.q.queue)))
<1> DEFINE g == Len(cl.got)
           out == hist.out
           i == Item("stanza", out + 1)
           p == Push(x.q, out + 1)
           z == [x EXCEPT !.q = p]
           lost == hist.lost \union (Range(x.q.queue) \ Range(p.queue))
<1>0. x \in Server /\ x.q \in Queue /\ x.failed = {} /\ x.conn \in Conn \union {None} BY DEF Right, Alive, Server
<1>1. g \in Nat /\ out \in Nat /\ out + 1 \in Nat /\ g <= out /\ cl.conn \in Conn \union {None} BY AroundIs
<1>2. Booked(x.q, {}, out, hist.lost) /\ x.q.tail <= g BY <1>0 DEF Right, Books
<1>3. p \in Queue /\ p.head = x.q.head + 1 /\ p.tail = x.q.tail /\ Booked(p, {}, out + 1, lost)
  BY <1>0, <1>1, <1>2, PushIs, BookedPush
<1>4. i \in DownItem /\ i.t = "stanza" /\ i.n = out + 1 /\ <<i>> \in Seq(DownItem)
  <2>1. i \in DownItem /\ i.t = "stanza" /\ i.n = out + 1 BY <1>1, ItemIs
  <2> HIDE DEF i
  <2> QED BY <2>1
<1>5. y = IF x.hibernating THEN z ELSE Send(z, i) BY DEF send_stanza
<1> HIDE DEF g, out, i, p
<1>6. z \in Server BY <1>0, <1>3 DEF Server
<1>7. /\ z.q = p /\ z.smacks = x.smacks /\ z.token = x.token /\ z.hibernating = x.hibernating
      /\ z.destroyed = x.destroyed /\ z.closing = x.closing /\ z.grace = x.grace /\ z.failed = x.failed
      /\ z.down = x.down
  BY <1>0 DEF Server
<1>8. Links(x, z) BY <1>0 DEF Server, Links
<1> HIDE DEF z
<1>9. y = IF x.conn # None /\ ~x.hibernating THEN Transmit(z, z.conn, <<i>>) ELSE z
  BY <1>5, <1>7, <1>8 DEF Send, Links
<1>10. x.conn # None => ~x.hibernating /\ x.conn \in Conn BY ConnectedIs
<1>11. x.conn # None =>
         LET t == Transmit(z, z.conn, <<i>>)
         IN /\ t \in Server /\ Self(z, t) /\ Links(z, t)
            /\ z.conn = cl.conn => t.down[z.conn] = z.down[z.conn] \o <<i>>
            /\ \A d \in Conn : d # z.conn => t.down[d] = z.down[d]
            /\ z.conn # cl.conn => t = z
  <2> SUFFICES ASSUME x.conn # None
               PROVE  LET t == Transmit(z, z.conn, <<i>>)
                      IN /\ t \in Server /\ Self(z, t) /\ Links(z, t)
                         /\ z.conn = cl.conn => t.down[z.conn] = z.down[z.conn] \o <<i>>
                         /\ \A d \in Conn : d # z.conn => t.down[d] = z.down[d]
                         /\ z.conn # cl.conn => t = z
    OBVIOUS
  <2>1. z.conn \in Conn BY <1>8, <1>10 DEF Links
  <2> QED BY <1>4, <1>6, <2>1, TransmitIs
<1>12. /\ y \in Server /\ Self(z, y) /\ Links(x, y)
       /\ \A d \in Conn : d # x.conn => y.down[d] = x.down[d]
       /\ x.conn # cl.conn => y.down = x.down
       /\ x.conn # None /\ x.conn = cl.conn => y.down[x.conn] = x.down[x.conn] \o <<i>>
  <2>1. CASE x.conn = None
    <3>1. y = z BY <1>9, <2>1
    <3>2. Self(z, y) BY <3>1 DEF Self
    <3> QED BY <1>6, <1>7, <1>8, <2>1, <3>1, <3>2
  <2>2. CASE x.conn # None
    <3>1. y = Transmit(z, z.conn, <<i>>) BY <1>9, <1>10, <2>2
    <3> QED BY <1>7, <1>8, <1>11, <2>2, <3>1 DEF Links
  <2> QED BY <2>1, <2>2
<1>13. Alive(y) BY <1>3, <1>7, <1>12 DEF Right, Alive, Self, Links
<1>14. Owns(y) BY <1>7, <1>12 DEF Right, Owns, Self, Links
<1>15. Books(y, g, out + 1, lost)
  <2>1. y.q = p /\ y.failed = {} BY <1>0, <1>7, <1>12 DEF Self
  <2> QED BY <1>2, <1>3, <2>1 DEF Books
<1>16. Wired(y)
  <2>1. Wired(x) /\ y.up = x.up /\ y.owner = x.owner /\ y.closed = x.closed BY <1>12 DEF Right, Net, Links
  <2>2. ASSUME NEW d \in Conn, y.owner[d] = "none", d \notin y.closed PROVE y.down[d] = <<>>
    <3>1. d # x.conn BY <2>1, <2>2 DEF Right, Owns
    <3> QED BY <1>12, <2>1, <2>2, <3>1 DEF Wired
  <2> QED BY <2>1, <2>2 DEF Wired
<1>17. cl.conn # None => Flows(y, cl.conn, g, out + 1)
  <2> SUFFICES ASSUME cl.conn # None PROVE Flows(y, cl.conn, g, out + 1) OBVIOUS
  <2>1. Flows(x, cl.conn, g, out) /\ cl.conn \in Conn BY <1>1 DEF Right, Net, g, out
  <2>2. PICK e \in g..out : Carries(x.down[cl.conn], g, e) /\ (x.conn = cl.conn => e = out) BY <2>1 DEF Flows
  <2>3. y.up = x.up /\ y.conn = x.conn BY <1>12 DEF Links
  <2>4. CASE x.conn = cl.conn
    <3>1. x.down[cl.conn] \in Seq(DownItem) BY <1>0, <2>1 DEF Server
    <3>2. Carries(x.down[cl.conn] \o <<i>>, g, out + 1) BY <1>1, <1>4, <2>2, <2>4, <3>1, CarriesNext
    <3>3. Carries(y.down[cl.conn], g, out + 1) BY <1>12, <2>4, <3>2
    <3>4. out + 1 \in g..(out + 1) BY <1>1
    <3>5. x.up[cl.conn] = <<>> \/ x.up[cl.conn][1].t # "resume" BY <2>4, ConnectedIs
    <3> QED BY <2>3, <3>3, <3>4, <3>5 DEF Flows
  <2>5. CASE x.conn # cl.conn
    <3>1. e \in g..(out + 1) BY <1>1
    <3>2. y.down = x.down BY <1>12, <2>5
    <3> QED BY <2>1, <2>2, <2>3, <2>5, <3>1, <3>2 DEF Flows
  <2> QED BY <2>4, <2>5
<1>18. Net(y, cl.conn, g, out + 1)
  <2>1. \A d \in Conn : Honest(y.up[d], g) BY <1>12 DEF Right, Net, g, Links
  <2> QED BY <1>16, <1>17, <2>1 DEF Net
<1>19. y.q = p BY <1>7, <1>12 DEF Self
<1> QED BY <1>12, <1>13, <1>14, <1>15, <1>18, <1>19 DEF RightFor, g, out

(* Routing a stanza keeps the invariant. *)
LEMMA RouteStanzaKeeps == ASSUME SmacksInv, RouteStanza PROVE SmacksInv'
<1> DEFINE lost == hist.lost \union (Range(srv.q.queue) \ Range(srv'.q.queue))
<1>0. Right(srv) /\ Around BY InvAround DEF SmacksInv
<1>1. RightFor(srv', cl.conn, Len(cl.got), hist.out + 1, lost) BY <1>0, RightRouted DEF RouteStanza
<1>2. hist' = [hist EXCEPT !.out = hist.out + 1, !.lost = lost] /\ UNCHANGED <<thread, inbox, chunk, paused, partial, cl>>
  BY DEF RouteStanza
<1>3. lost \subseteq Nat /\ hist.out + 1 \in Nat
  <2>1. hist.lost \subseteq Nat /\ hist.out \in Nat BY <1>0, AroundIs
  <2>2. srv.q.queue \in Seq(Nat) BY <1>0 DEF Right, Server, Queue
  <2>3. Range(srv.q.queue) \subseteq Nat BY <2>2 DEF Range
  <2> QED BY <2>1, <2>3
<1> HIDE DEF lost
<1>4. hist' \in History /\ hist'.out = hist.out + 1 /\ hist'.lost = lost BY <1>0, <1>2, <1>3 DEF Around, History
<1>5. Len(cl.got) \in Nat /\ hist.out \in Nat /\ Len(cl.got) <= hist.out BY <1>0, AroundIs
<1>6. Len(cl'.got) <= hist'.out /\ Len(cl.got) <= Len(cl'.got) BY <1>2, <1>4, <1>5
<1>7. RightFor(srv', cl'.conn, Len(cl'.got), hist'.out, hist'.lost) BY <1>1, <1>2, <1>4
<1>8. cl' = cl /\ cl' \in Client /\ (cl'.conn = None => cl'.phase \in {"off", "gone"}) BY <1>2 DEF SmacksInv, Types
<1>9. \A k \in 1..Len(cl'.got) : cl'.got[k] = k BY <1>8 DEF SmacksInv, Received
<1> QED BY <1>2, <1>4, <1>6, <1>7, <1>8, <1>9, KeptFor
-----------------------------------------------------------------------------
(* The client acts. *)

(* What the client sends arrives on its connection, or nowhere. *)
LEMMA RightDelivered ==
  ASSUME NEW x, NEW c \in {cl.conn, None}, cl.conn \in Conn, NEW g, NEW out, NEW lost,
         RightFor(x, c, g, out, lost), NEW r \in Seq(UpItem), Honest(r, g),
         \A k \in DOMAIN r : r[k].t # "resume"
  PROVE  RightFor(Deliver(x, r), c, g, out, lost)
<1> DEFINE b == cl.conn
           s == x.up[b]
           w == s \o r
           u == [x.up EXCEPT ![b] = w]
           y == [x EXCEPT !.up = u]
<1>0. x \in Server /\ b \in Conn /\ x.up \in [Conn -> Seq(UpItem)] /\ s \in Seq(UpItem) BY DEF RightFor, Server
<1>1. CASE x.owner[b] = "none" BY <1>1 DEF Deliver
<1>2. CASE x.owner[b] # "none"
  <2>1. Deliver(x, r) = y BY <1>2 DEF Deliver
  <2>2. w \in Seq(UpItem) BY <1>0
  <2>3. u \in [Conn -> Seq(UpItem)] /\ u[b] = w /\ \A d \in Conn : d # b => u[d] = x.up[d] BY <1>0, <2>2
  <2>4. \A k \in DOMAIN w : w[k].t = "resume" => k \in DOMAIN s /\ w[k] = s[k]
    <3> HIDE DEF s
    <3> QED BY <1>0, ConcatItems
  <2>5. Honest(w, g)
    <3>1. Honest(s, g) BY <1>0 DEF RightFor, Net
    <3> HIDE DEF s
    <3> QED BY <1>0, <3>1, HonestConcat
  <2>6. w # <<>> /\ w[1].t = "resume" => s # <<>> /\ w[1] = s[1]
    <3> SUFFICES ASSUME w # <<>>, w[1].t = "resume" PROVE s # <<>> /\ w[1] = s[1] OBVIOUS
    <3>1. 1 \in DOMAIN w BY <2>2
    <3>2. 1 \in DOMAIN s /\ w[1] = s[1] BY <2>4, <3>1
    <3> QED BY <3>2
  <2> HIDE DEF u, w, s, b
  <2>7. y \in Server BY <1>0, <2>3 DEF Server
  <2>8. /\ y.up = u /\ y.smacks = x.smacks /\ y.token = x.token /\ y.q = x.q /\ y.hibernating = x.hibernating
        /\ y.destroyed = x.destroyed /\ y.conn = x.conn /\ y.closing = x.closing /\ y.grace = x.grace
        /\ y.owner = x.owner /\ y.closed = x.closed /\ y.down = x.down /\ y.failed = x.failed
    BY <1>0 DEF Server
  <2> HIDE DEF y
  <2>9. Alive(y) BY <2>8 DEF RightFor, Alive
  <2>10. Owns(y) BY <2>8 DEF RightFor, Owns
  <2>11. Wired(y)
    <3>1. ASSUME NEW d \in Conn, NEW k \in DOMAIN y.up[d], y.up[d][k].t = "resume" PROVE k = 1 /\ y.owner[d] # "S"
      <4>1. CASE d = b
        <5>1. k \in DOMAIN x.up[d] /\ x.up[d][k].t = "resume" BY <2>3, <2>4, <2>8, <3>1, <4>1 DEF s
        <5> QED BY <2>8, <5>1 DEF RightFor, Net, Wired
      <4>2. CASE d # b
        <5>1. y.up[d] = x.up[d] BY <2>3, <2>8, <4>2
        <5> QED BY <2>8, <3>1, <5>1 DEF RightFor, Net, Wired
      <4> QED BY <4>1, <4>2
    <3>2. \A d \in Conn : y.owner[d] = "none" /\ d \notin y.closed => y.down[d] = <<>>
      BY <2>8 DEF RightFor, Net, Wired
    <3> QED BY <3>1, <3>2 DEF Wired
  <2>12. \A d \in Conn : Honest(y.up[d], g) BY <2>3, <2>5, <2>8 DEF RightFor, Net
  <2>13. c # None => Flows(y, c, g, out)
    <3> SUFFICES ASSUME c # None PROVE Flows(y, c, g, out) OBVIOUS
    <3>1. Flows(x, c, g, out) /\ c = b BY DEF RightFor, Net, b
    <3>2. y.up[c] # <<>> /\ y.up[c][1].t = "resume" => x.up[c] # <<>> /\ y.up[c][1] = x.up[c][1]
      BY <2>3, <2>6, <2>8, <3>1, <1>0 DEF s
    <3> QED BY <2>8, <3>1, <3>2 DEF Flows
  <2>14. Net(y, c, g, out) BY <2>11, <2>12, <2>13 DEF Net
  <2>15. Books(y, g, out, lost) BY <2>8 DEF RightFor, Books
  <2> QED BY <2>1, <2>7, <2>9, <2>10, <2>14, <2>15 DEF RightFor
<1> QED BY <1>1, <1>2

(* What the client puts on its connection. *)
LEMMA UpItemIs ==
  /\ \A n \in Int : Item("stanza", n) \in UpItem /\ Item("a", n) \in UpItem /\ Item("resume", n) \in UpItem
  /\ Item("r", 0) \in UpItem /\ Item("enable", 0) \in UpItem /\ Item("close", 0) \in UpItem
  /\ Item("half", 0) \in UpItem
  /\ \A t, n : Item(t, n).t = t /\ Item(t, n).n = n
BY DEF Item, UpItem

(* One item as a sequence. *)
LEMMA OneItem ==
  ASSUME NEW i \in UpItem, i.t # "resume", NEW g, i.t = "a" => i.n \in 0..g
  PROVE  <<i>> \in Seq(UpItem) /\ Honest(<<i>>, g) /\ \A k \in DOMAIN <<i>> : <<i>>[k].t # "resume"
<1>1. <<i>> \in Seq(UpItem) /\ \A k \in DOMAIN <<i>> : <<i>>[k] = i OBVIOUS
<1> QED BY <1>1 DEF Honest

(* An action by which the client sends one item and changes nothing the    *)
(* invariant asks about.                                                   *)
LEMMA ClientSendsKeeps ==
  ASSUME SmacksInv, NEW i \in UpItem, i.t # "resume", i.t = "a" => i.n \in 0..Len(cl.got),
         ClientSends(<<i>>), cl.conn \in Conn, cl' \in Client, cl'.conn = cl.conn, cl'.got = cl.got
  PROVE  SmacksInv'
<1>1. Right(srv) BY DEF SmacksInv
<1>2. /\ <<i>> \in Seq(UpItem) /\ Honest(<<i>>, Len(cl.got))
      /\ \A k \in DOMAIN <<i>> : <<i>>[k].t # "resume"
  BY OneItem
<1>3. RightFor(srv, cl.conn, Len(cl.got), hist.out, hist.lost) BY <1>1, RightIs
<1> DEFINE r == <<i>>
<1>4. srv' = Deliver(srv, r) BY DEF ClientSends
<1>5. r \in Seq(UpItem) /\ Honest(r, Len(cl.got)) /\ \A k \in DOMAIN r : r[k].t # "resume" BY <1>2
<1> HIDE DEF r
<1>6. RightFor(srv', cl.conn, Len(cl.got), hist.out, hist.lost) BY <1>3, <1>4, <1>5, RightDelivered
<1>7. Right(srv') BY <1>6, RightIs
<1>8. UNCHANGED <<thread, inbox, chunk, paused, partial, hist>> BY DEF ClientSends
<1>9. cl'.conn # None BY NoneIsNoConn
<1> QED BY <1>7, <1>8, <1>9, KeptBy DEF SmacksInv, Types

(* Where the client may send, and what may change in its state. *)
LEMMA ClientIs ==
  ASSUME SmacksInv
  PROVE  /\ cl \in Client /\ (cl.phase \notin {"off", "gone"} => cl.conn \in Conn)
         /\ \A n \in Nat : [cl EXCEPT !.asks = n] \in Client /\ [cl EXCEPT !.sent = n] \in Client
         /\ \A p \in {"enabling", "on", "gone"} : [cl EXCEPT !.phase = p] \in Client
         /\ \A n : /\ [cl EXCEPT !.asks = n].conn = cl.conn /\ [cl EXCEPT !.asks = n].got = cl.got
                   /\ [cl EXCEPT !.sent = n].conn = cl.conn /\ [cl EXCEPT !.sent = n].got = cl.got
                   /\ [cl EXCEPT !.phase = n].conn = cl.conn /\ [cl EXCEPT !.phase = n].got = cl.got
         /\ cl.asks + 1 \in Nat /\ cl.sent + 1 \in Nat
<1>1. cl \in Client BY DEF SmacksInv, Types
<1>2. cl.phase \notin {"off", "gone"} => cl.conn \in Conn BY <1>1 DEF SmacksInv, Types, Client
<1>3. \A n \in Nat : [cl EXCEPT !.asks = n] \in Client /\ [cl EXCEPT !.sent = n] \in Client BY <1>1 DEF Client
<1>4. \A p \in {"enabling", "on", "gone"} : [cl EXCEPT !.phase = p] \in Client BY <1>1 DEF Client
<1>5. \A n : /\ [cl EXCEPT !.asks = n].conn = cl.conn /\ [cl EXCEPT !.asks = n].got = cl.got
             /\ [cl EXCEPT !.sent = n].conn = cl.conn /\ [cl EXCEPT !.sent = n].got = cl.got
             /\ [cl EXCEPT !.phase = n].conn = cl.conn /\ [cl EXCEPT !.phase = n].got = cl.got
  BY <1>1 DEF Client
<1>6. cl.asks + 1 \in Nat /\ cl.sent + 1 \in Nat BY <1>1 DEF Client
<1> QED BY <1>1, <1>2, <1>3, <1>4, <1>5, <1>6

(* A stanza before stream management is on, *)
LEMMA ClientEarlyStanzaKeeps == ASSUME SmacksInv, ClientEarlyStanza PROVE SmacksInv'
<1>1. Item("stanza", 0) \in UpItem /\ Item("stanza", 0).t = "stanza" BY UpItemIs
<1>2. cl.conn \in Conn BY ClientIs DEF ClientEarlyStanza
<1>3. cl' = [cl EXCEPT !.asks = cl.asks + 1] /\ ClientSends(<<Item("stanza", 0)>>) BY DEF ClientEarlyStanza
<1>4. cl' \in Client /\ cl'.conn = cl.conn /\ cl'.got = cl.got BY <1>3, ClientIs
<1> QED BY <1>1, <1>2, <1>3, <1>4, ClientSendsKeeps

(* the request for it, *)
LEMMA ClientEnableKeeps == ASSUME SmacksInv, ClientEnable PROVE SmacksInv'
<1>1. Item("enable", 0) \in UpItem /\ Item("enable", 0).t = "enable" BY UpItemIs
<1>2. cl.conn \in Conn BY ClientIs DEF ClientEnable
<1>3. cl' = [cl EXCEPT !.phase = "enabling"] /\ ClientSends(<<Item("enable", 0)>>) BY DEF ClientEnable
<1>4. cl' \in Client /\ cl'.conn = cl.conn /\ cl'.got = cl.got BY <1>3, ClientIs
<1> QED BY <1>1, <1>2, <1>3, <1>4, ClientSendsKeeps

(* a stanza that is counted, *)
LEMMA ClientStanzaKeeps == ASSUME SmacksInv, ClientStanza PROVE SmacksInv'
<1>0. cl.sent + 1 \in Int BY ClientIs
<1>1. Item("stanza", cl.sent + 1) \in UpItem /\ Item("stanza", cl.sent + 1).t = "stanza" BY <1>0, UpItemIs
<1>2. cl.conn \in Conn BY ClientIs DEF ClientStanza
<1>3. cl' = [cl EXCEPT !.sent = cl.sent + 1] /\ ClientSends(<<Item("stanza", cl.sent + 1)>>) BY DEF ClientStanza
<1>4. cl' \in Client /\ cl'.conn = cl.conn /\ cl'.got = cl.got BY <1>3, ClientIs
<1> QED BY <1>1, <1>2, <1>3, <1>4, ClientSendsKeeps

(* an acknowledgement or a request for one, which counts what the client   *)
(* has,                                                                    *)
LEMMA ClientAckItemKeeps == ASSUME SmacksInv, NEW t \in {"a", "r"}, ClientAckItem(t) PROVE SmacksInv'
<1> DEFINE i == Item(t, IF t = "a" THEN Len(cl.got) ELSE 0)
<1>0. Len(cl.got) \in Nat BY InvAround, AroundIs
<1>1. i \in UpItem /\ i.t = t /\ (i.t = "a" => i.n \in 0..Len(cl.got))
  <2>1. CASE t = "a" BY <1>0, <2>1, UpItemIs
  <2>2. CASE t = "r" BY <2>2, UpItemIs
  <2> QED BY <2>1, <2>2
<1>2. cl.conn \in Conn BY ClientIs DEF ClientAckItem
<1>3. cl' = [cl EXCEPT !.asks = cl.asks + 1] /\ ClientSends(<<i>>) BY DEF ClientAckItem
<1>4. cl' \in Client /\ cl'.conn = cl.conn /\ cl'.got = cl.got BY <1>3, ClientIs
<1>5. i.t # "resume" BY <1>1
<1> HIDE DEF i
<1> QED BY <1>1, <1>2, <1>3, <1>4, <1>5, ClientSendsKeeps

(* and the end of the stream keep the invariant. *)
LEMMA ClientCloseKeeps == ASSUME SmacksInv, ClientClose PROVE SmacksInv'
<1>1. Item("close", 0) \in UpItem /\ Item("close", 0).t = "close" BY UpItemIs
<1>2. cl.conn \in Conn BY ClientIs DEF ClientClose
<1>3. cl' = [cl EXCEPT !.phase = "gone"] /\ ClientSends(<<Item("close", 0)>>) BY DEF ClientClose
<1>4. cl' \in Client /\ cl'.conn = cl.conn /\ cl'.got = cl.got BY <1>3, ClientIs
<1> QED BY <1>1, <1>2, <1>3, <1>4, ClientSendsKeeps

(* Binding anew may close the old session, and keeps the invariant. *)
LEMMA ClientRebindsKeeps == ASSUME SmacksInv, ClientRebinds PROVE SmacksInv'
<1>1. Right(srv) /\ Around BY InvAround DEF SmacksInv
<1>2. srv' = srv \/ srv' = session_close(srv, "error") BY DEF ClientRebinds
<1>3. Right(srv') BY <1>1, <1>2, RightSessionClose
<1>4. cl' = [cl EXCEPT !.phase = "gone"] /\ UNCHANGED <<thread, inbox, chunk, paused, partial, hist>> BY DEF ClientRebinds
<1>5. cl' \in Client /\ cl'.conn = cl.conn /\ cl'.got = cl.got BY <1>4, ClientIs
<1>6. cl'.phase = "gone" BY <1>4, ClientIs DEF Client
<1> QED BY <1>3, <1>4, <1>5, <1>6, KeptBy DEF SmacksInv, Types

(* The connection is no longer the client's. *)
LEMMA RightLeft ==
  ASSUME NEW x, NEW c, NEW g, NEW out, NEW lost, RightFor(x, c, g, out, lost)
  PROVE  RightFor(x, None, g, out, lost)
BY DEF RightFor, Net

(* The client takes the next item off its connection: a stanza is the next *)
(* one, and whatever it is, what follows continues it.                     *)
LEMMA RightRead ==
  ASSUME Around, NEW x, Right(x), cl.conn \in Conn, x.down[cl.conn] # <<>>
  PROVE  LET i == Head(x.down[cl.conn])
             g == Len(cl.got)
         IN /\ i \in DownItem
            /\ i.t = "stanza" => i.n = g + 1 /\ g + 1 <= hist.out
            /\ RightFor([x EXCEPT !.down[cl.conn] = Tail(@)], cl.conn, IF i.t = "stanza" THEN g + 1 ELSE g,
                        hist.out, hist.lost)
<1> DEFINE b == cl.conn
           g == Len(cl.got)
           out == hist.out
           s == x.down[b]
           i == Head(s)
           r == Tail(s)
           h == IF i.t = "stanza" THEN g + 1 ELSE g
           u == [x.down EXCEPT ![b] = r]
           y == [x EXCEPT !.down = u]
<1>0. x \in Server /\ b \in Conn /\ x.down \in [Conn -> Seq(DownItem)] /\ s \in Seq(DownItem) BY DEF Right, Server
<1>1. g \in Nat /\ out \in Nat /\ g <= out BY AroundIs
<1>2. Flows(x, b, g, out) BY <1>0, NoneIsNoConn DEF Right, Net
<1>3. s # <<>> OBVIOUS
<1>4. i \in DownItem /\ r \in Seq(DownItem)
  <2> HIDE DEF s
  <2> QED BY <1>0, <1>3, TailItems
<1>5. PICK e \in g..out : Carries(s, g, e) /\ (x.conn = b => e = out) BY <1>2 DEF Flows
<1>6. /\ i.t = "stanza" => i.n = g + 1 /\ g + 1 <= out
      /\ e \in h..out /\ Carries(r, h, e) /\ h \in Nat /\ g <= h
  <2>0. e \in Nat BY <1>1
  <2> HIDE DEF s
  <2>1. CASE i.t = "stanza"
    <3>1. i.n = g + 1 /\ g + 1 <= e /\ Carries(r, g + 1, e) BY <1>0, <1>1, <1>3, <1>5, <2>0, <2>1, CarriesTaken
    <3>2. g + 1 <= out /\ e \in (g + 1)..out BY <1>1, <3>1
    <3> QED BY <1>1, <2>1, <3>1, <3>2
  <2>2. CASE i.t # "stanza"
    <3>1. Carries(r, g, e) BY <1>0, <1>1, <1>3, <1>5, <2>0, <2>2, CarriesTail
    <3> QED BY <1>1, <2>2, <3>1
  <2> QED BY <2>1, <2>2
<1>7. x.up[b] = <<>> \/ x.up[b][1].t # "resume" BY <1>2, <1>3 DEF Flows
<1>8. [x EXCEPT !.down[cl.conn] = Tail(@)] = y OBVIOUS
<1>9. u \in [Conn -> Seq(DownItem)] /\ u[b] = r /\ \A d \in Conn : d # b => u[d] = x.down[d] BY <1>0, <1>4
<1>10. x.owner[b] # "none" \/ b \in x.closed BY <1>0, <1>3 DEF Right, Net, Wired
<1> HIDE DEF u, h, r, s, i, g, out, b
<1>11. y \in Server BY <1>0, <1>9 DEF Server
<1>12. /\ y.down = u /\ y.smacks = x.smacks /\ y.token = x.token /\ y.q = x.q /\ y.hibernating = x.hibernating
       /\ y.destroyed = x.destroyed /\ y.conn = x.conn /\ y.closing = x.closing /\ y.grace = x.grace
       /\ y.owner = x.owner /\ y.closed = x.closed /\ y.up = x.up /\ y.failed = x.failed
  BY <1>0 DEF Server
<1> HIDE DEF y
<1>13. Alive(y) BY <1>12 DEF Right, Alive
<1>14. Owns(y) BY <1>12 DEF Right, Owns
<1>15. Wired(y)
  <2>1. \A d \in Conn : \A k \in DOMAIN y.up[d] : y.up[d][k].t = "resume" => k = 1 /\ y.owner[d] # "S"
    BY <1>12 DEF Right, Net, Wired
  <2>2. ASSUME NEW d \in Conn, y.owner[d] = "none", d \notin y.closed PROVE y.down[d] = <<>>
    <3>1. d # b BY <1>10, <1>12, <2>2
    <3> QED BY <1>9, <1>12, <2>2, <3>1 DEF Right, Net, Wired
  <2> QED BY <2>1, <2>2 DEF Wired
<1>16. \A d \in Conn : Honest(y.up[d], h)
  <2>1. \A d \in Conn : Honest(y.up[d], g) BY <1>12 DEF Right, Net, g
  <2> QED BY <1>1, <1>6, <2>1, HonestMore
<1>17. Flows(y, b, h, out) BY <1>5, <1>6, <1>7, <1>9, <1>12 DEF Flows
<1>18. Net(y, b, h, out) BY <1>15, <1>16, <1>17 DEF Net
<1>19. Books(y, h, out, hist.lost)
  <2>1. Booked(y.q, y.failed, out, hist.lost) /\ y.q.tail <= g BY <1>12 DEF Right, Books, g, out
  <2>2. y.q.tail \in Nat BY <1>11 DEF Server, Queue
  <2> QED BY <1>1, <1>6, <2>1, <2>2 DEF Books
<1>20. RightFor(y, b, h, out, hist.lost) BY <1>11, <1>13, <1>14, <1>18, <1>19 DEF RightFor
<1> QED BY <1>4, <1>6, <1>8, <1>20 DEF b, g, out, s, i, h

(* The stanzas repeated after a resumption. *)
LEMMA RepeatedIs ==
  ASSUME NEW m \in Int, NEW n \in Int, NEW g
  PROVE  LET r == [k \in 1..m |-> Item("stanza", n + k)]
         IN r \in Seq(UpItem) /\ Honest(r, g) /\ \A k \in DOMAIN r : r[k].t # "resume"
<1> DEFINE r == [k \in 1..m |-> Item("stanza", n + k)]
<1>1. \A k \in 1..m : Item("stanza", n + k) \in UpItem /\ Item("stanza", n + k).t = "stanza"
  <2>1. \A k \in 1..m : n + k \in Int OBVIOUS
  <2> QED BY <2>1, UpItemIs
<1>2. r \in Seq(UpItem)
  <2>1. PICK l \in Nat : 1..m = 1..l
    <3>1. CASE m \in Nat BY <3>1
    <3>2. CASE m \notin Nat
      <4>1. 1..m = 1..0 BY <3>2
      <4> QED BY <4>1
    <3> QED BY <3>1, <3>2
  <2>2. r \in [1..l -> UpItem] BY <1>1, <2>1
  <2> QED BY <2>2
<1>3. \A k \in DOMAIN r : r[k].t = "stanza" BY <1>1
<1> HIDE DEF r
<1>4. Honest(r, g) BY <1>3 DEF Honest
<1>5. \A k \in DOMAIN r : r[k].t # "resume" BY <1>3
<1> QED BY <1>2, <1>4, <1>5 DEF r

(* What the client answers. *)
LEMMA ReplyIs ==
  ASSUME SmacksInv, NEW i \in DownItem
  PROVE  LET r == CASE i.t = "r" /\ cl.phase # "gone" -> <<Item("a", Len(cl.got))>>
                    [] i.t = "resumed" -> [k \in 1..(cl.sent - i.n) |-> Item("stanza", i.n + k)]
                    [] OTHER -> <<>>
         IN r \in Seq(UpItem) /\ Honest(r, Len(cl.got)) /\ \A k \in DOMAIN r : r[k].t # "resume"
<1>0. Len(cl.got) \in Nat /\ cl.sent \in Nat /\ i.n \in Int /\ cl.sent - i.n \in Int
  <2>1. Len(cl.got) \in Nat BY InvAround, AroundIs
  <2>2. cl.sent \in Nat BY DEF SmacksInv, Types, Client
  <2>3. i.n \in Int BY DEF DownItem
  <2> QED BY <2>1, <2>2, <2>3
<1>1. CASE i.t = "r" /\ cl.phase # "gone"
  <2> DEFINE j == Item("a", Len(cl.got))
  <2>1. j \in UpItem /\ j.t # "resume" /\ j.n \in 0..Len(cl.got) BY <1>0, UpItemIs
  <2> HIDE DEF j
  <2>2. <<j>> \in Seq(UpItem) /\ Honest(<<j>>, Len(cl.got)) /\ \A k \in DOMAIN <<j>> : <<j>>[k].t # "resume"
    BY <2>1, OneItem
  <2> QED BY <1>1, <2>2 DEF j
<1>2. CASE i.t = "resumed"
  <2> DEFINE r == [k \in 1..(cl.sent - i.n) |-> Item("stanza", i.n + k)]
  <2>1. r \in Seq(UpItem) /\ Honest(r, Len(cl.got)) /\ \A k \in DOMAIN r : r[k].t # "resume"
    BY <1>0, RepeatedIs
  <2> HIDE DEF r
  <2> QED BY <1>2, <2>1 DEF r
<1>3. CASE ~(i.t = "r" /\ cl.phase # "gone") /\ i.t # "resumed"
  <2>1. <<>> \in Seq(UpItem) /\ Honest(<<>>, Len(cl.got)) BY DEF Honest
  <2> QED BY <1>3, <2>1
<1> QED BY <1>1, <1>2, <1>3

(* The client without its connection. *)
LEMMA OffIs ==
  ASSUME NEW x \in Client
  PROVE  /\ Off(x) \in Client /\ Off(x).conn = None /\ Off(x).got = x.got
         /\ Off(x).phase \in {"off", "gone"}
<1>1. \A p \in {"off", "gone"} : LET y == [x EXCEPT !.conn = None, !.phase = p]
                                 IN y \in Client /\ y.conn = None /\ y.got = x.got /\ y.phase = p
  BY DEF Client
<1>2. PICK p \in {"off", "gone"} : Off(x) = [x EXCEPT !.conn = None, !.phase = p]
  <2>1. Off(x) = [x EXCEPT !.conn = None, !.phase = IF x.phase \in {"on", "resuming"} THEN "off" ELSE "gone"] BY DEF Off
  <2> QED BY <2>1
<1> QED BY <1>1, <1>2

(* Reading an item keeps the invariant: what the client has grows by the   *)
(* next stanza or not at all.                                              *)
LEMMA ClientReadKeeps == ASSUME SmacksInv, ClientRead PROVE SmacksInv'
<1> DEFINE c == cl.conn
           g == Len(cl.got)
           i == Head(srv.down[c])
           h == IF i.t = "stanza" THEN g + 1 ELSE g
           r == CASE i.t = "r" /\ cl.phase # "gone" -> <<Item("a", Len(cl.got))>>
                  [] i.t = "resumed" -> [k \in 1..(cl.sent - i.n) |-> Item("stanza", i.n + k)]
                  [] OTHER -> <<>>
           x == [srv EXCEPT !.down[c] = Tail(@)]
<1>0. Right(srv) /\ Around BY InvAround DEF SmacksInv
<1>1. /\ c # None /\ srv.down[c] # <<>> /\ srv' = Deliver(x, r)
      /\ cl' = CASE i.t = "stanza" -> [cl EXCEPT !.got = Append(@, i.n)]
                 [] i.t = "r" -> cl
                 [] i.t = "a" -> [cl EXCEPT !.acked = i.n]
                 [] i.t = "enabled" -> [cl EXCEPT !.phase = "on"]
                 [] i.t = "resumed" -> [cl EXCEPT !.phase = "on", !.acked = i.n]
                 [] i.t = "failed" -> [cl EXCEPT !.phase = "fresh",
                                                 !.acked = IF i.n = NoH THEN @ ELSE i.n]
                 [] i.t = "end" -> Off(cl)
      /\ UNCHANGED <<thread, inbox, chunk, paused, partial, hist>>
  BY DEF ClientRead
<1>2. g \in Nat /\ hist.out \in Nat /\ g <= hist.out /\ cl.got \in Seq(Nat)
  <2>1. Around BY <1>0, Zenon
  <2> QED BY ONLY <2>1, AroundIs
<1>3. c \in Conn
  <2>1. Around /\ c # None BY <1>0, <1>1, Zenon
  <2> HIDE DEF c
  <2>2. c \in Conn \union {None} BY ONLY <2>1, AroundIs DEF c
  <2> QED BY ONLY <2>1, <2>2
<1>4. /\ i \in DownItem /\ (i.t = "stanza" => i.n = g + 1 /\ g + 1 <= hist.out)
      /\ RightFor(x, c, h, hist.out, hist.lost)
  BY <1>0, <1>1, <1>3, RightRead, ZenonT(60)
<1>5. r \in Seq(UpItem) /\ Honest(r, g) /\ \A k \in DOMAIN r : r[k].t # "resume" BY <1>4, ReplyIs
<1>6. i.t \in {"stanza", "a", "r", "enabled", "resumed", "failed", "end"} /\ i.n \in Int BY <1>4 DEF DownItem
<1>7. h \in Nat /\ g <= h /\ h <= hist.out BY <1>2, <1>4
<1> HIDE DEF h, r, x, i
<1>8. RightFor(srv', c, h, hist.out, hist.lost)
  <2>1. Honest(r, h) BY <1>2, <1>5, <1>7, HonestMore
  <2> QED BY <1>1, <1>3, <1>4, <1>5, <2>1, RightDelivered
<1>9. RightFor(srv', None, h, hist.out, hist.lost) BY <1>8, RightLeft
<1>10. cl \in Client /\ hist' = hist /\ hist \in History BY <1>0, <1>1 DEF Around
<1>11. \A k \in 1..g : cl.got[k] = k BY <1>0, SMTT(60) DEF Around, Received
<1>12. CASE i.t = "stanza"
  <2> DEFINE a == Append(cl.got, i.n)
  <2>1. a \in Seq(Nat) /\ Len(a) = g + 1 /\ a[g + 1] = i.n /\ \A k \in 1..g : a[k] = cl.got[k]
    <3>1. i.n \in Nat BY <1>2, <1>4, <1>12
    <3> QED BY <1>2, <3>1, AppendIs
  <2>2. cl' = [cl EXCEPT !.got = a] BY <1>1, <1>12
  <2> HIDE DEF a
  <2>3. cl' \in Client /\ cl'.conn = c /\ cl'.got = a BY <1>10, <2>1, <2>2 DEF Client
  <2>4. \A k \in 1..(g + 1) : a[k] = k
    <3> SUFFICES ASSUME NEW k \in 1..(g + 1) PROVE a[k] = k OBVIOUS
    <3>1. CASE k = g + 1 BY <1>4, <1>12, <2>1, <3>1
    <3>2. CASE k # g + 1
      <4>1. k \in 1..g BY <1>2, <3>2
      <4> QED BY <1>11, <2>1, <4>1
    <3> QED BY <3>1, <3>2
  <2>5. h = g + 1 BY <1>12 DEF h
  <2>6. RightFor(srv', cl'.conn, Len(cl'.got), hist'.out, hist'.lost) BY <1>8, <1>10, <2>1, <2>3, <2>5
  <2>7. Len(cl'.got) <= hist'.out /\ Len(cl.got) <= Len(cl'.got) BY <1>2, <1>4, <1>10, <1>12, <2>1, <2>3
  <2>8. \A k \in 1..Len(cl'.got) : cl'.got[k] = k BY <2>1, <2>3, <2>4
  <2>9. cl'.conn # None BY <1>1, <2>3
  <2> QED BY <1>1, <1>10, <2>3, <2>6, <2>7, <2>8, <2>9, KeptFor
<1>13. CASE i.t # "stanza"
  <2>1. h = g BY <1>13 DEF h
  <2>2. /\ cl' \in Client /\ cl'.got = cl.got /\ cl'.conn \in {c, None}
        /\ cl'.conn = None => cl'.phase \in {"off", "gone"}
    <3>1. CASE i.t = "r" BY <1>1, <1>10, <3>1
    <3>2. CASE i.t = "a"
      <4>1. cl' = [cl EXCEPT !.acked = i.n] BY <1>1, <3>2
      <4> QED BY <1>1, <1>6, <1>10, <4>1 DEF Client
    <3>3. CASE i.t = "enabled"
      <4>1. cl' = [cl EXCEPT !.phase = "on"] BY <1>1, <3>3
      <4> QED BY <1>1, <1>10, <4>1 DEF Client
    <3>4. CASE i.t = "resumed"
      <4>1. cl' = [cl EXCEPT !.phase = "on", !.acked = i.n] BY <1>1, <3>4
      <4> QED BY <1>1, <1>6, <1>10, <4>1 DEF Client
    <3>5. CASE i.t = "failed"
      <4> DEFINE a == IF i.n = NoH THEN cl.acked ELSE i.n
      <4>1. cl' = [cl EXCEPT !.phase = "fresh", !.acked = a] BY <1>1, <3>5
      <4>2. a \in Int BY <1>6, <1>10 DEF Client
      <4> HIDE DEF a
      <4> QED BY <1>1, <1>10, <4>1, <4>2 DEF Client
    <3>6. CASE i.t = "end"
      <4>1. cl' = Off(cl) BY <1>1, <3>6
      <4> QED BY <1>10, <4>1, OffIs
    <3> QED BY <1>6, <1>13, <3>1, <3>2, <3>3, <3>4, <3>5, <3>6
  <2>3. RightFor(srv', cl'.conn, Len(cl'.got), hist'.out, hist'.lost) BY <1>8, <1>9, <1>10, <2>1, <2>2
  <2>4. Len(cl'.got) <= hist'.out /\ Len(cl.got) <= Len(cl'.got) BY <1>2, <1>10, <2>2
  <2>5. \A k \in 1..Len(cl'.got) : cl'.got[k] = k BY <1>11, <2>2
  <2> QED BY <1>1, <1>10, <2>2, <2>3, <2>4, <2>5, KeptFor
<1> QED BY <1>12, <1>13, SMTT(60)

(* What was on its way to the client is gone with the connection. *)
LEMMA RightLost ==
  ASSUME Around, NEW x, Right(x), cl.conn \in Conn
  PROVE  RightFor([x EXCEPT !.down[cl.conn] = <<>>], None, Len(cl.got), hist.out, hist.lost)
<1> DEFINE u == [x.down EXCEPT ![cl.conn] = <<>>]
           y == [x EXCEPT !.down = u]
<1>0. x \in Server /\ x.down \in [Conn -> Seq(DownItem)] BY DEF Right, Server
<1>1. u \in [Conn -> Seq(DownItem)] /\ \A d \in Conn : u[d] = <<>> \/ u[d] = x.down[d]
  <2>1. <<>> \in Seq(DownItem) OBVIOUS
  <2> QED BY <1>0, <2>1
<1>2. [x EXCEPT !.down[cl.conn] = <<>>] = y OBVIOUS
<1> HIDE DEF u
<1>3. y \in Server BY <1>0, <1>1 DEF Server
<1>4. /\ y.down = u /\ y.smacks = x.smacks /\ y.token = x.token /\ y.q = x.q /\ y.hibernating = x.hibernating
      /\ y.destroyed = x.destroyed /\ y.conn = x.conn /\ y.closing = x.closing /\ y.grace = x.grace
      /\ y.owner = x.owner /\ y.closed = x.closed /\ y.up = x.up /\ y.failed = x.failed
  BY <1>0 DEF Server
<1> HIDE DEF y
<1>5. Alive(y) BY <1>4 DEF Right, Alive
<1>6. Owns(y) BY <1>4 DEF Right, Owns
<1>7. Wired(y) BY <1>1, <1>4 DEF Right, Net, Wired
<1>8. Net(y, None, Len(cl.got), hist.out) BY <1>4, <1>7 DEF Right, Net
<1>9. Books(y, Len(cl.got), hist.out, hist.lost) BY <1>4 DEF Right, Books
<1> QED BY <1>2, <1>3, <1>5, <1>6, <1>8, <1>9 DEF RightFor

(* Losing the connection keeps the invariant. *)
LEMMA ClientLosesKeeps == ASSUME SmacksInv, ClientLoses PROVE SmacksInv'
<1> DEFINE x == [srv EXCEPT !.down[cl.conn] = <<>>]
           i == Item("half", 0)
<1>0. Right(srv) /\ Around BY InvAround DEF SmacksInv
<1>1. cl.conn \in Conn BY <1>0, AroundIs DEF ClientLoses
<1>2. RightFor(x, None, Len(cl.got), hist.out, hist.lost) BY <1>0, <1>1, RightLost
<1>3. PICK r \in {<<i>>, <<>>} : srv' = Deliver(x, r) BY DEF ClientLoses
<1>4. i \in UpItem /\ i.t = "half" BY UpItemIs
<1> HIDE DEF x, i
<1>5. <<i>> \in Seq(UpItem) /\ Honest(<<i>>, Len(cl.got)) /\ \A k \in DOMAIN <<i>> : <<i>>[k].t # "resume"
  BY <1>4, OneItem
<1>6. <<>> \in Seq(UpItem) /\ Honest(<<>>, Len(cl.got)) /\ \A k \in DOMAIN <<>> : <<>>[k].t # "resume" BY DEF Honest
<1>7. r \in Seq(UpItem) /\ Honest(r, Len(cl.got)) /\ \A k \in DOMAIN r : r[k].t # "resume" BY <1>5, <1>6
<1>8. RightFor(srv', None, Len(cl.got), hist.out, hist.lost) BY <1>1, <1>2, <1>3, <1>7, RightDelivered
<1>9. cl' = Off(cl) /\ UNCHANGED <<thread, inbox, chunk, paused, partial, hist>> BY DEF ClientLoses
<1>10. cl' \in Client /\ cl'.conn = None /\ cl'.got = cl.got /\ cl'.phase \in {"off", "gone"}
  BY <1>0, <1>9, OffIs DEF Around
<1>11. RightFor(srv', cl'.conn, Len(cl'.got), hist'.out, hist'.lost) BY <1>8, <1>9, <1>10
<1>12. hist' \in History /\ Len(cl'.got) <= hist'.out /\ Len(cl.got) <= Len(cl'.got)
  <2>1. Len(cl.got) \in Nat /\ Len(cl.got) <= hist.out BY <1>0, AroundIs
  <2> QED BY <1>0, <1>9, <1>10, <2>1 DEF Around
<1>13. \A k \in 1..Len(cl'.got) : cl'.got[k] = k BY <1>10 DEF SmacksInv, Received
<1> QED BY <1>9, <1>10, <1>11, <1>12, <1>13, KeptFor

(* A connection nobody has used, on which the client asks to resume. *)
LEMMA RightAsked ==
  ASSUME Around, NEW x, Right(x), NEW c \in Conn, x.owner[c] = "none", c \notin x.closed
  PROVE  RightFor([x EXCEPT !.owner[c] = "N", !.up[c] = <<Item("resume", Len(cl.got))>>],
                  c, Len(cl.got), hist.out, hist.lost)
<1> DEFINE g == Len(cl.got)
           i == Item("resume", g)
           o == [x.owner EXCEPT ![c] = "N"]
           u == [x.up EXCEPT ![c] = <<i>>]
           y == [x EXCEPT !.owner = o, !.up = u]
<1>0. x \in Server /\ x.up \in [Conn -> Seq(UpItem)] /\ x.owner \in [Conn -> {"none", "S", "N"}] BY DEF Right, Server
<1>1. g \in Nat /\ hist.out \in Nat /\ g <= hist.out BY AroundIs
<1>2. i \in UpItem /\ i.t = "resume" /\ i.n = g BY <1>1, UpItemIs
<1>3. [x EXCEPT !.owner[c] = "N", !.up[c] = <<Item("resume", Len(cl.got))>>] = y OBVIOUS
<1> HIDE DEF i
<1>4. u \in [Conn -> Seq(UpItem)] /\ u[c] = <<i>> /\ \A d \in Conn : d # c => u[d] = x.up[d]
  <2>1. <<i>> \in Seq(UpItem) BY <1>2
  <2> QED BY <1>0, <2>1
<1>5. o \in [Conn -> {"none", "S", "N"}] /\ o[c] = "N" /\ \A d \in Conn : d # c => o[d] = x.owner[d] BY <1>0
<1> HIDE DEF o, u, g
<1>6. y \in Server BY <1>0, <1>4, <1>5 DEF Server
<1>7. /\ y.up = u /\ y.owner = o /\ y.smacks = x.smacks /\ y.token = x.token /\ y.q = x.q
      /\ y.hibernating = x.hibernating /\ y.destroyed = x.destroyed /\ y.conn = x.conn /\ y.closing = x.closing
      /\ y.grace = x.grace /\ y.closed = x.closed /\ y.down = x.down /\ y.failed = x.failed
  BY <1>0 DEF Server
<1> HIDE DEF y
<1>8. Alive(y) BY <1>7 DEF Right, Alive
<1>9. x.conn # c
  <2>1. x.conn = c => x.owner[c] = "S" BY NoneIsNoConn DEF Right, Alive, Owns
  <2> QED BY <2>1
<1>10. Owns(y) BY <1>5, <1>7, <1>9 DEF Right, Owns
<1>11. x.down[c] = <<>> BY DEF Right, Net, Wired
<1>12. Wired(y)
  <2>1. ASSUME NEW d \in Conn, NEW k \in DOMAIN y.up[d], y.up[d][k].t = "resume" PROVE k = 1 /\ y.owner[d] # "S"
    <3>1. CASE d = c
      <4>1. DOMAIN y.up[d] = {1} BY <1>4, <1>7, <3>1
      <4> QED BY <1>5, <1>7, <2>1, <3>1, <4>1
    <3>2. CASE d # c
      <4>1. y.up[d] = x.up[d] /\ y.owner[d] = x.owner[d] BY <1>4, <1>5, <1>7, <3>2
      <4> QED BY <2>1, <4>1 DEF Right, Net, Wired
    <3> QED BY <3>1, <3>2
  <2>2. ASSUME NEW d \in Conn, y.owner[d] = "none", d \notin y.closed PROVE y.down[d] = <<>>
    <3>1. d # c BY <1>5, <1>7, <2>2
    <3> QED BY <1>5, <1>7, <2>2, <3>1 DEF Right, Net, Wired
  <2> QED BY <2>1, <2>2 DEF Wired
<1>13. \A d \in Conn : Honest(y.up[d], g)
  <2>1. Honest(<<i>>, g)
    <3>1. \A k \in DOMAIN <<i>> : <<i>>[k] = i OBVIOUS
    <3>2. i.n \in 0..g BY <1>1, <1>2
    <3> QED BY <3>1, <3>2 DEF Honest
  <2>2. \A d \in Conn : Honest(x.up[d], g) BY DEF Right, Net, g
  <2> QED BY <1>4, <1>7, <2>1, <2>2
<1>14. Flows(y, c, g, hist.out)
  <2>1. Carries(y.down[c], g, g) BY <1>1, <1>7, <1>11, CarriesNone
  <2>2. g \in g..hist.out /\ y.conn # c BY <1>1, <1>7, <1>9
  <2>3. y.up[c][1] = i BY <1>4, <1>7
  <2> QED BY <1>2, <1>7, <1>11, <2>1, <2>2, <2>3 DEF Flows
<1>15. Net(y, c, g, hist.out) BY <1>12, <1>13, <1>14 DEF Net
<1>16. Books(y, g, hist.out, hist.lost) BY <1>7 DEF Right, Books, g
<1>17. RightFor(y, c, g, hist.out, hist.lost) BY <1>6, <1>8, <1>10, <1>15, <1>16 DEF RightFor
<1> QED BY <1>3, <1>17 DEF g

(* Asking to resume keeps the invariant. *)
LEMMA ClientResumesKeeps == ASSUME SmacksInv, ClientResumes PROVE SmacksInv'
<1>0. Right(srv) /\ Around BY InvAround DEF SmacksInv
<1>1. PICK c \in Conn :
        /\ ~Used(c)
        /\ srv' = [srv EXCEPT !.owner[c] = "N", !.up[c] = <<Item("resume", Len(cl.got))>>]
        /\ cl' = [cl EXCEPT !.conn = c, !.phase = "resuming"]
  BY DEF ClientResumes
<1>2. RightFor(srv', c, Len(cl.got), hist.out, hist.lost) BY <1>0, <1>1, RightAsked DEF Used
<1>3. UNCHANGED <<thread, inbox, chunk, paused, partial, hist>> BY DEF ClientResumes
<1>4. cl' \in Client /\ cl'.conn = c /\ cl'.got = cl.got BY <1>0, <1>1 DEF Around, Client
<1>5. RightFor(srv', cl'.conn, Len(cl'.got), hist'.out, hist'.lost) BY <1>2, <1>3, <1>4
<1>6. hist' \in History /\ Len(cl'.got) <= hist'.out /\ Len(cl.got) <= Len(cl'.got)
  <2>1. Len(cl.got) \in Nat /\ Len(cl.got) <= hist.out BY <1>0, AroundIs
  <2> QED BY <1>0, <1>3, <1>4, <2>1 DEF Around
<1>7. \A k \in 1..Len(cl'.got) : cl'.got[k] = k BY <1>4 DEF SmacksInv, Received
<1>8. cl'.conn # None BY <1>4, NoneIsNoConn
<1> QED BY <1>3, <1>4, <1>5, <1>6, <1>7, <1>8, KeptFor
-----------------------------------------------------------------------------
(* The invariant holds, and says what was promised. *)

(* The initial state satisfies the invariant. *)
LEMMA SmacksInitInv == SmacksInit => SmacksInv
<1> SUFFICES ASSUME SmacksInit PROVE SmacksInv OBVIOUS
<1>0. 1 \in Conn /\ None \notin Conn BY SmacksAssumption DEF Conn, None
<1>1. /\ cl = [phase |-> "bound", conn |-> 1, got |-> <<>>, sent |-> 0, acked |-> 0, asks |-> 0]
      /\ hist = [out |-> 0, lost |-> {}, done |-> <<>>, rejected |-> FALSE, stopped |-> FALSE]
  BY DEF SmacksInit
<1>2. <<>> \in Seq(Nat) OBVIOUS
<1>3. cl \in Client /\ cl.conn = 1 /\ cl.got = <<>> BY <1>0, <1>1, <1>2 DEF Client
<1>4. hist \in History /\ hist.out = 0 /\ hist.lost = {} BY <1>1, <1>2 DEF History
<1>5. NewQueue \in Queue /\ NewQueue.head = 0 /\ NewQueue.tail = 0 /\ NewQueue.queue = <<>> BY <1>2 DEF NewQueue, Queue
<1> DEFINE o == [c \in Conn |-> IF c = 1 THEN "S" ELSE "none"]
           u == [c \in Conn |-> <<>>]
<1>6. o \in [Conn -> {"none", "S", "N"}] /\ \A c \in Conn : o[c] = "S" <=> c = 1 OBVIOUS
<1>7. u \in [Conn -> Seq(UpItem)] /\ u \in [Conn -> Seq(DownItem)] /\ \A c \in Conn : u[c] = <<>>
  <2>1. <<>> \in Seq(UpItem) /\ <<>> \in Seq(DownItem) OBVIOUS
  <2> QED BY <2>1
<1>8. srv = [smacks |-> "nil", token |-> FALSE, registered |-> FALSE, q |-> NewQueue,
             hibernating |-> FALSE, watchdog |-> "none", awaiting_ack |-> FALSE,
             last_requested_h |-> 0, handled |-> 0, destroyed |-> FALSE,
             conn |-> 1, closing |-> FALSE, grace |-> FALSE, old_h |-> NoH,
             owner |-> o, closed |-> {}, up |-> u, down |-> u, failed |-> {}]
  BY DEF SmacksInit
<1>9. NoH \in Int /\ 1 \in Conn \union {None} BY <1>0 DEF NoH
<1> HIDE DEF o, u
<1>10. srv \in Server BY <1>5, <1>6, <1>7, <1>8, <1>9 DEF Server
<1>11. /\ srv.smacks = "nil" /\ ~srv.token /\ srv.q = NewQueue /\ ~srv.hibernating /\ ~srv.destroyed
       /\ srv.conn = 1 /\ ~srv.closing /\ ~srv.grace /\ srv.owner = o /\ srv.closed = {}
       /\ srv.up = u /\ srv.down = u /\ srv.failed = {}
  BY <1>8
<1>12. Alive(srv) BY <1>5, <1>11 DEF Alive
<1>13. Owns(srv) BY <1>6, <1>11 DEF Owns
<1>14. Net(srv, 1, 0, 0)
  <2>1. Wired(srv) BY <1>7, <1>11 DEF Wired
  <2>2. \A d \in Conn : Honest(srv.up[d], 0) BY <1>7, <1>11 DEF Honest
  <2>3. Carries(srv.down[1], 0, 0) BY <1>0, <1>7, <1>11, CarriesNone
  <2>4. 0 \in 0..0 OBVIOUS
  <2>5. Flows(srv, 1, 0, 0) BY <1>0, <1>7, <1>11, <2>3, <2>4 DEF Flows
  <2> QED BY <2>1, <2>2, <2>5 DEF Net
<1>15. Books(srv, 0, 0, {})
  <2>1. Len(NewQueue.queue) = 0 BY <1>5
  <2> QED BY <1>5, <1>11, <2>1 DEF Books, Booked
<1>16. Right(srv) BY <1>3, <1>4, <1>10, <1>12, <1>13, <1>14, <1>15 DEF Right
<1>17. Received BY <1>3, <1>4 DEF Received
<1>18. /\ thread = "ready" /\ inbox = <<>> /\ chunk = [c |-> None, n |-> 0] /\ paused = {} /\ partial = FALSE
  BY DEF SmacksInit
<1>19. inbox \in Seq(InItem) /\ Honest(inbox, Len(cl.got)) BY <1>18 DEF Honest
<1>20. Types
  <2>1. chunk \in [c : Conn \union {None}, n : Nat] /\ ~(chunk.n > 0) BY <1>18
  <2>2. cl.conn # None BY <1>0, <1>3
  <2> QED BY <1>3, <1>4, <1>10, <1>18, <1>19, <2>1, <2>2 DEF Types
<1> QED BY <1>16, <1>17, <1>19, <1>20 DEF SmacksInv

(* Every step keeps the invariant. *)
LEMMA SmacksStep == SmacksInv /\ [Next]_vars => SmacksInv'
<1> SUFFICES ASSUME SmacksInv, [Next]_vars PROVE SmacksInv' OBVIOUS
<1>1. CASE UNCHANGED vars
  <2>1. UNCHANGED <<srv, thread, inbox, chunk, paused, partial, cl, hist>> BY <1>1 DEF vars
  <2> QED BY <2>1 DEF SmacksInv, Types, Received, Right
<1>2. CASE RouteStanza \/ ReadTimeout \/ GraceTimeout \/ WatchdogFires \/ ServerStops
  BY <1>2, RouteStanzaKeeps, ReadTimeoutKeeps, GraceTimeoutKeeps, WatchdogFiresKeeps, ServerStopsKeeps
<1>3. CASE \E force \in BOOLEAN : RequestAck(force) BY <1>3, RequestAckKeeps
<1>4. CASE \E reason \in {"error", "none"} : CloseSession(reason) BY <1>4, CloseSessionKeeps
<1>5. CASE \E c \in Conn : Disconnect(c) \/ ReadChunk(c) BY <1>5, DisconnectKeeps, ReadChunkKeeps
<1>6. CASE FeedRest \/ RunItem \/ Wake BY <1>6, FeedRestKeeps, RunItemKeeps, WakeKeeps
<1>7. CASE ClientEarlyStanza \/ ClientEnable \/ ClientStanza \/ ClientClose
  BY <1>7, ClientEarlyStanzaKeeps, ClientEnableKeeps, ClientStanzaKeeps, ClientCloseKeeps
<1>8. CASE \E t \in {"a", "r"} : ClientAckItem(t) BY <1>8, ClientAckItemKeeps
<1>9. CASE ClientRead \/ ClientLoses \/ ClientResumes \/ ClientRebinds
  BY <1>9, ClientReadKeeps, ClientLosesKeeps, ClientResumesKeeps, ClientRebindsKeeps
<1> QED BY <1>1, <1>2, <1>3, <1>4, <1>5, <1>6, <1>7, <1>8, <1>9 DEF Next

(* Whatever the bounds, and whatever may happen: the client has a prefix   *)
(* of what was routed, what is on its connection continues it, the session *)
(* owns its connection and no other, no acknowledgement counts more than   *)
(* was received, and the queue holds the newest stanzas.                   *)
THEOREM AlwaysSmacksInv == Spec => []SmacksInv
<1>1. SmacksInit => SmacksInv BY SmacksInitInv
<1>2. SmacksInv /\ [Next]_vars => SmacksInv' BY SmacksStep
<1> QED BY <1>1, <1>2, PTL DEF Spec

(* mod_smacks' promise to the sender of a stanza, across every lost        *)
(* connection, resumption, timeout and restart: it is received once and in *)
(* order, held, reported as undelivered or was pushed out of a full queue, *)
(* and what the client acknowledged it has and is never reported.          *)
THEOREM DownstreamDeliveryHolds == Spec => []DownstreamDelivery
<1>1. SmacksInv => DownstreamDelivery
  <2> SUFFICES ASSUME SmacksInv PROVE DownstreamDelivery OBVIOUS
  <2> DEFINE g == Len(cl.got)
             q == srv.q
             l == Len(q.queue)
  <2>1. Right(srv) /\ Around /\ Received BY InvAround DEF SmacksInv
  <2>2. g \in Nat /\ hist.out \in Nat /\ g <= hist.out /\ cl.got \in Seq(Nat) BY <2>1, AroundIs
  <2>3. q \in Queue /\ srv.failed \subseteq Nat BY <2>1 DEF Right, Server
  <2>4. q.queue \in Seq(Nat) /\ l \in Nat /\ q.tail \in Nat BY <2>3 DEF Queue
  <2>5. Booked(q, srv.failed, hist.out, hist.lost) /\ q.tail <= g BY <2>1 DEF Right, Books
  <2>6. \A k \in 1..g : cl.got[k] = k BY <2>1 DEF Received
  <2>7. DeliveredOnceInOrder BY <2>2, <2>6 DEF DeliveredOnceInOrder
  <2>8. NothingLost
    <3> SUFFICES ASSUME NEW n \in 1..hist.out
                 PROVE  n \in Range(cl.got) \union Range(q.queue) \union srv.failed \union hist.lost
      BY DEF NothingLost
    <3>1. CASE n <= q.tail
      <4>1. n \in DOMAIN cl.got /\ cl.got[n] = n BY <2>2, <2>4, <2>5, <2>6, <3>1
      <4> QED BY <4>1 DEF Range
    <3>2. CASE n > hist.out - l
      <4>1. n - (hist.out - l) \in 1..l BY <2>2, <2>4, <3>2
      <4>2. q.queue[n - (hist.out - l)] = hist.out - l + (n - (hist.out - l)) BY <2>5, <4>1 DEF Booked
      <4>3. q.queue[n - (hist.out - l)] = n BY <2>2, <2>4, <4>2
      <4>4. n - (hist.out - l) \in DOMAIN q.queue BY <2>4, <4>1
      <4> HIDE DEF q, l
      <4> QED BY <4>3, <4>4 DEF Range
    <3> QED BY <2>5, <3>1, <3>2 DEF Booked
  <2>9. AckedNotFailed BY <2>5 DEF AckedNotFailed, Booked
  <2> QED BY <2>7, <2>8, <2>9 DEF DownstreamDelivery
<1> QED BY <1>1, AlwaysSmacksInv, PTL

(* The connection table and the session agree at every moment: input is    *)
(* never fed to the session from a connection it does not send on.         *)
THEOREM OneConnectionHolds == Spec => []OneConnection
<1>1. SmacksInv => OneConnection BY DEF SmacksInv, Right, Owns, OneConnection
<1> QED BY <1>1, AlwaysSmacksInv, PTL
=============================================================================
