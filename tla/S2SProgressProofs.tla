-------------------------- MODULE S2SProgressProofs --------------------------
(***************************************************************************)
(* Unless something failed, a queue was full or something came into a      *)
(* stream being reset, two servers that authenticate to each other never   *)
(* wait for each other for ever, for any number of connections and         *)
(* stanzas, any forgers, any size of the send queue and any accepted       *)
(* certificates.                                                           *)
(*                                                                         *)
(* The invariant Going says what a deadlock would contradict: while none   *)
(* of the three has happened, each connection that is not authenticated    *)
(* has an authentication step under way, or a question to its own server   *)
(* (Moves); a question about a connection waits in a queue only when that  *)
(* connection's key has gone out, and two never wait for each other        *)
(* (Mutual); and nobody has a reason to give up (Peace).  There is a lemma *)
(* about each handler, then one about each action.                         *)
(***************************************************************************)
EXTENDS S2SProofs

(* The opener of c (session o), and the acceptor (session i), may write x: *)
(* who connects for himself has a good key, and nobody gives up.           *)
Truthful(c, x) ==
  /\ x.t \in {"result", "dbresult"} /\ c[2] > 0 => x.ok
  /\ x.t \in {"verify", "verified"} /\ x.c[2] > 0 => x.ok

UpFit(c, o, i, x) ==
  /\ x.t # "end" /\ Truthful(c, x)
  /\ x.t = "auth" => i.ext = "offered"
  /\ x.t = "result" /\ c[2] > 0 => o.key

DownFit(c, i, x) ==
  /\ x.t \notin {"end", "failure"} /\ Truthful(c, x)
  /\ x.t = "features" /\ x.ok => i.ext = "offered"

(* Connection c lives and nothing in it says otherwise. *)
Peace(c, o, i, u, d) ==
  /\ o.type # "s2s_destroyed" /\ i.type # "s2s_destroyed" /\ ~i.closing
  /\ o.conn => i.type # "none"
  /\ \A x \in Range(u) : UpFit(c, o, i, x)
  /\ \A x \in Range(d) : DownFit(c, i, x)
  /\ \A x \in Range(o.sendq) : Truthful(c, x)

(* s holds an item of one of the types T; a db:verify about c. *)
Has(s, T) == \E x \in Range(s) : x.t \in T
Holds(s, c) == \E x \in Range(s) : x.t = "verify" /\ x.c = c

(* The question about c, or the answer to it, is on connection d.          *)
Asks(y, c, d) ==
  /\ d[2] > 0 /\ d[1] = Remote(c[1])
  /\ \/ Holds(y.up[d], c) \/ Holds(y.out[d].sendq, c)
     \/ \E x \in Range(y.down[d]) : x.t = "verified" /\ x.c = c

(* Something is under way that will let the opener of c go on: an          *)
(* authentication step, or the question to its own server; for an          *)
(* authenticated one with stanzas, the second features.                    *)
Moves(y, c) ==
  /\ y.out[c].type = "s2sout_unauthed" =>
       \/ Has(y.up[c], {"open", "auth", "result"})
       \/ Has(y.down[c], {"features", "success", "dbresult"})
       \/ y.out[c].key /\ Asked(y, c) /\ \E d \in Conn : Asks(y, c, d)
  /\ y.out[c].type = "s2sout" /\ y.out[c].sendq # <<>> =>
       Has(y.up[c], {"open"}) \/ Has(y.down[c], {"features"})

(* A question about c waits in a queue only when c's own key has gone out, *)
(* and the question about the connection it waits for is not behind it.    *)
Mutual(y) ==
  \A c, d \in Conn : c[2] > 0 /\ d[2] > 0 /\ Holds(y.out[d].sendq, c)
                       => y.out[c].key /\ ~Holds(y.out[c].sendq, d)

(* Both servers go on, except perhaps on e. *)
Going(y, e) ==
  /\ y.cut = {}
  /\ \A c \in Conn : Peace(c, y.out[c], y.inc[c], y.up[c], y.down[c])
  /\ \A c \in Conn : c[2] > 0 /\ c # e /\ y.out[c].conn => Moves(y, c)
  /\ Mutual(y)
-----------------------------------------------------------------------------
(* The items of a sequence made of others. *)
LEMMA RangeOf ==
  ASSUME NEW S, NEW u \in Seq(S)
  PROVE  /\ \A v \in Seq(S) : u \o v \in Seq(S) /\ Range(u \o v) = Range(u) \union Range(v)
         /\ \A x \in S : Append(u, x) \in Seq(S) /\ Range(Append(u, x)) = Range(u) \union {x}
         /\ u # <<>> => Range(u) = {Head(u)} \union Range(Tail(u)) /\ Tail(u) \in Seq(S) /\ Head(u) \in S
         /\ Range(u) \subseteq S
<1>0. \A s, x : x \in Range(s) <=> \E k \in DOMAIN s : s[k] = x BY DEF Range
<1>1. ASSUME NEW v \in Seq(S) PROVE u \o v \in Seq(S) /\ Range(u \o v) = Range(u) \union Range(v)
  <2> DEFINE w == u \o v
  <2>1. \A k \in DOMAIN u : k \in DOMAIN w /\ w[k] = u[k] OBVIOUS
  <2>2. \A k \in DOMAIN v : k + Len(u) \in DOMAIN w /\ w[k + Len(u)] = v[k] OBVIOUS
  <2>3. w \in Seq(S) /\ \A k \in DOMAIN w : \/ k \in DOMAIN u /\ w[k] = u[k]
                                            \/ k - Len(u) \in DOMAIN v /\ w[k] = v[k - Len(u)]
    BY CatDomain
  <2> HIDE DEF w
  <2>4. \A x : x \in Range(w) <=> x \in Range(u) \/ x \in Range(v) BY <1>0, <2>1, <2>2, <2>3
  <2>5. Range(w) = Range(u) \union Range(v) BY <2>4
  <2> QED BY <2>3, <2>5 DEF w
<1>2. ASSUME NEW x \in S PROVE Append(u, x) \in Seq(S) /\ Range(Append(u, x)) = Range(u) \union {x}
  <2>1. Append(u, x) = u \o <<x>> /\ <<x>> \in Seq(S) OBVIOUS
  <2>2. DOMAIN <<x>> = {1} /\ <<x>>[1] = x OBVIOUS
  <2>3. Range(<<x>>) = {x} BY <1>0, <2>2
  <2> QED BY <2>1, <2>3, <1>1
<1>3. ASSUME u # <<>> PROVE Range(u) = {Head(u)} \union Range(Tail(u)) /\ Tail(u) \in Seq(S) /\ Head(u) \in S
  <2> DEFINE w == Tail(u)
             x == Head(u)
  <2>1. w \in Seq(S) /\ x \in S /\ x = u[1] /\ 1 \in DOMAIN u BY <1>3
  <2>2. \A k \in DOMAIN w : k + 1 \in DOMAIN u /\ w[k] = u[k + 1] BY <1>3
  <2>3. \A k \in DOMAIN u : k = 1 \/ (k - 1 \in DOMAIN w /\ u[k] = w[k - 1]) BY <1>3
  <2> HIDE DEF w, x
  <2>4. ASSUME NEW a PROVE a \in Range(u) <=> a = x \/ a \in Range(w)
    <3>1. ASSUME a \in Range(u) PROVE a = x \/ a \in Range(w)
      <4>1. PICK k \in DOMAIN u : u[k] = a BY <1>0, <3>1
      <4> QED BY <1>0, <2>1, <2>3, <4>1
    <3>2. ASSUME a \in Range(w) PROVE a \in Range(u)
      <4>1. PICK k \in DOMAIN w : w[k] = a BY <1>0, <3>2
      <4> QED BY <1>0, <2>2, <4>1
    <3> QED BY <1>0, <2>1, <3>1, <3>2
  <2>5. Range(u) = {x} \union Range(w) BY <2>4
  <2> QED BY <2>1, <2>5 DEF w, x
<1>4. Range(u) \subseteq S BY DEF Range
<1> QED BY <1>1, <1>2, <1>3, <1>4

(* The items of the shortest sequences. *)
LEMMA RangeFew == Range(<<>>) = {} /\ \A x : Range(<<x>>) = {x}
<1>1. DOMAIN <<>> = {} OBVIOUS
<1>2. ASSUME NEW x PROVE DOMAIN <<x>> = {1} /\ <<x>>[1] = x OBVIOUS
<1> QED BY <1>1, <1>2 DEF Range

(* What is under way on connection c is still so in z, *)
Onward(y, z, c) ==
  /\ y.out[c].key => z.out[c].key
  /\ \A x \in Range(y.up[c]) : x.t \in {"open", "auth", "result"} => x \in Range(z.up[c])
  /\ \A x \in Range(y.down[c]) : x.t \in {"features", "success", "dbresult"} => x \in Range(z.down[c])

(* and so is what it relays about others. *)
Relays(y, z, c) ==
  /\ \A x \in Range(y.up[c]) : x.t = "verify" => x \in Range(z.up[c])
  /\ \A x \in Range(y.down[c]) : x.t = "verified" => x \in Range(z.down[c])
  /\ \A x \in Range(y.out[c].sendq) : x.t = "verify" => x \in Range(z.out[c].sendq) \union Range(z.up[c])

(* The session of the opener is where it was. *)
Staid(o, p) ==
  p.conn => o.conn /\ p.type = o.type /\ (o.type = "s2sout" /\ o.sendq = <<>> => p.sendq = <<>>)

(* Both go on, except perhaps on f where the opener's session changed or   *)
(* what it waited for is gone.                                             *)
LEMMA GoingStep ==
  ASSUME NEW y, NEW e, Going(y, e), NEW z, NEW f, e # NoConn => f = e, z.cut = y.cut,
         \A c \in Conn : c # f => Onward(y, z, c) /\ Staid(y.out[c], z.out[c]) /\ (Asked(y, c) => Asked(z, c)),
         \A c, d \in Conn : c # f /\ Asked(y, c) /\ Asks(y, c, d) => Asks(z, c, d),
         \A c \in Conn : Peace(c, z.out[c], z.inc[c], z.up[c], z.down[c]),
         Mutual(z)
  PROVE  Going(z, f)
<1> SUFFICES ASSUME NEW c \in Conn, c[2] > 0, c # f, z.out[c].conn PROVE Moves(z, c) BY DEF Going
<1>1. c # e BY Conns
<1>2. Staid(y.out[c], z.out[c]) /\ (Asked(y, c) => Asked(z, c)) /\ Onward(y, z, c) OBVIOUS
<1>3. Moves(y, c) BY <1>1, <1>2 DEF Going, Staid
<1>4. \A d \in Conn : Asked(y, c) /\ Asks(y, c, d) => Asks(z, c, d) OBVIOUS
<1>5. /\ \A T \in SUBSET {"open", "auth", "result"} : Has(y.up[c], T) => Has(z.up[c], T)
      /\ \A T \in SUBSET {"features", "success", "dbresult"} : Has(y.down[c], T) => Has(z.down[c], T)
  BY <1>2 DEF Onward, Has
<1> HIDE DEF Asks, Has
<1> QED BY <1>2, <1>3, <1>4, <1>5 DEF Moves, Staid, Onward

(* The same when all connections relay what they relayed. *)
LEMMA GoingOn ==
  ASSUME NEW y, NEW e, Going(y, e), NEW z, NEW f, e # NoConn => f = e, z.cut = y.cut,
         \A c \in Conn : Relays(y, z, c) /\ (c # f => Onward(y, z, c) /\ Staid(y.out[c], z.out[c])),
         \A c \in Conn : c # f /\ Asked(y, c) => Asked(z, c),
         \A c \in Conn : Peace(c, z.out[c], z.inc[c], z.up[c], z.down[c]),
         Mutual(z)
  PROVE  Going(z, f)
<1>1. ASSUME NEW c \in Conn, NEW d \in Conn, Asks(y, c, d) PROVE Asks(z, c, d)
  <2>1. Relays(y, z, d) OBVIOUS
  <2> QED BY <1>1, <2>1 DEF Asks, Relays, Holds
<1> HIDE DEF Asks
<1> QED BY <1>1, GoingStep

(* The queues may lose questions and more keys may go out. *)
LEMMA MutualLess ==
  ASSUME NEW y, Mutual(y), NEW z,
         \A c \in Conn : /\ y.out[c].key => z.out[c].key
                         /\ \A x \in Range(z.out[c].sendq) : x.t = "verify" => x \in Range(y.out[c].sendq)
  PROVE  Mutual(z)
BY DEF Mutual, Holds

(* Where the opener of e waits for something under way, both go on. *)
LEMMA GoingAll ==
  ASSUME NEW y, NEW e, Going(y, e), e \in Conn /\ e[2] > 0 /\ y.out[e].conn => Moves(y, e)
  PROVE  Going(y, NoConn)
BY DEF Going
-----------------------------------------------------------------------------
(* Writing to the acceptor. *)
LEMMA GoingUp ==
  ASSUME NEW y, Typed(y), NEW e, Going(y, e), NEW c \in Conn, NEW v \in Seq(ItemType),
         \A x \in Range(v) : UpFit(c, y.out[c], y.inc[c], x)
  PROVE  LET z == Up(y, c, v) IN
         /\ Typed(z) /\ Frame(y, z, {"up"}) /\ Going(z, e)
         /\ z.up[c] \in Seq(ItemType) /\ Range(z.up[c]) = Range(y.up[c]) \union Range(v)
<1> DEFINE u == y.up[c] \o v
           z == SetUp(y, c, u)
<1>1. y.up \in [Conn -> Seq(ItemType)] BY TypedFields
<1>2. u \in Seq(ItemType) /\ Range(u) = Range(y.up[c]) \union Range(v) BY <1>1, RangeOf
<1>3. Up(y, c, v) = z BY DEF Up, SetUp, Going
<1> HIDE DEF u
<1>4. Typed(z) /\ Frame(y, z, {"up"}) /\ z.up = [y.up EXCEPT ![c] = u] BY <1>2, SetUpFields
<1> HIDE DEF z
<1>5. z.up[c] = u /\ \A d \in Conn : d # c => z.up[d] = y.up[d] BY <1>1, <1>4
<1>6. z.out = y.out /\ z.inc = y.inc /\ z.down = y.down /\ z.req = y.req /\ z.cut = y.cut
  BY <1>4 DEF Frame, NetField
<1>7. \A d \in Conn : Peace(d, z.out[d], z.inc[d], z.up[d], z.down[d]) BY <1>2, <1>5, <1>6 DEF Going, Peace
<1>8. \A d \in Conn : /\ Onward(y, z, d) /\ Relays(y, z, d) /\ Staid(y.out[d], z.out[d])
                      /\ (Asked(y, d) => Asked(z, d))
  BY <1>2, <1>5, <1>6 DEF Onward, Relays, Staid, Asked
<1>9. Mutual(z) BY <1>6 DEF Going, Mutual
<1>10. Going(z, e) BY <1>6, <1>7, <1>8, <1>9, GoingOn
<1> QED BY <1>2, <1>3, <1>4, <1>5, <1>10

(* Writing to the opener. *)
LEMMA GoingDown ==
  ASSUME NEW y, Typed(y), NEW e, Going(y, e), NEW c \in Conn, NEW v \in Seq(DownItem),
         \A x \in Range(v) : DownFit(c, y.inc[c], x)
  PROVE  LET z == Down(y, c, v) IN
         /\ Typed(z) /\ Frame(y, z, {"down"}) /\ Going(z, e)
         /\ Range(z.down[c]) = Range(y.down[c]) \union Range(v)
<1> DEFINE u == y.down[c] \o v
           z == SetDown(y, c, u)
<1>1. y.down \in [Conn -> Seq(DownItem)] BY TypedFields
<1>2. u \in Seq(DownItem) /\ Range(u) = Range(y.down[c]) \union Range(v) BY <1>1, RangeOf
<1>3. Down(y, c, v) = z BY DEF Down, SetDown, Going, Peace
<1> HIDE DEF u
<1>4. Typed(z) /\ Frame(y, z, {"down"}) /\ z.down = [y.down EXCEPT ![c] = u] BY <1>2, SetDownFields
<1> HIDE DEF z
<1>5. z.down[c] = u /\ \A d \in Conn : d # c => z.down[d] = y.down[d] BY <1>1, <1>4
<1>6. z.out = y.out /\ z.inc = y.inc /\ z.up = y.up /\ z.req = y.req /\ z.cut = y.cut
  BY <1>4 DEF Frame, NetField
<1>7. \A d \in Conn : Peace(d, z.out[d], z.inc[d], z.up[d], z.down[d]) BY <1>2, <1>5, <1>6 DEF Going, Peace
<1>8. \A d \in Conn : /\ Onward(y, z, d) /\ Relays(y, z, d) /\ Staid(y.out[d], z.out[d])
                      /\ (Asked(y, d) => Asked(z, d))
  BY <1>2, <1>5, <1>6 DEF Onward, Relays, Staid, Asked
<1>9. Mutual(z) BY <1>6 DEF Going, Mutual
<1>10. Going(z, e) BY <1>6, <1>7, <1>8, <1>9, GoingOn
<1> QED BY <1>2, <1>3, <1>4, <1>5, <1>10

(* The opener's session goes further. *)
LEMMA GoingOut ==
  ASSUME NEW y, Typed(y), NEW e, Going(y, e), NEW c \in Conn, NEW v \in OutSession,
         v.conn = y.out[c].conn, v.sendq = y.out[c].sendq, v.type # "s2s_destroyed",
         y.out[c].key => v.key, e = c \/ v.type = y.out[c].type
  PROVE  LET z == SetOut(y, c, v) IN
         /\ Typed(z) /\ Frame(y, z, {"out"}) /\ Going(z, e) /\ z.out[c] = v
<1> DEFINE z == SetOut(y, c, v)
<1>1. y.out \in [Conn -> OutSession] BY TypedFields
<1>4. Typed(z) /\ Frame(y, z, {"out"}) /\ z.out = [y.out EXCEPT ![c] = v] BY SetOutFields
<1> HIDE DEF z
<1>5. z.out[c] = v /\ \A d \in Conn : d # c => z.out[d] = y.out[d] BY <1>1, <1>4
<1>6. z.up = y.up /\ z.inc = y.inc /\ z.down = y.down /\ z.req = y.req /\ z.cut = y.cut
  BY <1>4 DEF Frame, NetField
<1>7. \A d \in Conn : Peace(d, z.out[d], z.inc[d], z.up[d], z.down[d]) BY <1>5, <1>6 DEF Going, Peace, UpFit
<1>8. \A d \in Conn : /\ Onward(y, z, d) /\ Relays(y, z, d) /\ (d # e => Staid(y.out[d], z.out[d]))
                      /\ (Asked(y, d) => Asked(z, d))
  BY <1>5, <1>6 DEF Onward, Relays, Staid, Asked
<1>9. Mutual(z)
  <2>1. \A d \in Conn : z.out[d].sendq = y.out[d].sendq /\ (y.out[d].key => z.out[d].key) BY <1>5
  <2> QED BY <2>1, MutualLess DEF Going
<1>10. Going(z, e) BY <1>6, <1>7, <1>8, <1>9, GoingOn
<1>11. Typed(z) /\ Frame(y, z, {"out"}) /\ Going(z, e) /\ z.out[c] = v
  BY <1>4, <1>5, <1>10
<1> QED BY <1>11 DEF z

(* The acceptor's session goes further, with or without a route. *)
LEMMA GoingIn ==
  ASSUME NEW y, NEW e, Going(y, e), NEW c \in Conn, NEW v, y.inc \in [Conn -> InSession],
         v.type \notin {"none", "s2s_destroyed"}, ~v.closing,
         \/ v.ext = y.inc[c].ext \/ v.ext = "offered"
         \/ /\ \A x \in Range(y.up[c]) : x.t # "auth"
            /\ \A x \in Range(y.down[c]) : x.t # "features",
         NEW z, Frame(y, z, {"inc", "tab"}), z.inc = [y.inc EXCEPT ![c] = v]
  PROVE  Going(z, e)
<1>5. z.inc[c] = v /\ \A d \in Conn : d # c => z.inc[d] = y.inc[d] OBVIOUS
<1>6. z.up = y.up /\ z.out = y.out /\ z.down = y.down /\ z.req = y.req /\ z.cut = y.cut
  BY DEF Frame, NetField
<1>7. \A d \in Conn : Peace(d, z.out[d], z.inc[d], z.up[d], z.down[d])
  BY <1>5, <1>6 DEF Going, Peace, UpFit, DownFit
<1>8. \A d \in Conn : /\ Onward(y, z, d) /\ Relays(y, z, d) /\ Staid(y.out[d], z.out[d])
                      /\ (Asked(y, d) => Asked(z, d))
  BY <1>6 DEF Onward, Relays, Staid, Asked
<1>9. Mutual(z) BY <1>6 DEF Going, Mutual
<1> QED BY <1>6, <1>7, <1>8, <1>9, GoingOn

(* The questions change, the one about e perhaps disappears. *)
LEMMA GoingAsk ==
  ASSUME NEW y, NEW e, Going(y, e), NEW z, NEW f, e # NoConn => f = e,
         Frame(y, z, {"req", "tab", "routed", "sent", "bounced", "got", "dropped", "early", "overflow", "certs"}),
         \A c \in Conn : c # f /\ Asked(y, c) => Asked(z, c)
  PROVE  Going(z, f)
<1>6. z.up = y.up /\ z.inc = y.inc /\ z.out = y.out /\ z.down = y.down /\ z.cut = y.cut
  BY DEF Frame, NetField
<1>7. \A d \in Conn : Peace(d, z.out[d], z.inc[d], z.up[d], z.down[d]) BY <1>6 DEF Going
<1>8. \A d \in Conn : Onward(y, z, d) /\ Relays(y, z, d) /\ Staid(y.out[d], z.out[d])
  BY <1>6 DEF Onward, Relays, Staid
<1>9. Mutual(z) BY <1>6 DEF Going, Mutual
<1> QED BY <1>6, <1>7, <1>8, <1>9, GoingOn
-----------------------------------------------------------------------------
(* A connection that is not made yet carries nothing. *)
Idle(y) == \A c \in Conn : c[2] > 0 /\ ~y.out[c].conn => y.up[c] = <<>> /\ ~y.out[c].key

(* An item waits with an unauthenticated session.  For a question this     *)
(* means that the session's own key has not gone out.                      *)
LEMMA GoingQueue ==
  ASSUME NEW y, Typed(y), NEW e, Going(y, e), NEW c \in Conn, y.out[c].type = "s2sout_unauthed",
         NEW x \in QueueItem, Truthful(c, x),
         x.t = "verify" /\ x.c[2] > 0 => y.out[x.c].key /\ ~y.out[c].key /\ c[2] > 0
  PROVE  LET z == Enqueue(y, c, x) IN
         /\ Going(z, e) /\ Frame(y, z, {"out"}) /\ x \in Range(z.out[c].sendq)
         /\ \A d \in Conn : d # c => z.out[d] = y.out[d]
<1> DEFINE o == y.out[c]
           q == Append(o.sendq, x)
           v == [o EXCEPT !.sendq = q]
           z == SetOut(y, c, v)
<1>1. Enqueue(y, c, x) = z BY DEF SetOut, Enqueue
<1>2. o \in OutSession /\ o.sendq \in Seq(QueueItem) BY OrdTypes
<1>3. q \in Seq(QueueItem) /\ Range(q) = Range(o.sendq) \union {x} BY <1>2, RangeOf
<1> HIDE DEF q
<1>4. /\ v \in OutSession /\ v.type = o.type /\ v.conn = o.conn /\ v.key = o.key /\ v.sendq = q
  BY <1>2, <1>3 DEF OutFields, OutSession
<1> HIDE DEF v
<1>5. Typed(z) /\ Frame(y, z, {"out"}) /\ z.out = [y.out EXCEPT ![c] = v] BY <1>4, SetOutFields
<1> HIDE DEF z
<1>6. y.out \in [Conn -> OutSession] BY TypedFields
<1>7. z.out[c] = v /\ \A d \in Conn : d # c => z.out[d] = y.out[d] BY <1>5, <1>6
<1>8. z.up = y.up /\ z.inc = y.inc /\ z.down = y.down /\ z.req = y.req /\ z.cut = y.cut
  BY <1>5 DEF Frame, NetField
<1>9. \A d \in Conn : Peace(d, z.out[d], z.inc[d], z.up[d], z.down[d])
  <2>1. \A d \in Conn : Peace(d, y.out[d], y.inc[d], y.up[d], y.down[d]) BY DEF Going
  <2>2. \A a \in Range(v.sendq) : Truthful(c, a) BY <1>3, <1>4, <2>1 DEF Peace
  <2>3. Peace(c, v, y.inc[c], y.up[c], y.down[c]) BY <1>4, <2>1, <2>2 DEF Peace, UpFit
  <2> QED BY <1>7, <1>8, <2>1, <2>3
<1>10. \A d \in Conn : /\ Onward(y, z, d) /\ Relays(y, z, d) /\ Staid(y.out[d], z.out[d])
                       /\ (Asked(y, d) => Asked(z, d))
  BY <1>3, <1>4, <1>7, <1>8 DEF Onward, Relays, Staid, Asked
<1>11. Mutual(z)
  <2>1. Mutual(y) BY DEF Going
  <2>2. \A d \in Conn : z.out[d].key = y.out[d].key BY <1>4, <1>7
  <2>3. \A a \in Conn, d \in Conn : Holds(z.out[d].sendq, a) <=>
           Holds(y.out[d].sendq, a) \/ (d = c /\ x.t = "verify" /\ x.c = a)
    BY <1>3, <1>4, <1>7 DEF Holds
  <2> SUFFICES ASSUME NEW a \in Conn, NEW d \in Conn, a[2] > 0, d[2] > 0, Holds(z.out[d].sendq, a)
               PROVE  z.out[a].key /\ ~Holds(z.out[a].sendq, d)
    BY DEF Mutual
  <2> HIDE DEF Holds
  <2>4. CASE Holds(y.out[d].sendq, a)
    <3>1. y.out[a].key /\ ~Holds(y.out[a].sendq, d) BY <2>1, <2>4 DEF Mutual
    <3>2. ~(a = c /\ x.t = "verify" /\ x.c = d) BY <3>1
    <3> QED BY <2>2, <2>3, <3>1, <3>2
  <2>5. CASE d = c /\ x.t = "verify" /\ x.c = a
    <3>1. y.out[a].key /\ ~y.out[c].key BY <2>5
    <3>2. ~Holds(y.out[a].sendq, c) BY <2>1, <2>5, <3>1 DEF Mutual
    <3>3. a # c BY <3>1
    <3> QED BY <2>2, <2>3, <2>5, <3>1, <3>2, <3>3
  <2> QED BY <2>3, <2>4, <2>5
<1>12. Going(z, e) BY <1>8, <1>9, <1>10, <1>11, GoingOn
<1>13. x \in Range(z.out[c].sendq) BY <1>3, <1>4, <1>7
<1> QED BY <1>1, <1>5, <1>7, <1>12, <1>13

(* A new session is opened with an item. *)
LEMMA GoingOpen ==
  ASSUME NEW y, Sound(y), Idle(y), NEW e, Going(y, e), NEW h \in Host, NEW c \in Unused(y, h),
         \A d \in Conn : d[1] = h => ~Alive(y.out[d]),
         NEW x \in QueueItem, Truthful(c, x), x.t = "verify" /\ x.c[2] > 0 => y.out[x.c].key
  PROVE  LET z == Opened(y, h, c, x) IN
         /\ Going(z, e) /\ Frame(y, z, {"out", "tab"}) /\ x \in Range(z.out[c].sendq)
         /\ \A d \in Conn : d # c => z.out[d] = y.out[d]
<1> DEFINE z == Opened(y, h, c, x)
           v == NewOut(x)
<1>1. c \in Conn /\ c[2] > 0 /\ c[1] = h /\ y.out[c].type = "none" BY DEF Unused
<1>2. Frame(y, z, {"out", "tab"}) /\ z.out[c] = v /\ \A d \in Conn : d # c => z.out[d] = y.out[d]
  BY OpenedSound
<1> HIDE DEF z
<1>3. /\ v.type = "s2sout_unauthed" /\ v.conn = FALSE /\ v.key = FALSE /\ Range(v.sendq) = {x}
  BY RangeFew DEF NewOut
<1> HIDE DEF v
<1>4. ~y.out[c].conn /\ y.out[c].sendq = <<>>
  <2>1. Local(c, y.out[c], y.inc[c], y.up[c], y.down[c], Asked(y, c), y.got[c]) BY <1>1, At
  <2> QED BY <1>1, <2>1 DEF Local, Alive
<1>5. y.up[c] = <<>> /\ ~y.out[c].key BY <1>1, <1>4 DEF Idle
<1>6. Range(y.up[c]) = {} /\ Range(y.out[c].sendq) = {} BY <1>4, <1>5, RangeFew
<1>7. z.up = y.up /\ z.inc = y.inc /\ z.down = y.down /\ z.req = y.req /\ z.cut = y.cut
  BY <1>2 DEF Frame, NetField
<1>8. \A d \in Conn : Peace(d, z.out[d], z.inc[d], z.up[d], z.down[d])
  <2>1. \A d \in Conn : Peace(d, y.out[d], y.inc[d], y.up[d], y.down[d]) BY DEF Going
  <2>2. Peace(c, y.out[c], y.inc[c], y.up[c], y.down[c]) BY <1>1, <2>1
  <2>3. Peace(c, v, y.inc[c], y.up[c], y.down[c]) BY <1>3, <1>6, <2>2 DEF Peace
  <2> QED BY <1>2, <1>7, <2>1, <2>3
<1>9. \A d \in Conn : /\ Onward(y, z, d) /\ Relays(y, z, d) /\ Staid(y.out[d], z.out[d])
                      /\ (Asked(y, d) => Asked(z, d))
  BY <1>2, <1>3, <1>5, <1>6, <1>7 DEF Onward, Relays, Staid, Asked
<1>10. Mutual(z)
  <2>1. Mutual(y) BY DEF Going
  <2>2. \A d \in Conn : y.out[d].key => z.out[d].key BY <1>2, <1>5
  <2>3. \A a \in Conn, d \in Conn : Holds(z.out[d].sendq, a) <=>
           (d # c /\ Holds(y.out[d].sendq, a)) \/ (d = c /\ x.t = "verify" /\ x.c = a)
    BY <1>2, <1>3 DEF Holds
  <2> SUFFICES ASSUME NEW a \in Conn, NEW d \in Conn, a[2] > 0, d[2] > 0, Holds(z.out[d].sendq, a)
               PROVE  z.out[a].key /\ ~Holds(z.out[a].sendq, d)
    BY DEF Mutual
  <2> HIDE DEF Holds
  <2>4. CASE d # c /\ Holds(y.out[d].sendq, a)
    <3>1. y.out[a].key /\ ~Holds(y.out[a].sendq, d) BY <2>1, <2>4 DEF Mutual
    <3>2. a # c BY <1>5, <3>1
    <3> QED BY <2>2, <2>3, <3>1, <3>2
  <2>5. CASE d = c /\ x.t = "verify" /\ x.c = a
    <3>1. y.out[a].key /\ a # c BY <1>5, <2>5
    <3>2. ~Holds(y.out[a].sendq, c) BY <1>1, <1>5, <2>1, <2>5 DEF Mutual
    <3> QED BY <2>2, <2>3, <2>5, <3>1, <3>2
  <2> QED BY <2>3, <2>4, <2>5
<1>11. Going(z, e) BY <1>7, <1>8, <1>9, <1>10, GoingOn
<1>12. x \in Range(z.out[c].sendq) BY <1>2, <1>3
<1>13. /\ Going(z, e) /\ Frame(y, z, {"out", "tab"}) /\ x \in Range(z.out[c].sendq)
       /\ \A d \in Conn : d # c => z.out[d] = y.out[d]
  BY <1>2, <1>11, <1>12
<1> QED BY <1>13 DEF z

(* Items are written. *)
LEMMA GoingWrite ==
  ASSUME NEW y, Sound(y), NEW e, Going(y, e), NEW h \in Host, NEW c \in Conn, NEW q \in Seq(QueueItem),
         \A x \in Range(q) : Truthful(c, x)
  PROVE  LET z == Write(y, h, c, q) IN
         /\ Typed(z) /\ Going(z, e) /\ Frame(y, z, {"up", "down", "sent"})
         /\ c[1] = h => Range(z.up[c]) = Range(y.up[c]) \union Range(q)
<1> DEFINE w == Wrote(y, h, q)
<1>1. /\ q \in Seq(ItemType) /\ q \in Seq(DownItem)
      /\ \A x \in Range(q) : x \in QueueItem
  <2>1. QueueItem \subseteq ItemType /\ QueueItem \subseteq DownItem BY DEF QueueItem, DownItem
  <2> QED BY <2>1, RangeOf
<1>2. Sound(w) /\ Frame(y, w, {"sent"}) BY <1>1, SentFields
<1>3. Write(y, h, c, q) = IF c[1] = h THEN Up(w, c, q) ELSE Down(w, c, q) BY DEF Write, Wrote
<1> HIDE DEF w
<1>4. Typed(w) BY <1>2 DEF Sound
<1>5. w.out = y.out /\ w.inc = y.inc /\ w.up = y.up /\ w.down = y.down /\ w.req = y.req BY <1>2 DEF Frame, NetField
<1>6. Going(w, e)
  <2>1. Frame(y, w, {"req", "tab", "routed", "sent", "bounced", "got", "dropped", "early", "overflow", "certs"})
    BY <1>2 DEF Frame
  <2>2. \A d \in Conn : Asked(y, d) => Asked(w, d) BY <1>5 DEF Asked
  <2> QED BY <2>1, <2>2, GoingAsk
<1>7. \A x \in Range(q) : x.t \in {"msg", "verify"} BY <1>1 DEF QueueItem
<1>8. LET z == Up(w, c, q) IN
      Typed(z) /\ Frame(w, z, {"up"}) /\ Going(z, e) /\ Range(z.up[c]) = Range(w.up[c]) \union Range(q)
  BY <1>1, <1>4, <1>6, <1>7, GoingUp DEF UpFit
<1>9. LET z == Down(w, c, q) IN Typed(z) /\ Frame(w, z, {"down"}) /\ Going(z, e)
  BY <1>1, <1>4, <1>6, <1>7, GoingDown DEF DownFit
<1>10. \A z : Frame(w, z, {"up"}) \/ Frame(w, z, {"down"}) => Frame(y, z, {"up", "down", "sent"})
  BY <1>2 DEF Frame, NetField
<1> QED BY <1>3, <1>5, <1>8, <1>9, <1>10
-----------------------------------------------------------------------------
(* Where h has no route it has an unused connection, if it could open any. *)
LEMMA OneUnused ==
  ASSUME NEW y, Sound(y), NEW e, Going(y, e), NEW h \in Host, y.tab[h] = NoConn,
         NEW c \in Conn, c[2] > 0
  PROVE  Unused(y, h) # {}
<1> DEFINE d == <<h, c[2]>>
<1>1. d \in Conn /\ d[1] = h /\ d[2] = c[2] BY DEF Conn
<1> HIDE DEF d
<1>2. d # NoConn BY <1>1, Conns
<1>3. ~Alive(y.out[d]) BY <1>1, <1>2 DEF Sound, Routes
<1>4. y.out[d].type # "s2s_destroyed" BY <1>1 DEF Going, Peace
<1>5. y.out[d] \in OutSession BY <1>1, At
<1>6. y.out[d].type = "none" BY <1>3, <1>4, <1>5 DEF OutFields, OutSession, Alive
<1> QED BY <1>1, <1>6 DEF Unused

(* A routed stanza or question, unless a queue is full: a question goes    *)
(* out, or waits where the session's own key has not gone out.             *)
LEMMA GoingRoute ==
  ASSUME NEW y, Sound(y), Idle(y), NEW e, Going(y, e), NEW h \in Host, NEW x \in QueueItem,
         ~route(y, h, x).overflow, x.t = "verify" /\ x.c[2] > 0 => x.ok /\ y.out[x.c].key
  PROVE  LET z == route(y, h, x) IN
         /\ Going(z, e) /\ z.req = y.req
         /\ \A d \in Conn : d[1] # h => z.out[d] = y.out[d]
         /\ x.t = "verify" /\ x.c[2] > 0 /\ h = Remote(x.c[1]) /\ (y.tab[h] # NoConn => y.tab[h][1] = h)
              => \E d \in Conn : Asks(z, x.c, d)
<1> DEFINE c == y.tab[h]
           z == route(y, h, x)
           ask == x.t = "verify" /\ x.c[2] > 0 /\ h = Remote(x.c[1]) /\ (c # NoConn => c[1] = h)
<1>1. Typed(y) BY DEF Sound
<1>2. x.t \in {"msg", "verify"} /\ (x.t = "verify" => x.c \in Conn) BY DEF QueueItem, Unforged
<1>3. \A d : Truthful(d, x) BY <1>2 DEF Truthful
<1>4. \A w : Frame(y, w, {"up", "down", "sent"}) \/ Frame(y, w, {"out", "tab"}) \/ Frame(y, w, {"out"})
               \/ Frame(y, w, {"tab", "bounced"})
             => w.req = y.req
  BY DEF Frame, NetField
<1>5. CASE c = NoConn
  <2> DEFINE d == First(y, h)
             w == SetTab(y, h, NoConn)
  <2>1. \A a \in Conn : a[1] = h => ~Alive(y.out[a]) BY <1>5, Conns DEF Sound, Routes
  <2>2. z = IF Unused(y, h) = {} THEN bounce_sendq(w, h, <<x>>) ELSE Opened(y, h, d, x)
    BY <1>5 DEF route, route_to_new_session, Unused, First, Opened, SetTab
  <2>3. CASE Unused(y, h) = {}
    <3>1. Sound(w) /\ Frame(y, w, {"tab"}) BY <2>1, NoRoute
    <3> HIDE DEF w
    <3>2. <<x>> \in Seq(ItemType) BY Items
    <3>3. Frame(w, bounce_sendq(w, h, <<x>>), {"bounced"}) BY <3>1, <3>2, BounceFields
    <3> HIDE DEF z
    <3>4. Frame(y, z, {"tab", "bounced"}) BY <2>2, <2>3, <3>1, <3>3 DEF Frame
    <3>5. Frame(y, z, {"req", "tab", "routed", "sent", "bounced", "got", "dropped", "early", "overflow", "certs"})
      BY <3>4 DEF Frame
    <3>6. z.req = y.req /\ z.out = y.out BY <3>4 DEF Frame, NetField
    <3>7. Going(z, e) BY <3>5, <3>6, GoingAsk DEF Asked
    <3>8. ~ask BY <1>2, <1>5, <2>3, OneUnused
    <3> QED BY <3>6, <3>7, <3>8 DEF z
  <2>4. CASE Unused(y, h) # {}
    <3>1. d \in Unused(y, h) BY <2>4, FirstUnused
    <3> HIDE DEF d
    <3>2. z = Opened(y, h, d, x) BY <2>2, <2>4
    <3> HIDE DEF z
    <3>3. d \in Conn /\ d[1] = h /\ d[2] > 0 BY <3>1 DEF Unused
    <3>4. /\ Going(z, e) /\ Frame(y, z, {"out", "tab"}) /\ x \in Range(z.out[d].sendq)
          /\ \A a \in Conn : a # d => z.out[a] = y.out[a]
      BY <1>3, <2>1, <3>1, <3>2, GoingOpen
    <3>5. ask => Asks(z, x.c, d) BY <1>2, <3>3, <3>4 DEF Asks, Holds
    <3> QED BY <1>4, <3>3, <3>4, <3>5 DEF z
  <2> QED BY <2>3, <2>4
<1>6. CASE c # NoConn
  <2>1. /\ c \in Conn /\ (c[1] = h => Alive(y.out[c]) /\ c[2] > 0) /\ ~y.inc[c].closing
    <3>1. c \in Conn /\ (c[1] = h => Alive(y.out[c])) BY <1>6, RouteIs
    <3>2. Local(c, y.out[c], y.inc[c], y.up[c], y.down[c], Asked(y, c), y.got[c]) BY <3>1, At
    <3>3. c[2] \in Nat BY <3>1, Conns
    <3> QED BY <3>1, <3>2, <3>3 DEF Local, Claim, Alive, Going, Peace
  <2>2. z = route_to_existing_session(y, h, x) BY <1>6, <2>1 DEF route
  <2> HIDE DEF z
  <2> DEFINE waits == c[1] = h /\ y.out[c].type = "s2sout_unauthed" /\ (x.t # "verify" \/ ~y.out[c].key)
  <2>3. CASE waits
    <3>1. z = IF Len(y.out[c].sendq) < SendqSize THEN Enqueue(y, c, x) ELSE Refuse(y, h, x)
      BY <2>2, <2>3 DEF route_to_existing_session, Enqueue
    <3>2. Refuse(y, h, x).overflow = TRUE
      <4>1. <<x>> \in Seq(ItemType) BY Items
      <4>2. Sound(bounce_sendq(y, h, <<x>>)) BY <4>1, BounceFields
      <4>3. IsNet(bounce_sendq(y, h, <<x>>)) BY <4>2 DEF Sound, Typed
      <4> QED BY <4>3 DEF Refuse, IsNet, NetField
    <3>3. z = Enqueue(y, c, x) BY <3>1, <3>2 DEF z
    <3>4. /\ Going(z, e) /\ Frame(y, z, {"out"}) /\ x \in Range(z.out[c].sendq)
          /\ \A d \in Conn : d # c => z.out[d] = y.out[d]
      BY <1>1, <1>3, <2>1, <2>3, <3>3, GoingQueue
    <3>5. ask => Asks(z, x.c, c) BY <1>2, <2>1, <2>3, <3>4 DEF Asks, Holds
    <3> QED BY <1>4, <2>1, <2>3, <3>4, <3>5 DEF z
  <2>4. CASE ~waits
    <3> DEFINE q == <<x>>
    <3>1. z = Write(y, h, c, q) BY <2>2, <2>4 DEF route_to_existing_session
    <3>2. q \in Seq(QueueItem) /\ Range(q) = {x} BY RangeFew
    <3> HIDE DEF q, z, c
    <3>6. \A a \in Range(q) : Truthful(c, a) BY <1>3, <3>2
    <3>3. /\ Going(z, e) /\ Frame(y, z, {"up", "down", "sent"})
          /\ c[1] = h => Range(z.up[c]) = Range(y.up[c]) \union {x}
      BY <2>1, <3>1, <3>2, <3>6, GoingWrite
    <3>4. ask => Asks(z, x.c, c) BY <1>2, <1>6, <2>1, <3>3 DEF Asks, Holds
    <3>5. z.out = y.out BY <3>3 DEF Frame, NetField
    <3> QED BY <1>4, <2>1, <3>3, <3>4, <3>5 DEF z, c
  <2> QED BY <2>3, <2>4
<1> QED BY <1>5, <1>6
-----------------------------------------------------------------------------
(* The acceptor reads an item: it is one that keeps the peace. *)
LEMMA GoingReadUp ==
  ASSUME NEW y, Typed(y), Going(y, NoConn), NEW c \in Conn, y.up[c] # <<>>, Head(y.up[c]).t # "verify"
  PROVE  LET x == Head(y.up[c]) IN
         /\ UpFit(c, y.out[c], y.inc[c], x)
         /\ Going(SetUp(y, c, Tail(y.up[c])), IF x.t \in {"open", "auth", "result"} THEN c ELSE NoConn)
<1> DEFINE x == Head(y.up[c])
           u == Tail(y.up[c])
           z == SetUp(y, c, u)
           f == IF x.t \in {"open", "auth", "result"} THEN c ELSE NoConn
<1>1. y.up \in [Conn -> Seq(ItemType)] BY TypedFields
<1>2. u \in Seq(ItemType) /\ Range(y.up[c]) = {x} \union Range(u) BY <1>1, RangeOf
<1>3. x.t # "verify" OBVIOUS
<1> HIDE DEF u, x
<1>4. Frame(y, z, {"up"}) /\ z.up = [y.up EXCEPT ![c] = u] BY <1>2, SetUpFields
<1> HIDE DEF z
<1>5. z.up[c] = u /\ \A d \in Conn : d # c => z.up[d] = y.up[d] BY <1>1, <1>4
<1>6. z.out = y.out /\ z.inc = y.inc /\ z.down = y.down /\ z.req = y.req /\ z.cut = y.cut
  BY <1>4 DEF Frame, NetField
<1>7. \A d \in Conn : Peace(d, z.out[d], z.inc[d], z.up[d], z.down[d]) BY <1>2, <1>5, <1>6 DEF Going, Peace
<1>8. \A d \in Conn : /\ Relays(y, z, d) /\ (d # f => Onward(y, z, d)) /\ Staid(y.out[d], z.out[d])
                      /\ (Asked(y, d) => Asked(z, d))
  BY <1>2, <1>3, <1>5, <1>6 DEF Onward, Relays, Staid, Asked
<1>9. Mutual(z) BY <1>6 DEF Going, Mutual
<1> HIDE DEF f
<1>10. Going(z, f) BY <1>6, <1>7, <1>8, <1>9, GoingOn
<1>11. UpFit(c, y.out[c], y.inc[c], x) BY <1>2 DEF Going, Peace
<1> QED BY <1>10, <1>11 DEF z, u, x, f

(* The opener reads an item: the same. *)
LEMMA GoingReadDown ==
  ASSUME NEW y, Typed(y), Going(y, NoConn), NEW c \in Conn, y.down[c] # <<>>
  PROVE  LET x == Head(y.down[c]) IN
         /\ DownFit(c, y.inc[c], x)
         /\ Going(SetDown(y, c, Tail(y.down[c])),
                  CASE x.t \in {"features", "success", "dbresult"} -> c
                    [] x.t = "verified" /\ x.c \in y.req[c[1]] -> x.c
                    [] OTHER -> NoConn)
<1> DEFINE x == Head(y.down[c])
           u == Tail(y.down[c])
           z == SetDown(y, c, u)
           f == CASE x.t \in {"features", "success", "dbresult"} -> c
                  [] x.t = "verified" /\ x.c \in y.req[c[1]] -> x.c
                  [] OTHER -> NoConn
<1>1. y.down \in [Conn -> Seq(DownItem)] BY TypedFields
<1>2. u \in Seq(DownItem) /\ Range(y.down[c]) = {x} \union Range(u) BY <1>1, RangeOf
<1> HIDE DEF u, x
<1>4. Frame(y, z, {"down"}) /\ z.down = [y.down EXCEPT ![c] = u] BY <1>2, SetDownFields
<1> HIDE DEF z
<1>5. z.down[c] = u /\ \A d \in Conn : d # c => z.down[d] = y.down[d] BY <1>1, <1>4
<1>6. z.out = y.out /\ z.inc = y.inc /\ z.up = y.up /\ z.req = y.req /\ z.cut = y.cut
  BY <1>4 DEF Frame, NetField
<1>7. \A d \in Conn : Peace(d, z.out[d], z.inc[d], z.up[d], z.down[d]) BY <1>2, <1>5, <1>6 DEF Going, Peace
<1>8. \A d \in Conn : /\ d # f => Onward(y, z, d)
                      /\ Staid(y.out[d], z.out[d]) /\ (Asked(y, d) => Asked(z, d))
  BY <1>2, <1>5, <1>6 DEF Onward, Staid, Asked
<1>9. Mutual(z) BY <1>6 DEF Going, Mutual
<1>10. ASSUME NEW a \in Conn, NEW d \in Conn, a # f, Asked(y, a), Asks(y, a, d) PROVE Asks(z, a, d)
  <2>1. CASE d # c BY <1>5, <1>6, <1>10, <2>1 DEF Asks
  <2>2. CASE d = c
    <3>1. c[1] = Remote(a[1]) BY <1>10, <2>2 DEF Asks
    <3>2. x.t = "verified" => x.c # a BY <1>10, <3>1 DEF f, Asked
    <3> QED BY <1>2, <1>5, <1>6, <1>10, <2>2, <3>2 DEF Asks
  <2> QED BY <2>1, <2>2
<1> HIDE DEF f
<1>11. Going(z, f) BY <1>6, <1>7, <1>8, <1>9, <1>10, GoingStep
<1>12. DownFit(c, y.inc[c], x) BY <1>2 DEF Going, Peace
<1> QED BY <1>11, <1>12 DEF z, u, x, f

(* db:verify at the authoritative server: the answer takes over from the   *)
(* question.                                                               *)
LEMMA GoingAnswer ==
  ASSUME NEW y, Typed(y), Going(y, NoConn), NEW c \in Conn, y.up[c] # <<>>, Head(y.up[c]).t = "verify",
         Head(y.up[c]) \in UpItem(c)
  PROVE  Going(verify_dialback(SetUp(y, c, Tail(y.up[c])), c, Head(y.up[c])), NoConn)
<1> DEFINE x == Head(y.up[c])
           u == Tail(y.up[c])
           w == SetUp(y, c, u)
           m == Item("verified", x.c, x.ok)
           q == <<m>>
           z == Down(w, c, q)
<1>1. y.up \in [Conn -> Seq(ItemType)] /\ y.down \in [Conn -> Seq(DownItem)] BY TypedFields
<1>2. u \in Seq(ItemType) /\ Range(y.up[c]) = {x} \union Range(u) BY <1>1, RangeOf
<1>3. x.t = "verify" /\ x \in UpItem(c) OBVIOUS
<1>4. verify_dialback(w, c, x) = z BY DEF verify_dialback
<1>5. m \in DownItem /\ m.t = "verified" /\ m.c = x.c /\ m.ok = x.ok
  BY <1>3 DEF UpItem, DownItem, ItemType, Unforged, Item
<1> HIDE DEF u, x, m
<1>6. q \in Seq(DownItem) /\ Range(q) = {m} BY <1>5, RangeFew
<1> HIDE DEF q
<1>7. Typed(w) /\ Frame(y, w, {"up"}) /\ w.up = [y.up EXCEPT ![c] = u] BY <1>2, SetUpFields
<1> HIDE DEF w
<1>8. w.up[c] = u /\ \A d \in Conn : d # c => w.up[d] = y.up[d] BY <1>1, <1>7
<1>9. w.out = y.out /\ w.inc = y.inc /\ w.down = y.down /\ w.req = y.req /\ w.cut = y.cut
  BY <1>7 DEF Frame, NetField
<1> DEFINE v == w.down[c] \o q
<1>10. v \in Seq(DownItem) /\ Range(v) = Range(y.down[c]) \union {m} BY <1>1, <1>6, <1>9, RangeOf
<1>11. z = SetDown(w, c, v) BY <1>9 DEF Down, SetDown, Going, Peace
<1> HIDE DEF v
<1>12. Frame(w, z, {"down"}) /\ z.down = [w.down EXCEPT ![c] = v] BY <1>7, <1>10, <1>11, SetDownFields
<1> HIDE DEF z
<1>13. z.down[c] = v /\ \A d \in Conn : d # c => z.down[d] = y.down[d] BY <1>1, <1>9, <1>12
<1>14. z.out = y.out /\ z.inc = y.inc /\ z.up = w.up /\ z.req = y.req /\ z.cut = y.cut
  BY <1>9, <1>12 DEF Frame, NetField
<1>15. \A d \in Conn : Peace(d, z.out[d], z.inc[d], z.up[d], z.down[d])
  <2>1. \A d \in Conn : Peace(d, y.out[d], y.inc[d], y.up[d], y.down[d]) BY DEF Going
  <2>2. UpFit(c, y.out[c], y.inc[c], x) BY <1>2, <2>1 DEF Peace
  <2>3. DownFit(c, y.inc[c], m) BY <1>3, <1>5, <2>2 DEF UpFit, DownFit, Truthful
  <2>4. Peace(c, z.out[c], z.inc[c], z.up[c], z.down[c]) BY <1>2, <1>8, <1>10, <1>13, <1>14, <2>1, <2>3 DEF Peace
  <2> QED BY <1>8, <1>13, <1>14, <2>1, <2>4
<1>16. \A d \in Conn : Onward(y, z, d) /\ Staid(y.out[d], z.out[d]) /\ (Asked(y, d) => Asked(z, d))
  BY <1>2, <1>3, <1>8, <1>10, <1>13, <1>14 DEF Onward, Staid, Asked
<1>17. \A a, d \in Conn : Asks(y, a, d) => Asks(z, a, d)
  <2> TAKE a, d \in Conn
  <2>1. CASE d # c BY <1>8, <1>13, <1>14, <2>1 DEF Asks
  <2>2. CASE d = c
    <3>1. Holds(y.up[c], a) => Holds(u, a) \/ x.c = a BY <1>2 DEF Holds
    <3> QED BY <1>5, <1>8, <1>10, <1>13, <1>14, <2>2, <3>1 DEF Asks
  <2> QED BY <2>1, <2>2
<1>18. Mutual(z) BY <1>14 DEF Going, Mutual
<1>19. Going(z, NoConn) BY <1>14, <1>15, <1>16, <1>17, <1>18, GoingStep
<1> QED BY <1>4, <1>19 DEF x, u, w
-----------------------------------------------------------------------------
(* A single item is written to the acceptor, *)
LEMMA GoingUpOne ==
  ASSUME NEW y, Typed(y), NEW e, Going(y, e), NEW c \in Conn, NEW x \in ItemType,
         UpFit(c, y.out[c], y.inc[c], x)
  PROVE  LET z == Up(y, c, <<x>>) IN
         Typed(z) /\ Frame(y, z, {"up"}) /\ Going(z, e) /\ x \in Range(z.up[c])
<1> DEFINE q == <<x>>
<1>1. q \in Seq(ItemType) OBVIOUS
<1>2. Range(q) = {x} BY RangeFew
<1> HIDE DEF q
<1>3. \A a \in Range(q) : UpFit(c, y.out[c], y.inc[c], a) BY <1>2
<1> SUFFICES LET z == Up(y, c, q) IN
             Typed(z) /\ Frame(y, z, {"up"}) /\ Going(z, e) /\ x \in Range(z.up[c])
  BY DEF q
<1> QED BY <1>1, <1>2, <1>3, GoingUp

(* and to the opener. *)
LEMMA GoingDownOne ==
  ASSUME NEW y, Typed(y), NEW e, Going(y, e), NEW c \in Conn, NEW x \in DownItem,
         DownFit(c, y.inc[c], x)
  PROVE  LET z == Down(y, c, <<x>>) IN
         Typed(z) /\ Frame(y, z, {"down"}) /\ Going(z, e) /\ x \in Range(z.down[c])
<1> DEFINE q == <<x>>
<1>1. q \in Seq(DownItem) OBVIOUS
<1>2. Range(q) = {x} BY RangeFew
<1> HIDE DEF q
<1>3. \A a \in Range(q) : DownFit(c, y.inc[c], a) BY <1>2
<1> DEFINE z == Down(y, c, q)
<1>4. Typed(z) /\ Frame(y, z, {"down"}) /\ Going(z, e) /\ Range(z.down[c]) = Range(y.down[c]) \union Range(q)
  BY <1>1, <1>3, GoingDown
<1> HIDE DEF z
<1>5. x \in Range(z.down[c]) BY <1>2, <1>4
<1> QED BY <1>4, <1>5 DEF z, q

(* What the opener of c, not let in yet, waits for. *)
LEMMA NotIn ==
  ASSUME NEW y, NEW e, Going(y, e), Lined(y, NoConn), NEW c \in Conn, c[2] > 0, FreeAt(y, c), LiveIn(y, c)
  PROVE  /\ y.out[c].type = "s2sout_unauthed" /\ y.inc[c].type = "s2sin_unauthed"
         /\ y.out[c].ext # "succeeded" /\ y.tab[c[1]] = c
<1>1. Good(y) BY DEF Lined
<1>2. Local(c, y.out[c], y.inc[c], y.up[c], y.down[c], Asked(y, c), y.got[c]) BY <1>1, At DEF Good
<1>3. y.inc[c].type = "s2sin_unauthed" BY DEF FreeAt, NoStep, Accepted, LiveIn
<1>4. y.out[c].conn BY <1>1, <1>3, Attached DEF Good
<1>5. y.out[c].type \notin {"none", "s2s_destroyed"} BY <1>2, <1>4 DEF Local, Going, Peace
<1>6. OrdAt(y, c, y.routed, c = NoConn) BY DEF Lined, Ord
<1>7. y.out[c].type # "s2sout" BY <1>3, <1>6 DEF OrdAt, Ready, Letting
<1>8. y.out[c] \in OutSession BY <1>1, At DEF Good
<1>9. y.out[c].type = "s2sout_unauthed" BY <1>5, <1>7, <1>8 DEF OutFields, OutSession
<1>10. y.tab[c[1]] = c BY <1>1, <1>9 DEF Good, Sound, Routes, Alive
<1> QED BY <1>1, <1>3, <1>9, <1>10, NotYet

(* streamopened: the features are on their way. *)
LEMMA GoingOpened ==
  ASSUME NEW y, Good(y), NEW c \in Conn, LiveIn(y, c), Going(y, c)
  PROVE  Going(streamopened(y, c), NoConn)
<1> DEFINE i == y.inc[c]
           offer == c[2] # 0 /\ c[1] \in y.certs /\ i.type = "s2sin_unauthed"
           v == [i EXCEPT !.ext = IF offer THEN "offered" ELSE @, !.notopen = FALSE]
           w == SetIn(y, c, v)
           x == Item("features", NoConn, offer)
           z == Down(w, c, <<x>>)
<1>1. streamopened(y, c) = z BY DEF streamopened, SetIn
<1>2. i \in InSession /\ Typed(y) /\ y.inc \in [Conn -> InSession] BY OrdTypes, TypedFields DEF Good, Sound
<1>3. /\ v \in InSession /\ v.type = i.type /\ v.closing = i.closing /\ v.ext \in {i.ext, "offered"}
      /\ offer => v.ext = "offered"
  BY <1>2 DEF InSession
<1>4. x \in DownItem /\ x.t = "features" /\ x.ok = offer
  <2>1. offer \in BOOLEAN OBVIOUS
  <2> QED BY <2>1, Items DEF Item
<1> HIDE DEF offer, x, v
<1>6. Typed(w) /\ Frame(y, w, {"inc"}) /\ w.inc = [y.inc EXCEPT ![c] = v] BY <1>2, <1>3, SetInFields
<1> HIDE DEF w
<1>7. w.inc[c] = v BY <1>2, <1>6
<1>8. Going(w, c)
  <2>1. Frame(y, w, {"inc", "tab"}) BY <1>6 DEF Frame
  <2>2. v.type \notin {"none", "s2s_destroyed"} /\ ~v.closing BY <1>3 DEF LiveIn, Going, Peace
  <2> QED BY <1>2, <1>3, <1>6, <2>1, <2>2, GoingIn
<1>9. DownFit(c, w.inc[c], x) BY <1>3, <1>4, <1>7 DEF DownFit, Truthful
<1>10. Going(z, c) /\ x \in Range(z.down[c]) BY <1>4, <1>6, <1>8, <1>9, GoingDownOne
<1> HIDE DEF z
<1>11. Moves(z, c) BY <1>4, <1>10 DEF Moves, Has
<1>12. Going(z, NoConn) BY <1>10, <1>11, GoingAll
<1> QED BY <1>1, <1>12

(* The bidi request changes nothing for the opener. *)
LEMMA GoingBidi ==
  ASSUME NEW y, Good(y), NEW c \in Conn, LiveIn(y, c), Going(y, NoConn)
  PROVE  Going(accept_bidi(y, c), NoConn)
<1> DEFINE i == y.inc[c]
           v == [i EXCEPT !.outgoing = @ \/ i.type = "s2sin_unauthed"]
           w == SetIn(y, c, v)
<1>1. accept_bidi(y, c) = w BY DEF accept_bidi, SetIn
<1>2. i \in InSession /\ Typed(y) /\ y.inc \in [Conn -> InSession] BY OrdTypes, TypedFields DEF Good, Sound
<1>3. /\ v \in InSession /\ v.type = i.type /\ v.closing = i.closing /\ v.ext = i.ext BY <1>2 DEF InSession
<1> HIDE DEF v
<1>4. Typed(w) /\ Frame(y, w, {"inc"}) /\ w.inc = [y.inc EXCEPT ![c] = v] BY <1>2, <1>3, SetInFields
<1> HIDE DEF w
<1>5. Frame(y, w, {"inc", "tab"}) BY <1>4 DEF Frame
<1>6. v.type \notin {"none", "s2s_destroyed"} /\ ~v.closing BY <1>3 DEF LiveIn, Going, Peace
<1>7. Going(w, NoConn) BY <1>2, <1>3, <1>4, <1>5, <1>6, GoingIn
<1> QED BY <1>1, <1>7

(* EXTERNAL is accepted: <success/> is on its way. *)
LEMMA GoingAccept ==
  ASSUME NEW y, NEW c \in Conn, Lined(y, NoConn), LiveIn(y, c), c[2] > 0, FreeAt(y, c), Going(y, c)
  PROVE  Going(make_authenticated_in(Down([y EXCEPT !.inc[c].ext = "succeeded"], c,
                                          <<Item("success", NoConn, TRUE)>>), c), NoConn)
<1> DEFINE i == y.inc[c]
           g == Remote(c[1])
           v == [i EXCEPT !.ext = "succeeded", !.type = "s2sin", !.authed = TRUE]
           t == IF i.outgoing /\ y.tab[g] = NoConn THEN c ELSE y.tab[g]
           w == SetTab(SetIn(y, c, v), g, t)
           x == Item("success", NoConn, TRUE)
           z == Down(w, c, <<x>>)
<1>0. Good(y) /\ Typed(y) BY DEF Lined, Good, Sound
<1>1. z = make_authenticated_in(Down([y EXCEPT !.inc[c].ext = "succeeded"], c, <<x>>), c) BY <1>0, AcceptIs
<1>2. i \in InSession /\ y.inc \in [Conn -> InSession] BY <1>0, OrdTypes, TypedFields
<1>3. v \in InSession /\ v.type = "s2sin" /\ v.closing = i.closing BY <1>2 DEF InSession
<1>4. x \in DownItem /\ x.t = "success" BY Items DEF Item
<1>6. /\ y.out[c].type = "s2sout_unauthed" /\ y.inc[c].type = "s2sin_unauthed" /\ y.out[c].ext # "succeeded"
  BY NotIn
<1> HIDE DEF v, x
<1>7. Typed(w)
  <2>1. g \in Host /\ t \in Conn \union {NoConn}
    <3>1. g \in Host /\ y.tab \in [Host -> Conn \union {NoConn}] BY <1>0, Conns, Hosts, TypedFields
    <3> QED BY <3>1
  <2>2. Typed(SetIn(y, c, v)) BY <1>0, <1>3, SetInFields
  <2> HIDE DEF t, g
  <2> QED BY <2>1, <2>2, SetTabFields
<1>8. Frame(y, w, {"inc", "tab"}) /\ w.inc = [y.inc EXCEPT ![c] = v] BY <1>0, <1>3, InTabIs
<1> HIDE DEF w
<1>9. /\ \A a \in Range(y.up[c]) : a.t # "auth"
      /\ \A a \in Range(y.down[c]) : a.t # "features"
  BY <1>6 DEF Range, FreeAt, NoStep, UpStep, DownStep
<1>10. Going(w, c)
  <2>1. v.type \notin {"none", "s2s_destroyed"} /\ ~v.closing BY <1>3 DEF LiveIn, Going, Peace
  <2> QED BY <1>2, <1>8, <1>9, <2>1, GoingIn
<1>11. DownFit(c, w.inc[c], x) BY <1>4 DEF DownFit, Truthful
<1>12. Going(z, c) /\ Frame(w, z, {"down"}) /\ x \in Range(z.down[c]) BY <1>4, <1>7, <1>10, <1>11, GoingDownOne
<1> HIDE DEF z
<1>13. z.out = y.out BY <1>8, <1>12 DEF Frame, NetField
<1>14. Moves(z, c) BY <1>4, <1>6, <1>12, <1>13 DEF Moves, Has
<1>15. Going(z, NoConn) BY <1>12, <1>14, GoingAll
<1> QED BY <1>1, <1>15 DEF x

(* The acceptor's stream is reset, which the opener does not see. *)
LEMMA GoingReset ==
  ASSUME NEW y, Good(y), NEW c \in Conn, Going(y, NoConn)
  PROVE  Going(reset_stream(y, c), NoConn)
<1> DEFINE v == [y.inc[c] EXCEPT !.notopen = TRUE]
           z == SetIn(y, c, v)
<1>2. y.inc \in [Conn -> InSession] /\ Typed(y) BY TypedFields DEF Good, Sound
<1>9. /\ v \in InSession
      /\ v.type = y.inc[c].type /\ v.ext = y.inc[c].ext /\ v.closing = y.inc[c].closing
  BY <1>2 DEF InSession
<1>10. reset_stream(y, c) = z BY DEF reset_stream, SetIn
<1> HIDE DEF v
<1>1. /\ v.type = y.inc[c].type /\ v.ext = y.inc[c].ext /\ v.closing = y.inc[c].closing
      /\ Frame(y, z, {"inc"}) /\ z.inc = [y.inc EXCEPT ![c] = v]
  BY <1>2, <1>9, SetInFields
<1> HIDE DEF z, v
<1>3. z.inc[c] = v /\ \A d \in Conn : d # c => z.inc[d] = y.inc[d] BY <1>1, <1>2
<1>4. z.up = y.up /\ z.out = y.out /\ z.down = y.down /\ z.req = y.req /\ z.cut = y.cut
  BY <1>1 DEF Frame, NetField
<1>5. \A d \in Conn : Peace(d, z.out[d], z.inc[d], z.up[d], z.down[d])
  BY <1>1, <1>3, <1>4 DEF Going, Peace, UpFit, DownFit
<1>6. \A d \in Conn : /\ Onward(y, z, d) /\ Relays(y, z, d) /\ Staid(y.out[d], z.out[d])
                      /\ (Asked(y, d) => Asked(z, d))
  BY <1>4 DEF Onward, Relays, Staid, Asked
<1>7. Mutual(z) BY <1>4 DEF Going, Mutual
<1>8. Going(z, NoConn) BY <1>4, <1>5, <1>6, <1>7, GoingOn
<1> QED BY <1>8, <1>10
-----------------------------------------------------------------------------
(* Nothing was written on a connection before it is made. *)
LEMMA LinedIdle ==
  ASSUME NEW y, Lined(y, NoConn)
  PROVE  Idle(y)
BY DEF Idle, Lined, Ord, OrdAt, Ready

(* While the opener of c waits, the other server's route is no connection  *)
(* of the same opener that was let in: the opener has one session.         *)
LEMMA OwnRoute ==
  ASSUME NEW y, NEW e, Going(y, e), Lined(y, NoConn), NEW c \in Conn, y.tab[c[1]] = c, ~Accepted(y.inc[c]),
         NEW g \in Host, g = Remote(c[1]), y.tab[g] # NoConn
  PROVE  y.tab[g][1] = g
<1> DEFINE a == y.tab[g]
<1>1. Good(y) /\ Sound(y) BY DEF Lined, Good
<1> SUFFICES ASSUME a[1] # g PROVE FALSE OBVIOUS
<1>2. a \in Conn /\ Usable(y.inc[a]) /\ a[2] > 0 /\ y.out[a].conn BY <1>1, RouteIs
<1>3. a[1] = c[1]
  <2>1. c[1] \in Host /\ a[1] \in Host BY <1>2, Conns
  <2>2. a[1] = Remote(g) /\ c[1] = Remote(g) BY <2>1, Hosts
  <2> QED BY <2>2
<1>4. y.out[a] \in OutSession /\ Local(a, y.out[a], y.inc[a], y.up[a], y.down[a], Asked(y, a), y.got[a])
  BY <1>1, <1>2, At
<1>5. Alive(y.out[a]) BY <1>2, <1>4 DEF Local, Going, Peace, OutFields, OutSession, Alive
<1>6. y.tab[a[1]] = a BY <1>1, <1>2, <1>5 DEF Sound, Routes
<1>7. a = c BY <1>3, <1>6
<1> QED BY <1>2, <1>7 DEF Accepted, Usable

(* db:result at the acceptor: the question is asked. *)
LEMMA GoingRequest ==
  ASSUME NEW y, NEW c \in Conn, Lined(y, NoConn), LiveIn(y, c), c[2] > 0 => FreeAt(y, c),
         NEW x \in UpItem(c), x.t = "result", UpFit(c, y.out[c], y.inc[c], x), Going(y, c),
         ~dialback_request(y, c, x).overflow
  PROVE  Going(dialback_request(y, c, x), NoConn)
<1> DEFINE g == Remote(c[1])
           i == y.inc[c]
           w == SetReq(y, g, y.req[g] \union {c})
           v == [i EXCEPT !.authed = FALSE]
           z == SetIn(w, c, v)
           m == Item("verify", c, x.ok)
           r == route(z, g, m)
<1>0. Good(y) /\ Typed(y) BY DEF Lined, Good, Sound
<1>1. g \in Host /\ c[2] \in Nat /\ g # c[1] BY Conns, Hosts
<1>2. c[2] > 0 => y.out[c].conn BY <1>0, Attached DEF Good, LiveIn
<1>3. Good(w) /\ Frame(y, w, {"req"}) /\ w.req = [y.req EXCEPT ![g] = y.req[g] \union {c}]
  <2>1. Good(w) /\ Frame(y, w, {"req"}) BY <1>0, <1>2, AskGood
  <2>2. y.req[g] \union {c} \in SUBSET Conn
    <3>1. y.req \in [Host -> SUBSET Conn] BY <1>0, TypedFields
    <3> QED BY <1>1, <3>1
  <2> HIDE DEF g
  <2>3. w.req = [y.req EXCEPT ![g] = y.req[g] \union {c}] BY <1>0, <1>1, <2>2, SetReqFields
  <2> QED BY <2>1, <2>3
<1>4. dialback_request(y, c, x) = r
  BY <1>0, TypedFields DEF dialback_request, SetIn, SetReq, Good, Sound, Typed, IsNet, NetField
<1>5. i \in InSession /\ i.type = "s2sin_unauthed" /\ ~Usable(i)
  <2>1. i \in InSession /\ Local(c, y.out[c], i, y.up[c], y.down[c], Asked(y, c), y.got[c]) BY <1>0, At DEF Good
  <2>2. CASE c[2] > 0 BY <2>1, <2>2 DEF FreeAt, NoStep, Accepted, Usable, LiveIn
  <2>3. CASE c[2] = 0 BY <2>1, <2>3 DEF Local, Claim, Usable, LiveIn
  <2> QED BY <1>1, <2>1, <2>2, <2>3
<1>6. v \in InSession /\ v.type = i.type /\ v.ext = i.ext /\ v.outgoing = i.outgoing /\ v.closing = i.closing
  BY <1>5 DEF InSession
<1> HIDE DEF w, v
<1>7. w.inc = y.inc /\ w.routed = y.routed /\ w.out = y.out BY <1>3 DEF Frame, NetField
<1>8. Local(c, w.out[c], i, w.up[c], w.down[c], Asked(w, c), w.got[c]) BY <1>3, <1>7, At DEF Good
<1>9. Local(c, w.out[c], v, w.up[c], w.down[c], Asked(w, c), w.got[c]) BY <1>6, <1>8, InChange
<1>10. Good(z) BY <1>3, <1>5, <1>6, <1>7, <1>9, PutIn
<1>11. Lined(w, NoConn)
  <2>1. Frame(y, w, {"req", "sent", "bounced", "overflow", "tab", "routed", "certs"}) BY <1>3 DEF Frame
  <2>2. Ord(w, y.routed, NoConn) BY <2>1, OrdSame DEF Lined
  <2> QED BY <1>3, <1>7, <2>2 DEF Lined
<1>12. Lined(z, NoConn) BY <1>2, <1>5, <1>6, <1>7, <1>10, <1>11, NoteInOrd
<1>13. m \in QueueItem /\ m.t = "verify" /\ m.c = c /\ m.ok = x.ok
  BY <1>1 DEF QueueItem, ItemType, Unforged, Item, UpItem
<1> HIDE DEF m
<1>14. Going(w, c)
  <2>1. Frame(y, w, {"req", "tab", "routed", "sent", "bounced", "got", "dropped", "early", "overflow", "certs"})
    BY <1>3 DEF Frame
  <2>2. \A d \in Conn : Asked(y, d) => Asked(w, d)
    <3>1. y.req \in [Host -> SUBSET Conn] BY <1>0, TypedFields
    <3> QED BY <1>1, <1>3, <3>1 DEF Asked
  <2> QED BY <2>1, <2>2, GoingAsk
<1>15. Frame(w, z, {"inc"}) /\ z.inc = [w.inc EXCEPT ![c] = v] BY <1>3, <1>6, SetInFields DEF Good, Sound
<1> HIDE DEF z
<1>16. Going(z, c)
  <2>1. Frame(w, z, {"inc", "tab"}) BY <1>15 DEF Frame
  <2>2. v.type \notin {"none", "s2s_destroyed"} /\ ~v.closing BY <1>5, <1>6 DEF Going, Peace
  <2>3. w.inc \in [Conn -> InSession] BY <1>3, TypedFields DEF Good, Sound
  <2> QED BY <1>6, <1>7, <1>14, <1>15, <2>1, <2>2, <2>3, GoingIn
<1>17. z.out = y.out /\ z.tab = y.tab /\ z.req = w.req BY <1>3, <1>15 DEF Frame, NetField
<1>18. m.t = "verify" /\ m.c[2] > 0 => m.ok /\ z.out[m.c].key
  BY <1>13, <1>17 DEF UpFit, Truthful
<1>19. ~r.overflow BY <1>4
<1>20. Sound(z) /\ Idle(z) BY <1>10, <1>12, LinedIdle DEF Good
<1> HIDE DEF g
<1>21. /\ Going(r, c) /\ r.req = z.req
       /\ \A d \in Conn : d[1] # g => r.out[d] = z.out[d]
       /\ m.t = "verify" /\ m.c[2] > 0 /\ g = Remote(m.c[1]) /\ (z.tab[g] # NoConn => z.tab[g][1] = g)
            => \E d \in Conn : Asks(r, m.c, d)
  BY <1>1, <1>13, <1>16, <1>18, <1>19, <1>20, GoingRoute
<1> HIDE DEF r
<1>22. ASSUME c[2] > 0 PROVE Moves(r, c)
  <2>1. y.tab[c[1]] = c /\ ~Accepted(y.inc[c]) /\ y.out[c].type = "s2sout_unauthed"
    BY <1>22, NotIn DEF FreeAt, NoStep
  <2>2. y.tab[g] # NoConn => y.tab[g][1] = g BY <1>1, <2>1, OwnRoute DEF g
  <2>3. \E d \in Conn : Asks(r, c, d) BY <1>13, <1>17, <1>21, <1>22, <2>2 DEF g
  <2>4. Asked(r, c)
    <3>1. y.req \in [Host -> SUBSET Conn] BY <1>0, TypedFields
    <3> QED BY <1>1, <1>3, <1>17, <1>21, <3>1 DEF Asked, g
  <2>5. r.out[c] = y.out[c] /\ y.out[c].key BY <1>1, <1>17, <1>21, <1>22 DEF UpFit
  <2> HIDE DEF Asks, Asked, Has
  <2> QED BY <2>1, <2>3, <2>4, <2>5 DEF Moves
<1>23. Going(r, NoConn) BY <1>21, <1>22, GoingAll
<1> QED BY <1>4, <1>23

(* A stanza taken changes nothing else. *)
LEMMA GoingTake ==
  ASSUME NEW y, Typed(y), NEW c \in Conn, NEW v, Going(y, NoConn)
  PROVE  Going(SetGot(y, c, v), NoConn)
<1> DEFINE z == SetGot(y, c, v)
<1>1. Frame(y, z, {"req", "tab", "routed", "sent", "bounced", "got", "dropped", "early", "overflow", "certs"}) /\ z.req = y.req
  BY DEF SetGot, Frame, NetField, Typed, IsNet
<1> HIDE DEF z
<1>2. Going(z, NoConn) BY <1>1, GoingAsk DEF Asked
<1> QED BY <1>2 DEF z
-----------------------------------------------------------------------------
(* mark_connected: what was queued is on the connection. *)
LEMMA GoingMark ==
  ASSUME NEW y, Sound(y), NEW c \in Conn, NEW e, Going(y, e), y.out[c].type = "s2sout", e = c \/ e = NoConn
  PROVE  Going(mark_connected(y, c), NoConn)
<1> DEFINE z == mark_connected(y, c)
           o == y.out[c]
           v == [o EXCEPT !.sendq = <<>>]
           q == o.sendq
<1>1. /\ Only(y, z, c) /\ Frame(y, z, {"up", "out", "sent"}) /\ z.out[c] = v
      /\ z.up[c] = IF c \in y.cut THEN y.up[c] ELSE y.up[c] \o q
  BY MarkIs
<1>2. o \in OutSession /\ y.up[c] \in Seq(ItemType) /\ q \in Seq(ItemType) /\ q \in Seq(QueueItem)
  BY OrdTypes DEF Sound
<1>3. v.conn = o.conn /\ v.type = o.type /\ v.key = o.key /\ v.sendq = <<>> BY <1>2 DEF OutFields, OutSession
<1> HIDE DEF z, v
<1>4. Range(z.up[c]) = Range(y.up[c]) \union Range(q) /\ Range(<<>>) = {}
  <2>1. z.up[c] = y.up[c] \o q BY <1>1 DEF Going
  <2> QED BY <1>2, <2>1, RangeOf, RangeFew
<1>5. /\ z.inc = y.inc /\ z.down = y.down /\ z.req = y.req /\ z.cut = y.cut
      /\ \A d \in Conn : d # c => z.out[d] = y.out[d] /\ z.up[d] = y.up[d]
  BY <1>1 DEF Frame, NetField, Only
<1>6. \A x \in Range(q) : x.t \in {"msg", "verify"} BY <1>2 DEF QueueItem, Range
<1>7. \A d \in Conn : Peace(d, z.out[d], z.inc[d], z.up[d], z.down[d])
  <2>1. \A d \in Conn : Peace(d, y.out[d], y.inc[d], y.up[d], y.down[d]) BY DEF Going
  <2>2. \A x \in Range(q) : UpFit(c, v, y.inc[c], x) BY <1>6, <2>1 DEF Peace, UpFit
  <2>3. \A x \in Range(y.up[c]) : UpFit(c, v, y.inc[c], x) BY <1>3, <2>1 DEF Peace, UpFit
  <2>4. Peace(c, v, y.inc[c], z.up[c], y.down[c]) BY <1>3, <1>4, <2>1, <2>2, <2>3 DEF Peace
  <2> QED BY <1>1, <1>5, <2>1, <2>4
<1>8. \A d \in Conn : /\ Onward(y, z, d) /\ Relays(y, z, d) /\ Staid(y.out[d], z.out[d])
                      /\ (Asked(y, d) => Asked(z, d))
  BY <1>1, <1>3, <1>4, <1>5 DEF Onward, Relays, Staid, Asked
<1>9. Mutual(z)
  <2>1. \A d \in Conn : /\ y.out[d].key => z.out[d].key
                        /\ \A x \in Range(z.out[d].sendq) : x.t = "verify" => x \in Range(y.out[d].sendq)
    BY <1>1, <1>3, <1>4, <1>5
  <2> QED BY <2>1, MutualLess DEF Going
<1>10. Going(z, e) BY <1>5, <1>7, <1>8, <1>9, GoingOn
<1>11. Moves(z, c) BY <1>1, <1>3 DEF Moves
<1>12. Going(z, NoConn) BY <1>10, <1>11, GoingAll
<1> QED BY <1>12 DEF z

(* The bidi request leaves the opener's state otherwise as it is. *)
LEMMA GoingAskBidi ==
  ASSUME NEW y, Good(y), NEW c \in Conn, NEW e, Going(y, e)
  PROVE  LET z == request_bidi(y, c) IN
         /\ Going(z, e) /\ z.inc = y.inc /\ z.out[c].type = y.out[c].type
         /\ y.out[c].type = "s2sout" => z = y
<1> DEFINE o == y.out[c]
           v == [o EXCEPT !.incoming = TRUE]
           w == SetOut(y, c, v)
           x == Item("bidi", NoConn, TRUE)
           z == Up(w, c, <<x>>)
<1>1. request_bidi(y, c) = IF Bidi /\ o.type = "s2sout_unauthed" THEN z ELSE y BY DEF request_bidi, SetOut
<1>2. Typed(y) /\ o \in OutSession BY OrdTypes DEF Good, Sound
<1>3. /\ v \in OutSession /\ v.conn = o.conn /\ v.sendq = o.sendq /\ v.type = o.type /\ v.key = o.key
  BY <1>2 DEF OutFields, OutSession
<1>4. x \in ItemType /\ x.t = "bidi" BY Items DEF Item, UpItem
<1> HIDE DEF v, x
<1>5. Typed(w) /\ Frame(y, w, {"out"}) /\ Going(w, e) /\ w.out[c] = v
  <2>1. v.type # "s2s_destroyed" BY <1>3 DEF Going, Peace
  <2> QED BY <1>2, <1>3, <2>1, GoingOut
<1> HIDE DEF w
<1>6. UpFit(c, w.out[c], w.inc[c], x) BY <1>4 DEF UpFit, Truthful
<1>7. Going(z, e) /\ Frame(w, z, {"up"}) BY <1>4, <1>5, <1>6, GoingUpOne
<1> HIDE DEF z
<1>8. z.inc = y.inc /\ z.out[c] = v BY <1>5, <1>7 DEF Frame, NetField
<1> QED BY <1>1, <1>3, <1>7, <1>8

(* initiate_dialback: the key is on its way. *)
LEMMA GoingInitiate ==
  ASSUME NEW y, Good(y), NEW c \in Conn, Going(y, c), y.out[c].type # "s2sout"
  PROVE  Going(initiate_dialback(y, c), NoConn)
<1> DEFINE o == y.out[c]
           v == [o EXCEPT !.key = TRUE]
           w == SetOut(y, c, v)
           x == Item("result", c, TRUE)
           z == Up(w, c, <<x>>)
<1>1. initiate_dialback(y, c) = z BY DEF initiate_dialback, SetOut
<1>2. Typed(y) /\ o \in OutSession BY OrdTypes DEF Good, Sound
<1>3. /\ v \in OutSession /\ v.conn = o.conn /\ v.sendq = o.sendq /\ v.type = o.type /\ v.key
  BY <1>2 DEF OutFields, OutSession
<1>4. x \in ItemType /\ x.t = "result" /\ x.ok BY DEF Item, ItemType
<1> HIDE DEF v, x
<1>5. Typed(w) /\ Frame(y, w, {"out"}) /\ Going(w, c) /\ w.out[c] = v
  <2>1. v.type # "s2s_destroyed" BY <1>3 DEF Going, Peace
  <2> QED BY <1>2, <1>3, <2>1, GoingOut
<1> HIDE DEF w
<1>6. UpFit(c, w.out[c], w.inc[c], x) BY <1>3, <1>4, <1>5 DEF UpFit, Truthful
<1>7. Going(z, c) /\ Frame(w, z, {"up"}) /\ x \in Range(z.up[c]) BY <1>4, <1>5, <1>6, GoingUpOne
<1> HIDE DEF z
<1>8. z.out[c] = v BY <1>5, <1>7 DEF Frame, NetField
<1>9. Moves(z, c) BY <1>3, <1>4, <1>7, <1>8 DEF Moves, Has
<1>10. Going(z, NoConn) BY <1>7, <1>9, GoingAll
<1> QED BY <1>1, <1>10

(* EXTERNAL is tried: <auth/> is on its way. *)
LEMMA GoingExternal ==
  ASSUME NEW y, Good(y), NEW c \in Conn, Going(y, c), Alive(y.out[c]), y.out[c].type # "s2sout",
         y.inc[c].ext = "offered"
  PROVE  Going(start_external(y, c), NoConn)
<1> DEFINE o == y.out[c]
           v == [o EXCEPT !.ext = "attempting"]
           w == SetOut(y, c, v)
           x == Item("auth", NoConn, TRUE)
           z == Up(w, c, <<x>>)
<1>1. start_external(y, c) = z BY DEF start_external, SetOut
<1>2. Typed(y) /\ o \in OutSession BY OrdTypes DEF Good, Sound
<1>11. o.ext # "succeeded"
  <2>1. Local(c, o, y.inc[c], y.up[c], y.down[c], Asked(y, c), y.got[c]) /\ c[2] > 0 BY At, Opener DEF Good
  <2> QED BY <2>1 DEF Local, Phase, Alive
<1>3. /\ v \in OutSession /\ v.conn = o.conn /\ v.sendq = o.sendq /\ v.type = o.type /\ v.key = o.key
  BY <1>2, <1>11 DEF OutFields, OutSession
<1>4. x \in ItemType /\ x.t = "auth" BY Items DEF Item, UpItem
<1> HIDE DEF v, x
<1>5. Typed(w) /\ Frame(y, w, {"out"}) /\ Going(w, c) /\ w.out[c] = v
  <2>1. v.type # "s2s_destroyed" BY <1>3 DEF Going, Peace
  <2> QED BY <1>2, <1>3, <2>1, GoingOut
<1> HIDE DEF w
<1>6. UpFit(c, w.out[c], w.inc[c], x) BY <1>4, <1>5 DEF UpFit, Truthful, Frame, NetField
<1>7. Going(z, c) /\ Frame(w, z, {"up"}) /\ x \in Range(z.up[c]) BY <1>4, <1>5, <1>6, GoingUpOne
<1> HIDE DEF z
<1>8. z.out[c] = v BY <1>5, <1>7 DEF Frame, NetField
<1>9. Moves(z, c) BY <1>3, <1>4, <1>7, <1>8 DEF Moves, Has
<1>10. Going(z, NoConn) BY <1>7, <1>9, GoingAll
<1> QED BY <1>1, <1>10

(* The stream header comes. *)
LEMMA GoingReopened ==
  ASSUME NEW y, Good(y), NEW c \in Conn, Going(y, c), Alive(y.out[c])
  PROVE  LET z == reopened(y, c) IN
         /\ Good(z) /\ Going(z, c) /\ z.inc = y.inc /\ z.out[c].type = y.out[c].type
<1> DEFINE v == [y.out[c] EXCEPT !.reset = FALSE]
           z == reopened(y, c)
<1>1. z = SetOut(y, c, v) BY DEF reopened, SetOut
<1>2. y.out[c] \in OutSession /\ Typed(y) BY OrdTypes DEF Good, Sound
<1>3. /\ v \in OutSession /\ v.conn = y.out[c].conn /\ v.sendq = y.out[c].sendq
      /\ v.type = y.out[c].type /\ v.key = y.out[c].key
  BY <1>2 DEF OutFields, OutSession
<1>4. Good(z) /\ Frame(y, z, {"out"}) BY ReopenedGood
<1> HIDE DEF v, z
<1>5. v.type # "s2s_destroyed" BY <1>3 DEF Going, Peace
<1>6. Going(z, c) /\ z.out[c] = v BY <1>1, <1>2, <1>3, <1>5, GoingOut
<1>7. z.inc = y.inc BY <1>4 DEF Frame, NetField
<1>8. Good(z) /\ Going(z, c) /\ z.inc = y.inc /\ z.out[c].type = y.out[c].type BY <1>3, <1>4, <1>6, <1>7
<1> QED BY <1>8 DEF z

(* The features hooks: one of the three. *)
LEMMA GoingFeatures ==
  ASSUME NEW y, Good(y), NEW c \in Conn, Going(y, c), Alive(y.out[c]), NEW offered \in BOOLEAN,
         offered => y.inc[c].ext = "offered"
  PROVE  Going(features(y, c, offered), NoConn)
<1> DEFINE z == request_bidi(y, c)
<1>1. /\ Going(z, c) /\ z.inc = y.inc /\ z.out[c].type = y.out[c].type
      /\ y.out[c].type = "s2sout" => z = y
  BY GoingAskBidi
<1>2. Good(z) BY BidiGood
<1>3. \/ y.out[c].type = "s2sout" /\ features(y, c, offered) = mark_connected(z, c)
      \/ y.out[c].type # "s2sout" /\ offered /\ features(y, c, offered) = start_external(z, c)
      \/ y.out[c].type # "s2sout" /\ features(y, c, offered) = initiate_dialback(z, c)
  BY DEF features
<1> HIDE DEF z
<1>4. Alive(z.out[c]) BY <1>1 DEF Alive
<1> QED BY <1>1, <1>2, <1>3, <1>4, GoingMark, GoingExternal, GoingInitiate DEF Good

(* <success/>: the stream is opened again. *)
LEMMA GoingSuccess ==
  ASSUME NEW y, Good(y), NEW c \in Conn, Going(y, c)
  PROVE  Going(success(y, c), NoConn)
<1> DEFINE o == y.out[c]
           v == [o EXCEPT !.ext = "succeeded", !.reset = TRUE, !.type = "s2sout", !.authed = o.incoming]
           w == SetOut(y, c, v)
           x == Item("open", NoConn, TRUE)
           z == Up(w, c, <<x>>)
<1>1. success(y, c) = z BY SuccessIs
<1>2. Typed(y) /\ o \in OutSession BY OrdTypes DEF Good, Sound
<1>3. /\ v \in OutSession /\ v.conn = o.conn /\ v.sendq = o.sendq /\ v.type = "s2sout" /\ v.key = o.key
  BY <1>2 DEF OutFields, OutSession
<1>4. x \in ItemType /\ x.t = "open" BY Items DEF Item, UpItem
<1> HIDE DEF v, x
<1>5. Typed(w) /\ Frame(y, w, {"out"}) /\ Going(w, c) /\ w.out[c] = v BY <1>2, <1>3, GoingOut
<1> HIDE DEF w
<1>6. UpFit(c, w.out[c], w.inc[c], x) BY <1>4 DEF UpFit, Truthful
<1>7. Going(z, c) /\ Frame(w, z, {"up"}) /\ x \in Range(z.up[c]) BY <1>4, <1>5, <1>6, GoingUpOne
<1> HIDE DEF z
<1>8. z.out[c] = v BY <1>5, <1>7 DEF Frame, NetField
<1>9. Moves(z, c) BY <1>3, <1>4, <1>7, <1>8 DEF Moves, Has
<1>10. Going(z, NoConn) BY <1>7, <1>9, GoingAll
<1> QED BY <1>1, <1>10

(* The opener is authenticated by dialback: its queue is on the way, or    *)
(* the stream is being opened again already.                               *)
LEMMA GoingAuthed ==
  ASSUME NEW y, Good(y), NEW c \in Conn, Alive(y.out[c]), Going(y, IF y.out[c].type = "s2sout" THEN NoConn ELSE c)
  PROVE  Going(make_authenticated_out(y, c), NoConn)
<1> DEFINE o == y.out[c]
           v == [o EXCEPT !.type = "s2sout", !.authed = o.incoming]
           w == SetOut(y, c, v)
           e == IF o.type = "s2sout" THEN NoConn ELSE c
<1>1. make_authenticated_out(y, c) = IF o.ext = "succeeded" THEN w ELSE mark_connected(w, c)
  <2>1. IsNet(y) /\ y.out \in [Conn -> OutSession] BY TypedFields DEF Good, Sound, Typed
  <2>2. [y EXCEPT !.out[c].type = "s2sout", !.out[c].authed = y.out[c].incoming] = w
    BY <2>1 DEF SetOut, IsNet, NetField, OutSession
  <2> HIDE DEF w
  <2> QED BY <2>2 DEF make_authenticated_out
<1>2. /\ Typed(y) /\ Sound(y) /\ o \in OutSession
      /\ Local(c, o, y.inc[c], y.up[c], y.down[c], Asked(y, c), y.got[c])
  BY OrdTypes, At DEF Good, Sound
<1>3. /\ v \in OutSession /\ v.conn = o.conn /\ v.sendq = o.sendq /\ v.type = "s2sout" /\ v.key = o.key
      /\ v.ext = o.ext
  BY <1>2 DEF OutFields, OutSession
<1> HIDE DEF v
<1>4. e = c \/ v.type = o.type BY <1>3
<1>5. Going(y, e) OBVIOUS
<1>6. (e = c \/ e = NoConn) /\ (o.ext = "succeeded" => e = NoConn)
  <2>1. CASE o.ext # "succeeded" BY <2>1
  <2>2. CASE o.ext = "succeeded"
    <3>1. c[2] > 0 => o.type = "s2sout" BY <1>2, <2>2 DEF Local, Phase, Alive
    <3>2. c[2] > 0 BY Opener
    <3> QED BY <3>1, <3>2
  <2> QED BY <2>1, <2>2
<1> HIDE DEF e
<1>7. Typed(w) /\ Frame(y, w, {"out"}) /\ Going(w, e) /\ w.out[c] = v BY <1>2, <1>3, <1>4, <1>5, GoingOut
<1>8. Sound(w)
  <2>1. Alive(v) = Alive(o) /\ Alive(v) BY <1>3 DEF Alive
  <2>2. Len(v.sendq) <= SendqSize BY <1>2, <1>3 DEF Local
  <2>3. Local(c, v, y.inc[c], y.up[c], y.down[c], Asked(y, c), y.got[c]) BY <1>2, <1>3, <2>1, <2>2, OutChange
  <2> QED BY <1>2, <1>3, <2>1, <2>3, SoundOut
<1> HIDE DEF w
<1>9. Going(mark_connected(w, c), NoConn) BY <1>3, <1>6, <1>7, <1>8, GoingMark
<1> QED BY <1>1, <1>6, <1>7, <1>9
-----------------------------------------------------------------------------
(* The answer of the authoritative server lets the opener of x.c in, who   *)
(* is told so.                                                             *)
LEMMA GoingVerified ==
  ASSUME NEW y, Lined(y, NoConn), NEW h \in Host, NEW x \in DownItem, x.t \in {"verified", "verify"},
         NEW e \in {x.c, NoConn}, Going(y, e), e = NoConn \/ x.c \in y.req[h],
         x.c[2] > 0 => x.ok
  PROVE  Going(dialback_verified(y, h, x), NoConn)
<1> DEFINE c == x.c
           g == Remote(c[1])
           w == SetReq(y, g, y.req[g] \ {c})
           a == make_authenticated_in(w, c)
           m == Item("dbresult", c, x.ok)
<1>0. Good(y) BY DEF Lined
<1>1. c \in Conn /\ x.ok \in BOOLEAN /\ (c[2] = 0 => ~x.ok) BY DEF DownItem, ItemType, Unforged
<1>2. ASSUME c \notin y.req[h] PROVE Going(dialback_verified(y, h, x), NoConn)
  <2>1. dialback_verified(y, h, x) = y BY <1>2 DEF dialback_verified
  <2> QED BY <1>2, <2>1
<1> SUFFICES ASSUME c \in y.req[h] PROVE Going(dialback_verified(y, h, x), NoConn) BY <1>2
<1>3. c[1] \in Host /\ c[2] \in Nat /\ (e = NoConn \/ e = c) /\ (c[2] > 0 => x.ok) BY <1>1, Conns
<1>4. x.t \in {"verified", "verify"} /\ c \in y.req[h] OBVIOUS
<1> HIDE DEF c
<1>5. h = g
  <2>1. c[1] # h BY <1>0, <1>1, <1>4, At DEF Good
  <2> QED BY <1>3, <2>1, Hosts
<1>6. Asked(y, c) BY <1>4, <1>5 DEF Asked
<1>7. Good(w) /\ Frame(y, w, {"req"}) /\ (c[2] > 0 => FreeAt(w, c)) BY <1>0, <1>1, <1>6, AnswerGood
<1>8. w.req = [y.req EXCEPT ![g] = y.req[g] \ {c}]
  <2>1. Typed(y) /\ g \in Host /\ y.req[g] \ {c} \in SUBSET Conn
    <3>1. Typed(y) BY <1>0 DEF Good, Sound
    <3>2. y.req \in [Host -> SUBSET Conn] BY <3>1, TypedFields
    <3> QED BY <1>3, <3>1, <3>2, Hosts
  <2> DEFINE S == y.req[g] \ {c}
  <2>2. S \in SUBSET Conn /\ w = SetReq(y, g, S) BY <2>1
  <2> HIDE DEF g, S, w
  <2>3. w.req = [y.req EXCEPT ![g] = S] BY <2>1, <2>2, SetReqFields
  <2> QED BY <2>3 DEF S
<1>9. dialback_verified(y, h, x) =
        IF x.ok THEN IF LiveIn(a, c) THEN Down(a, c, <<m>>) ELSE a
                ELSE IF LiveIn(w, c) THEN Down(w, c, <<m>>) ELSE w
  BY <1>4, <1>5 DEF dialback_verified, SetReq, c
<1> HIDE DEF w
<1>10. Typed(w) /\ IsNet(w) BY <1>7 DEF Good, Sound, Typed
<1>11. Going(w, c)
  <2>1. Frame(y, w, {"req", "tab", "routed", "sent", "bounced", "got", "dropped", "early", "overflow", "certs"})
    BY <1>7 DEF Frame
  <2>2. \A d \in Conn : d # c /\ Asked(y, d) => Asked(w, d)
    <3>1. y.req \in [Host -> SUBSET Conn] BY <1>0, TypedFields DEF Good, Sound
    <3> QED BY <1>1, <1>8, <3>1 DEF Asked
  <2>3. e # NoConn => c = e BY <1>3
  <2> QED BY <2>1, <2>2, <2>3, GoingAsk
<1>12. m \in DownItem /\ m.t = "dbresult" /\ m.ok = x.ok BY <1>1, Items DEF Item
<1> HIDE DEF m
<1>13. ASSUME c[2] = 0 PROVE Going(dialback_verified(y, h, x), NoConn)
  <2>1. DownFit(c, w.inc[c], m) BY <1>12, <1>13 DEF DownFit, Truthful
  <2>2. Going(Down(w, c, <<m>>), c) BY <1>1, <1>10, <1>11, <1>12, <2>1, GoingDownOne
  <2>3. Going(dialback_verified(y, h, x), c) BY <1>1, <1>9, <1>11, <1>13, <2>2
  <2> QED BY <1>13, <2>3, GoingAll
<1>14. ASSUME c[2] > 0 PROVE Going(dialback_verified(y, h, x), NoConn)
  <2> DEFINE i == w.inc[c]
             v == [i EXCEPT !.type = "s2sin", !.authed = TRUE]
             t == IF i.outgoing /\ w.tab[g] = NoConn THEN c ELSE w.tab[g]
             b == SetTab(SetIn(w, c, v), g, t)
             z == Down(b, c, <<m>>)
  <2>1. Lined(w, NoConn)
    <3>1. Frame(y, w, {"req", "sent", "bounced", "overflow", "tab", "routed", "certs"}) BY <1>7 DEF Frame
    <3>2. w.routed = y.routed BY <1>7 DEF Frame, NetField
    <3>3. Ord(w, y.routed, NoConn) BY <3>1, OrdSame DEF Lined
    <3> QED BY <1>7, <3>2, <3>3 DEF Lined
  <2>2. LiveIn(w, c)
    <3>1. w.inc = y.inc /\ w.out = y.out BY <1>7 DEF Frame, NetField
    <3>2. Local(c, y.out[c], y.inc[c], y.up[c], y.down[c], Asked(y, c), y.got[c]) BY <1>0, <1>1, At DEF Good
    <3>3. y.out[c].conn BY <1>6, <1>14, <3>2 DEF Local, Phase
    <3>4. i.type \notin {"none", "s2s_destroyed"} BY <1>1, <1>11, <3>1, <3>3 DEF Going, Peace
    <3>5. i \in InSession BY <1>1, <1>10, OrdTypes
    <3> QED BY <3>4, <3>5 DEF LiveIn, InSession
  <2>3. w.out[c].type = "s2sout_unauthed" /\ i.type = "s2sin_unauthed" BY <1>1, <1>7, <1>11, <1>14, <2>1, <2>2, NotIn
  <2>4. a = b BY <2>2, ZenonT(60) DEF make_authenticated_in, SetTab, SetIn
  <2>5. i \in InSession /\ w.inc \in [Conn -> InSession] BY <1>1, <1>10, OrdTypes, TypedFields
  <2>6. v \in InSession /\ v.type = "s2sin" /\ v.ext = i.ext /\ v.closing = i.closing BY <2>5 DEF InSession
  <2>7. Typed(b)
    <3>1. Good(a) BY <1>1, <1>7, <1>14, AuthInGood
    <3> QED BY <2>4, <3>1 DEF Good, Sound
  <2> HIDE DEF v, t, g
  <2>8. Frame(w, b, {"inc", "tab"}) /\ b.inc = [w.inc EXCEPT ![c] = v] BY <1>1, <1>10, <2>6, InTabIs
  <2> HIDE DEF b
  <2>9. LiveIn(b, c) BY <1>1, <2>5, <2>6, <2>8 DEF LiveIn
  <2>10. dialback_verified(y, h, x) = z BY <1>3, <1>9, <1>14, <2>4, <2>9
  <2>11. Going(b, c)
    <3>1. v.type \notin {"none", "s2s_destroyed"} /\ ~v.closing BY <1>1, <1>11, <2>6 DEF Going, Peace
    <3> QED BY <1>1, <1>11, <2>5, <2>6, <2>8, <3>1, GoingIn
  <2>12. DownFit(c, b.inc[c], m) BY <1>3, <1>12, <1>14 DEF DownFit, Truthful
  <2>13. Going(z, c) /\ Frame(b, z, {"down"}) /\ m \in Range(z.down[c])
    BY <1>1, <1>12, <2>7, <2>11, <2>12, GoingDownOne
  <2> HIDE DEF z
  <2>14. z.out = w.out BY <2>8, <2>13 DEF Frame, NetField
  <2>15. Moves(z, c) BY <1>12, <2>3, <2>13, <2>14 DEF Moves, Has
  <2>16. Going(z, NoConn) BY <2>13, <2>15, GoingAll
  <2> QED BY <2>10, <2>16
<1> QED BY <1>3, <1>13, <1>14

(* Every action keeps both servers going: the acceptor reads, *)
LEMMA RecvInGoing ==
  ASSUME Lined(net, NoConn), Going(net, NoConn), NEW c \in Conn, RecvIn(c), breaks' = breaks, breaks \in Nat,
         ~net'.overflow
  PROVE  Going(net', NoConn)
<1> DEFINE x == Head(net.up[c])
           v == Tail(net.up[c])
           y == SetUp(net, c, v)
           f == IF x.t \in {"open", "auth", "result"} THEN c ELSE NoConn
<1>0. Good(net) /\ Typed(net) BY DEF Lined, Good, Sound
<1>1. net.up[c] # <<>> /\ LiveIn(net, c) BY DEF RecvIn
<1>2. Local(c, net.out[c], net.inc[c], net.up[c], net.down[c], Asked(net, c), net.got[c]) BY <1>0, At DEF Good
<1>3. /\ x \in UpItem(c)
      /\ Local(c, net.out[c], net.inc[c], v, net.down[c], Asked(net, c), net.got[c])
      /\ c[2] > 0 /\ UpStep(x, net.out[c]) => NoStep(net.out[c], net.inc[c], v, net.down[c], Asked(net, c))
  BY <1>1, <1>2, UpTail
<1>4. net' = CASE x.t = "open" -> streamopened(y, c)
               [] x.t = "bidi" -> accept_bidi(y, c)
               [] x.t = "auth" -> s2s_external_auth(y, c, TRUE)
               [] x.t = "result" -> dialback_request(y, c, x)
               [] x.t = "verify" -> verify_dialback(y, c, x)
               [] x.t = "msg" -> Receive(y, Remote(c[1]), c, y.inc[c], close_in(y, c), x.n)
               [] x.t = "end" -> close_in(y, c)
  <2>1. PICK accept \in BOOLEAN :
          /\ breaks' = IF accept THEN breaks ELSE breaks + 1
          /\ net' = CASE x.t = "open" -> streamopened(y, c)
                      [] x.t = "bidi" -> accept_bidi(y, c)
                      [] x.t = "auth" -> s2s_external_auth(y, c, accept)
                      [] x.t = "result" -> dialback_request(y, c, x)
                      [] x.t = "verify" -> verify_dialback(y, c, x)
                      [] x.t = "msg" -> Receive(y, Remote(c[1]), c, y.inc[c], close_in(y, c), x.n)
                      [] x.t = "end" -> close_in(y, c)
    BY ONLY RecvIn(c) DEF RecvIn, SetUp
  <2> HIDE DEF x, y
  <2>2. breaks + 1 # breaks OBVIOUS
  <2>3. accept = TRUE BY <2>1, <2>2, Zenon
  <2> QED BY <2>1, <2>3
<1>5. Good(y) /\ Frame(net, y, {"up"}) /\ y.up[c] = v BY <1>0, <1>3, PutUp
<1>6. /\ Lined(y, NoConn)
      /\ c[2] > 0 /\ x.t = "msg" => Letting(net.inc[c])
  BY <1>1, <1>5, ReadUpOrd
<1>7. x.t # "verify" => UpFit(c, net.out[c], net.inc[c], x) /\ Going(y, f) BY <1>0, <1>1, GoingReadUp
<1>8. x.t = "verify" => Going(verify_dialback(y, c, x), NoConn) BY <1>0, <1>1, <1>3, GoingAnswer
<1> HIDE DEF x, v, y
<1>9. y.out = net.out /\ y.inc = net.inc /\ y.down = net.down /\ y.req = net.req BY <1>5 DEF Frame, NetField
<1>10. LiveIn(y, c) BY <1>1, <1>9 DEF LiveIn
<1>11. c[2] > 0 /\ UpStep(x, y.out[c]) => FreeAt(y, c) BY <1>3, <1>5, <1>9 DEF FreeAt, Asked
<1>12. x \in ItemType /\ x.t \in {"open", "bidi", "auth", "result", "verify", "msg", "end"} BY <1>3 DEF UpItem
<1>13. CASE x.t = "open" BY <1>4, <1>5, <1>7, <1>10, <1>13, GoingOpened
<1>14. CASE x.t = "bidi" BY <1>4, <1>5, <1>7, <1>10, <1>14, GoingBidi
<1>15. CASE x.t = "auth"
  <2>1. y.inc[c].ext = "offered" /\ Going(y, c) BY <1>7, <1>9, <1>15 DEF UpFit
  <2>2. c[2] > 0
    <3>1. c[2] # 0 BY <1>2, <1>9, <2>1 DEF Local, Claim
    <3>2. c[2] \in Nat BY Conns
    <3> QED BY <3>1, <3>2
  <2>3. FreeAt(y, c) BY <1>11, <1>15, <2>2 DEF UpStep
  <2> DEFINE a == make_authenticated_in(Down([y EXCEPT !.inc[c].ext = "succeeded"], c,
                                             <<Item("success", NoConn, TRUE)>>), c)
  <2>4. net' = reset_stream(a, c) BY <1>4, <1>15, <2>1 DEF s2s_external_auth
  <2>5. Good(a) BY <1>5, <1>10, <2>2, <2>3, AcceptGood
  <2>6. Going(a, NoConn) BY <1>6, <1>10, <2>1, <2>2, <2>3, GoingAccept
  <2> HIDE DEF a
  <2> QED BY <2>4, <2>5, <2>6, GoingReset
<1>16. CASE x.t = "result"
  <2>1. c[2] > 0 => FreeAt(y, c) BY <1>11, <1>16 DEF UpStep
  <2>2. net' = dialback_request(y, c, x) BY <1>4, <1>16
  <2>3. UpFit(c, y.out[c], y.inc[c], x) /\ Going(y, c) BY <1>7, <1>9, <1>16
  <2>4. ~dialback_request(y, c, x).overflow BY <2>2
  <2> QED BY <1>3, <1>6, <1>10, <1>16, <2>1, <2>2, <2>3, <2>4, GoingRequest
<1>17. CASE x.t = "verify" BY <1>4, <1>8, <1>17
<1>18. CASE x.t = "msg"
  <2>1. net' = Receive(y, Remote(c[1]), c, y.inc[c], close_in(y, c), x.n) BY <1>4, <1>18
  <2>2. Going(y, NoConn) BY <1>7, <1>18
  <2>3. c[2] \in Nat BY Conns
  <2>4. CASE c[2] > 0
    <3>1. y.inc[c].type = "s2sin" /\ y.inc[c].authed BY <1>6, <1>9, <1>10, <1>18, <2>4 DEF Letting, LiveIn
    <3>2. net' = SetGot(y, c, [y.got[c] EXCEPT ![Remote(c[1])] = Append(@, x.n)])
      BY <2>1, <3>1 DEF Receive, SetGot
    <3> QED BY <1>5, <2>2, <3>2, GoingTake DEF Good, Sound
  <2>5. CASE c[2] = 0
    <3>1. y.inc[c].type = "s2sin_unauthed" BY <1>5, <1>10, <2>5, Opener DEF LiveIn
    <3> DEFINE w == y.dropped \/ c[2] > 0
               z == SetDropped(y, w)
    <3>2. net' = z BY <2>1, <3>1 DEF Receive, SetDropped
    <3>3. /\ Frame(y, z, {"req", "tab", "routed", "sent", "bounced", "got", "dropped", "early", "overflow", "certs"})
          /\ z.req = y.req
      BY <1>5 DEF SetDropped, Frame, NetField, Good, Sound, Typed, IsNet
    <3> HIDE DEF z
    <3>4. Going(z, NoConn) BY <2>2, <3>3, GoingAsk DEF Asked
    <3> QED BY <3>2, <3>4
  <2> QED BY <2>3, <2>4, <2>5
<1>19. CASE x.t = "end" BY <1>7, <1>19 DEF UpFit
<1> QED BY <1>12, <1>13, <1>14, <1>15, <1>16, <1>17, <1>18, <1>19

(* the opener reads, *)
LEMMA RecvOutGoing ==
  ASSUME Lined(net, NoConn), Going(net, NoConn), NEW c \in Conn, RecvOut(c), net'.early = {}
  PROVE  Going(net', NoConn)
<1> DEFINE x == Head(net.down[c])
           v == Tail(net.down[c])
           y == SetDown(net, c, v)
           f == CASE x.t \in {"features", "success", "dbresult"} -> c
                  [] x.t = "verified" /\ x.c \in net.req[c[1]] -> x.c
                  [] OTHER -> NoConn
<1>0. Good(net) /\ Typed(net) BY DEF Lined, Good, Sound
<1>1. net.down[c] # <<>> /\ Alive(net.out[c]) /\ c[2] > 0 BY <1>0, Opener DEF RecvOut
<1>2. /\ Local(c, net.out[c], net.inc[c], net.up[c], net.down[c], Asked(net, c), net.got[c])
      /\ net.down[c] \in Seq(DownItem)
  BY <1>0, At DEF Good
<1>3. /\ x \in DownItem /\ v \in Seq(DownItem) /\ Range(net.down[c]) = {x} \union Range(v)
      /\ Local(c, net.out[c], net.inc[c], net.up[c], v, Asked(net, c), net.got[c])
      /\ net.out[c].conn
  <2>1. Range(net.down[c]) = {x} \union Range(v) BY <1>1, <1>2, RangeOf
  <2> QED BY <1>1, <1>2, <2>1, DownTail
<1> DEFINE met == y.out[c].reset /\ x.t \notin {"features", "end"}
<1>10. PICK again \in BOOLEAN :
        net' = IF met THEN no_stream(y, c, x, again)
               ELSE CASE x.t = "features" -> features(reopened(y, c), c, x.ok)
                    [] x.t = "success" -> success(y, c)
                    [] x.t = "failure" -> failure(y, c)
                    [] x.t = "dbresult" -> dialback_result(y, c, x, again)
                    [] x.t \in {"verified", "verify"} -> dialback_verified(y, c[1], x)
                    [] x.t = "msg" -> Receive(y, c[1], c, y.out[c], close_out(y, c, again), x.n)
                    [] x.t = "end" -> close_out(y, c, again)
  BY DEF RecvOut, SetDown
<1>5. Good(y) /\ Frame(net, y, {"down"}) /\ y.down[c] = v
  <2> HIDE DEF v
  <2> QED BY ONLY c \in Conn, <1>0, <1>3, PutDown
<1>6. /\ Lined(y, IF Pass(x) THEN c ELSE NoConn)
      /\ x.t = "msg" => net.out[c].type \in {"s2sout", "s2s_destroyed"} /\ net.out[c].incoming
  BY <1>1, <1>5, ReadDownOrd
<1>7. DownFit(c, net.inc[c], x) /\ Going(y, f) BY <1>0, <1>1, GoingReadDown
<1> HIDE DEF x, v, y
<1>4. net' = CASE x.t = "features" -> features(reopened(y, c), c, x.ok)
               [] x.t = "success" -> success(y, c)
               [] x.t = "failure" -> failure(y, c)
               [] x.t = "dbresult" -> dialback_result(y, c, x, again)
               [] x.t \in {"verified", "verify"} -> dialback_verified(y, c[1], x)
               [] x.t = "msg" -> Receive(y, c[1], c, y.out[c], close_out(y, c, again), x.n)
               [] x.t = "end" -> close_out(y, c, again)
  <2>1. ASSUME met PROVE FALSE
    <3>1. net' = no_stream(y, c, x, again) BY <1>10, <2>1
    <3>2. no_stream(y, c, x, again).early = close_out(y, c, again).early \union {Early(y, c, x)}
      BY <1>3, <1>5, <2>1, NoStreamIs
    <3>3. \A S, a : S \union {a} # {} OBVIOUS
    <3> QED BY <3>1, <3>2, <3>3
  <2> HIDE DEF met
  <2> QED BY <1>10, <2>1
<1>8. y.out = net.out /\ y.inc = net.inc /\ y.up = net.up /\ y.req = net.req BY <1>5 DEF Frame, NetField
<1>9. Alive(y.out[c]) /\ y.out[c].conn BY <1>1, <1>3, <1>8
<1>11. /\ x \in ItemType
       /\ x.t \in {"features", "success", "failure", "dbresult", "verified", "verify", "msg", "end"}
  BY <1>3 DEF DownItem
<1>12. x.t \notin {"success", "dbresult"} => Lined(y, NoConn) BY <1>6 DEF Pass
<1>13. CASE x.t = "features"
  <2>1. x.ok \in BOOLEAN BY <1>11 DEF ItemType
  <2>2. x.ok => y.inc[c].ext = "offered" BY <1>7, <1>8, <1>13 DEF DownFit
  <2> DEFINE w == reopened(y, c)
  <2>4. Good(w) /\ Going(w, c) /\ w.inc = y.inc /\ w.out[c].type = y.out[c].type
    BY <1>5, <1>7, <1>9, <1>13, GoingReopened
  <2> HIDE DEF w
  <2>5. Alive(w.out[c]) BY <1>9, <2>4 DEF Alive
  <2>3. Going(features(w, c, x.ok), NoConn) BY <2>1, <2>2, <2>4, <2>5, GoingFeatures
  <2> QED BY <1>4, <1>13, <2>3 DEF w
<1>14. CASE x.t = "success"
  <2>1. Going(success(y, c), NoConn) BY <1>5, <1>7, <1>14, GoingSuccess
  <2> QED BY <1>4, <1>14, <2>1
<1>15. CASE x.t \in {"failure", "end"} BY <1>7, <1>15 DEF DownFit
<1>16. CASE x.t = "dbresult"
  <2>1. x.ok /\ y.tab[c[1]] = c
    <3>1. y.tab[c[1]] = c BY <1>5, <1>9 DEF Good, Sound, Routes
    <3>2. x.ok BY <1>1, <1>7, <1>16 DEF DownFit, Truthful
    <3> QED BY <3>1, <3>2
  <2>2. dialback_result(y, c, x, again) = make_authenticated_out(y, c) BY <2>1 DEF dialback_result
  <2>3. Going(y, c) BY <1>7, <1>16
  <2>4. ASSUME y.out[c].type = "s2sout" PROVE Going(y, NoConn)
    <3>1. Moves(net, c) BY <1>1, <1>3, Conns DEF Going
    <3>2. Moves(y, c) BY <1>3, <1>5, <1>8, <1>16, <2>4, <3>1 DEF Moves, Has
    <3> QED BY <2>3, <3>2, GoingAll
  <2>5. Going(y, IF y.out[c].type = "s2sout" THEN NoConn ELSE c) BY <2>3, <2>4
  <2>6. Going(make_authenticated_out(y, c), NoConn) BY <1>5, <1>9, <2>5, GoingAuthed
  <2> QED BY <1>4, <1>16, <2>2, <2>6
<1>17. CASE x.t \in {"verified", "verify"}
  <2>1. c[1] \in Host BY Conns
  <2>2. f \in {x.c, NoConn} /\ (f = NoConn \/ x.c \in y.req[c[1]]) BY <1>8, <1>17
  <2>3. x.c[2] > 0 => x.ok BY <1>7, <1>17 DEF DownFit, Truthful
  <2>4. Lined(y, NoConn) BY <1>12, <1>17
  <2> HIDE DEF f
  <2>5. Going(dialback_verified(y, c[1], x), NoConn) BY <1>3, <1>7, <1>17, <2>1, <2>2, <2>3, <2>4, GoingVerified
  <2> QED BY <1>4, <1>17, <2>5
<1>18. CASE x.t = "msg"
  <2>1. net' = Receive(y, c[1], c, y.out[c], close_out(y, c, again), x.n) BY <1>4, <1>18
  <2>2. Going(y, NoConn) BY <1>7, <1>18
  <2>3. y.out[c].type = "s2sout" /\ y.out[c].incoming BY <1>6, <1>8, <1>9, <1>18 DEF Alive
  <2>4. Lined(y, NoConn) BY <1>12, <1>18
  <2>5. y.out[c].authed
    <3>1. OrdAt(y, c, y.routed, c = NoConn) BY <1>1, <2>4 DEF Lined, Ord
    <3> QED BY <2>3, <3>1 DEF OrdAt, Ready
  <2>6. net' = SetGot(y, c, [y.got[c] EXCEPT ![c[1]] = Append(@, x.n)]) BY <2>1, <2>3, <2>5 DEF Receive, SetGot
  <2> QED BY <1>5, <2>2, <2>6, GoingTake DEF Good, Sound
<1> QED BY <1>11, <1>13, <1>14, <1>15, <1>16, <1>17, <1>18

(* the connection is made, *)
LEMMA ConnectGoing ==
  ASSUME Lined(net, NoConn), Going(net, NoConn), NEW c \in Conn, Connect(c)
  PROVE  Going(net', NoConn)
<1> DEFINE o == net.out[c]
           v == [o EXCEPT !.conn = TRUE]
           x == Item("open", NoConn, TRUE)
           u == <<x>>
<1>0. Good(net) BY DEF Lined
<1>1. Alive(o) /\ c[2] > 0 /\ ~o.conn BY <1>0, Opener DEF Connect
<1>2. Typed(net) /\ IsNet(net) BY <1>0 DEF Good, Sound, Typed
<1>3. net.out \in [Conn -> OutSession] /\ net.inc \in [Conn -> InSession] /\ net.up \in [Conn -> Seq(ItemType)]
  BY <1>2, TypedFields
<1>4. /\ Frame(net, net', {"out", "inc", "up"}) /\ net'.out = [net.out EXCEPT ![c] = v]
      /\ net'.inc = [net.inc EXCEPT ![c] = NewIn] /\ net'.up = [net.up EXCEPT ![c] = u]
  BY <1>2, <1>3 DEF Connect, Frame, IsNet, NetField
<1>5. v.type = o.type /\ v.conn /\ v.sendq = o.sendq /\ v.key = o.key BY <1>3 DEF OutFields, OutSession
<1>6. NewIn.type = "s2sin_unauthed" /\ ~NewIn.closing BY DEF NewIn
<1>7. x.t = "open" BY DEF Item
<1>8. Range(u) = {x} /\ Range(<<>>) = {} BY RangeFew
<1> HIDE DEF v, u, x
<1>9. /\ net'.out[c] = v /\ net'.inc[c] = NewIn /\ net'.up[c] = u
      /\ \A d \in Conn : d # c => /\ net'.out[d] = net.out[d] /\ net'.inc[d] = net.inc[d]
                                  /\ net'.up[d] = net.up[d]
  BY <1>3, <1>4
<1>10. net'.down = net.down /\ net'.cut = net.cut /\ net'.req = net.req BY <1>4 DEF Frame, NetField
<1>11. net.up[c] = <<>> /\ net.down[c] = <<>>
  <2>1. Local(c, o, net.inc[c], net.up[c], net.down[c], Asked(net, c), net.got[c]) BY <1>0, At DEF Good
  <2> QED BY <1>1, <2>1, LinedIdle DEF Idle, Local, Phase
<1>12. \A d \in Conn : Peace(d, net'.out[d], net'.inc[d], net'.up[d], net'.down[d])
  <2>1. \A d \in Conn : Peace(d, net.out[d], net.inc[d], net.up[d], net.down[d]) BY DEF Going
  <2>2. UpFit(c, v, NewIn, x) BY <1>7 DEF UpFit, Truthful
  <2>3. Peace(c, v, NewIn, u, <<>>) BY <1>1, <1>5, <1>6, <1>8, <2>1, <2>2 DEF Peace, Alive
  <2> QED BY <1>9, <1>10, <1>11, <2>1, <2>3
<1>13. \A d \in Conn : /\ Onward(net, net', d) /\ Relays(net, net', d)
                       /\ (d # c => Staid(net.out[d], net'.out[d])) /\ (Asked(net, d) => Asked(net', d))
  BY <1>5, <1>8, <1>9, <1>10, <1>11 DEF Onward, Relays, Staid, Asked
<1>14. Mutual(net')
  <2>1. \A d \in Conn : net'.out[d].sendq = net.out[d].sendq /\ (net.out[d].key => net'.out[d].key) BY <1>5, <1>9
  <2> QED BY <2>1, MutualLess DEF Going
<1>15. Going(net', c)
  <2>1. NoConn # NoConn => c = NoConn OBVIOUS
  <2> QED BY <1>10, <1>12, <1>13, <1>14, <2>1, GoingOn
<1>16. Moves(net', c) BY <1>7, <1>8, <1>9 DEF Moves, Has
<1> QED BY <1>15, <1>16, GoingAll

(* somebody else connects, *)
LEMMA ForgeGoing ==
  ASSUME Lined(net, NoConn), Going(net, NoConn), NEW c \in Conn, Forge(c)
  PROVE  Going(net', NoConn)
<1> DEFINE x1 == Item("open", NoConn, TRUE)
           x2 == Item("result", c, FALSE)
           x3 == Msg(0)
           u == <<x1, x2, x3>>
<1>0. Good(net) /\ c[2] = 0 BY DEF Lined, Forge
<1>1. Typed(net) /\ IsNet(net) BY <1>0 DEF Good, Sound, Typed
<1>2. net.inc \in [Conn -> InSession] /\ net.up \in [Conn -> Seq(ItemType)] BY <1>1, TypedFields
<1>3. /\ Frame(net, net', {"inc", "up"}) /\ net'.inc = [net.inc EXCEPT ![c] = NewIn]
      /\ net'.up = [net.up EXCEPT ![c] = u]
  BY <1>1 DEF Forge, Frame, IsNet, NetField
<1>4. NewIn.type = "s2sin_unauthed" /\ ~NewIn.closing BY DEF NewIn
<1>5. x1.t = "open" /\ x2.t = "result" /\ x3.t = "msg" BY DEF Item, Msg
<1> HIDE DEF x1, x2, x3
<1>6. \A x \in Range(u) : x \in {x1, x2, x3}
  <2>1. DOMAIN u = 1..3 /\ u[1] = x1 /\ u[2] = x2 /\ u[3] = x3 OBVIOUS
  <2> HIDE DEF u
  <2>2. \A k \in 1..3 : k = 1 \/ k = 2 \/ k = 3 OBVIOUS
  <2> QED BY <2>1, <2>2 DEF Range
<1> HIDE DEF u
<1>7. net'.inc[c] = NewIn /\ net'.up[c] = u /\ \A d \in Conn : d # c => net'.inc[d] = net.inc[d] /\ net'.up[d] = net.up[d]
  BY <1>2, <1>3
<1>8. net'.out = net.out /\ net'.down = net.down /\ net'.cut = net.cut /\ net'.req = net.req
  BY <1>3 DEF Frame, NetField
<1>9. net.inc[c].type = "none" BY DEF Forge
<1>10. \A d \in Conn : Peace(d, net'.out[d], net'.inc[d], net'.up[d], net'.down[d])
  <2>1. \A d \in Conn : Peace(d, net.out[d], net.inc[d], net.up[d], net.down[d]) BY DEF Going
  <2>2. \A x \in Range(u) : UpFit(c, net.out[c], NewIn, x)
    BY <1>0, <1>5, <1>6 DEF UpFit, Truthful
  <2>3. \A x \in Range(net.down[c]) : DownFit(c, NewIn, x)
    <3>1. \A x \in Range(net.down[c]) : x.t # "features" \/ ~x.ok
      <4>1. net.inc[c].ext # "offered"
        <5>1. Local(c, net.out[c], net.inc[c], net.up[c], net.down[c], Asked(net, c), net.got[c]) BY <1>0, At DEF Good
        <5> QED BY <1>0, <5>1 DEF Local, Claim
      <4> QED BY <2>1, <4>1 DEF Peace, DownFit
    <3> QED BY <2>1, <3>1 DEF Peace, DownFit
  <2>4. Peace(c, net.out[c], NewIn, u, net.down[c]) BY <1>4, <2>1, <2>2, <2>3 DEF Peace
  <2> QED BY <1>7, <1>8, <2>1, <2>4
<1>11. \A d \in Conn : /\ d # c => Onward(net, net', d)
                       /\ Staid(net.out[d], net'.out[d]) /\ (Asked(net, d) => Asked(net', d))
  BY <1>7, <1>8 DEF Onward, Staid, Asked
<1>12. \A a, d \in Conn : Asks(net, a, d) => Asks(net', a, d) BY <1>0, <1>7, <1>8 DEF Asks
<1>13. Mutual(net') BY <1>8 DEF Going, Mutual
<1>14. Going(net', c)
  <2>1. NoConn # NoConn => c = NoConn OBVIOUS
  <2> QED BY <1>8, <1>10, <1>11, <1>12, <1>13, <2>1, GoingStep
<1> QED BY <1>0, <1>14, GoingAll

(* and a user sends. *)
LEMMA UserGoing ==
  ASSUME Lined(net, NoConn), Going(net, NoConn), NEW h \in Host, ~SendStanza(net, h).overflow
  PROVE  Going(SendStanza(net, h), NoConn)
<1> DEFINE n == net.routed[h] + 1
           y == SetRouted(net, h, n)
           x == Msg(n)
           z == route(y, h, x)
<1>0. Good(net) /\ Sound(net) /\ Typed(net) BY DEF Lined, Good, Sound
<1>1. SendStanza(net, h) = z BY DEF SendStanza, SetRouted
<1>2. n \in Nat
  <2>1. net.routed \in [Host -> Nat] BY <1>0, TypedFields
  <2> QED BY <2>1
<1>3. x \in QueueItem /\ x.t = "msg" BY <1>2, Items DEF Msg
<1> HIDE DEF n, x
<1>4. Typed(y) /\ Frame(net, y, {"routed"}) BY <1>0, <1>2, SetRoutedFields
<1>5. ~z.overflow BY <1>1
<1> HIDE DEF y
<1>6. Sound(y)
  <2>1. Frame(net, y, {"cut", "routed", "sent", "bounced", "dropped", "early", "overflow"}) BY <1>4 DEF Frame
  <2> QED BY <1>0, <1>4, <2>1, SameFields
<1>7. Idle(y) BY <1>4, LinedIdle DEF Idle, Frame, NetField
<1>8. Going(y, NoConn)
  <2>1. Frame(net, y, {"req", "tab", "routed", "sent", "bounced", "got", "dropped", "early", "overflow", "certs"})
    BY <1>4 DEF Frame
  <2>2. \A d \in Conn : Asked(net, d) => Asked(y, d) BY <1>4 DEF Asked, Frame, NetField
  <2> QED BY <2>1, <2>2, GoingAsk
<1>9. Going(z, NoConn)
  <2>1. x.t = "verify" /\ x.c[2] > 0 => x.ok /\ y.out[x.c].key BY <1>3
  <2> QED BY <1>3, <1>5, <1>6, <1>7, <1>8, <2>1, GoingRoute
<1> QED BY <1>1, <1>9

(* At the start there is nothing to wait for. *)
LEMMA InitGoing ==
  ASSUME S2sInit
  PROVE  Going(net, NoConn)
<1> DEFINE o == [NewOut(Msg(0)) EXCEPT !.type = "none", !.sendq = <<>>]
           i == [NewIn EXCEPT !.type = "none"]
<1>1. /\ net.out = [c \in Conn |-> o] /\ net.inc = [c \in Conn |-> i]
      /\ net.up = [c \in Conn |-> <<>>] /\ net.down = [c \in Conn |-> <<>>] /\ net.cut = {}
  BY DEF S2sInit
<1>2. o.type = "none" /\ o.conn = FALSE /\ o.sendq = <<>> BY DEF NewOut
<1>3. i.type = "none" /\ i.closing = FALSE BY DEF NewIn
<1> HIDE DEF o, i
<1>4. Range(<<>>) = {} BY RangeFew
<1>5. ASSUME NEW c \in Conn
      PROVE  net.out[c] = o /\ net.inc[c] = i /\ net.up[c] = <<>> /\ net.down[c] = <<>>
  BY <1>1
<1>6. \A c \in Conn : Peace(c, net.out[c], net.inc[c], net.up[c], net.down[c])
  BY <1>2, <1>3, <1>4, <1>5 DEF Peace
<1>7. Mutual(net) BY <1>2, <1>4, <1>5 DEF Mutual, Holds
<1> QED BY <1>1, <1>2, <1>5, <1>6, <1>7 DEF Going

(* A queue that was full, and a stanza that came into a stream being       *)
(* reset, stay on the record: no handler clears overflow or early.         *)
Spilt(y) == \/ "overflow" \in DOMAIN y /\ y.overflow = TRUE
            \/ "early" \in DOMAIN y /\ y.early # {}

(* Nothing of the kind is on the record. *)
Smooth(y) == ~y.overflow /\ y.early = {}

LEMMA SpiltWrite ==
  ASSUME NEW y, Spilt(y), NEW c, NEW s, NEW h
  PROVE  /\ Spilt(Up(y, c, s)) /\ Spilt(Down(y, c, s)) /\ Spilt(Write(y, h, c, s))
         /\ Spilt(bounce_sendq(y, h, s))
<1>1. \A z : Spilt(z) => Spilt(Up(z, c, s)) /\ Spilt(Down(z, c, s)) BY DEF Spilt, Up, Down
<1>2. Spilt([y EXCEPT !.sent[h] = @ \union Numbers(s)]) BY DEF Spilt
<1>3. Spilt(Write(y, h, c, s)) BY <1>1, <1>2 DEF Write
<1>4. Spilt(bounce_sendq(y, h, s)) BY DEF Spilt, bounce_sendq
<1> QED BY <1>1, <1>3, <1>4

LEMMA SpiltRoute ==
  ASSUME NEW y, Spilt(y), NEW h, NEW x
  PROVE  Spilt(route(y, h, x)) /\ Spilt(SendStanza(y, h))
<1>1. ASSUME NEW z, Spilt(z), NEW i PROVE Spilt(route(z, h, i))
  <2>1. Spilt(Write(z, h, z.tab[h], <<i>>)) BY <1>1, SpiltWrite
  <2>2. Spilt(Refuse(z, h, i))
    <3>1. Spilt(bounce_sendq(z, h, <<i>>)) BY <1>1, SpiltWrite
    <3> QED BY <3>1 DEF Refuse, Spilt
  <2>3. Spilt(Enqueue(z, z.tab[h], i)) BY <1>1 DEF Spilt, Enqueue
  <2>4. Spilt(route_to_existing_session(z, h, i)) BY <2>1, <2>2, <2>3 DEF route_to_existing_session, Enqueue
  <2>5. Spilt(bounce_sendq([z EXCEPT !.tab[h] = NoConn], h, <<i>>))
    <3>1. Spilt([z EXCEPT !.tab[h] = NoConn]) BY <1>1 DEF Spilt
    <3> QED BY <3>1, SpiltWrite
  <2>6. \A c : Spilt([z EXCEPT !.out[c] = NewOut(i), !.tab[h] = c]) BY <1>1 DEF Spilt
  <2>7. Spilt(route_to_new_session(z, h, i)) BY <2>5, <2>6 DEF route_to_new_session
  <2> QED BY <2>4, <2>7 DEF route
<1>2. Spilt([y EXCEPT !.routed[h] = @ + 1]) BY DEF Spilt
<1> QED BY <1>1, <1>2 DEF SendStanza

LEMMA SpiltClose ==
  ASSUME NEW y, Spilt(y), NEW c, NEW again
  PROVE  /\ Spilt(destroy_out(y, c, again)) /\ Spilt(destroy_in(y, c))
         /\ Spilt(close_out(y, c, again)) /\ Spilt(close_in(y, c))
<1>1. ASSUME NEW z, Spilt(z) PROVE Spilt(destroy_out(z, c, again)) /\ Spilt(destroy_in(z, c))
  <2> DEFINE e == [z EXCEPT !.tab[c[1]] = NoConn, !.out[c] = RestingOut(@)]
             w == bounce_sendq(e, c[1], z.out[c].sendq)
  <2>1. Spilt(e) BY <1>1 DEF Spilt
  <2> HIDE DEF e
  <2>2. Spilt(w) BY <2>1, SpiltWrite
  <2> HIDE DEF w
  <2>3. Spilt(SendStanza(w, c[1])) BY <2>2, SpiltRoute
  <2>4. destroy_out(z, c, again) \in {z, w, SendStanza(w, c[1])}
    <3> USE DEF e, w
    <3>1. \/ ~LiveOut(z, c)
          \/ LiveOut(z, c) /\ again /\ Numbers(z.out[c].sendq) # {} /\ z.routed[c[1]] < MaxMsg[c[1]]
          \/ LiveOut(z, c) /\ ~(again /\ Numbers(z.out[c].sendq) # {} /\ z.routed[c[1]] < MaxMsg[c[1]])
      OBVIOUS
    <3> QED BY <3>1 DEF destroy_out
  <2>5. Spilt(destroy_in(z, c)) BY <1>1 DEF Spilt, destroy_in
  <2> QED BY <1>1, <2>2, <2>3, <2>4, <2>5
<1>2. Spilt(close_out(y, c, again))
  <2>1. Spilt(Up(y, c, <<Item("end", NoConn, TRUE)>>)) BY SpiltWrite
  <2>2. Spilt(destroy_out(Up(y, c, <<Item("end", NoConn, TRUE)>>), c, again)) BY <1>1, <2>1
  <2>3. \A z : Spilt(z) => Spilt([z EXCEPT !.cut = @ \union {c}, !.down[c] = <<>>]) BY DEF Spilt
  <2> QED BY <2>2, <2>3 DEF close_out
<1>3. Spilt(close_in(y, c))
  <2>1. Spilt(Down(y, c, <<Item("end", NoConn, TRUE)>>)) BY SpiltWrite
  <2>2. Spilt(destroy_in(Down(y, c, <<Item("end", NoConn, TRUE)>>), c)) BY <1>1, <2>1
  <2>3. \A z : Spilt(z) => Spilt([z EXCEPT !.cut = @ \union {c}, !.up[c] = <<>>]) BY DEF Spilt
  <2> QED BY <2>2, <2>3 DEF close_in
<1> QED BY <1>1, <1>2, <1>3

LEMMA SpiltOpener ==
  ASSUME NEW y, Spilt(y), NEW c, NEW b, NEW x, NEW again
  PROVE  /\ Spilt(make_authenticated_out(y, c)) /\ Spilt(features(y, c, b)) /\ Spilt(success(y, c))
         /\ Spilt(failure(y, c)) /\ Spilt(dialback_result(y, c, x, again))
         /\ Spilt(reopened(y, c)) /\ Spilt(no_stream(y, c, x, again))
<1>1. \A z : Spilt(z) => Spilt(mark_connected(z, c))
  <2>1. \A z : Spilt(z) => Spilt(Write(z, c[1], c, z.out[c].sendq)) BY SpiltWrite
  <2>2. \A z : Spilt(z) => Spilt([z EXCEPT !.out[c].sendq = <<>>]) BY DEF Spilt
  <2> QED BY <2>1, <2>2 DEF mark_connected
<1>2. ASSUME NEW z, Spilt(z) PROVE Spilt(make_authenticated_out(z, c))
  <2>1. Spilt([z EXCEPT !.out[c].type = "s2sout", !.out[c].authed = z.out[c].incoming]) BY <1>2 DEF Spilt
  <2> QED BY <1>1, <2>1 DEF make_authenticated_out
<1>3. ASSUME NEW z, Spilt(z) PROVE Spilt(initiate_dialback(z, c))
  <2>1. Spilt([z EXCEPT !.out[c].key = TRUE]) BY <1>3 DEF Spilt
  <2> QED BY <2>1, SpiltWrite DEF initiate_dialback
<1>4. Spilt(request_bidi(y, c))
  <2>1. Spilt([y EXCEPT !.out[c].incoming = TRUE]) BY DEF Spilt
  <2> QED BY <2>1, SpiltWrite DEF request_bidi
<1>5. \A z : Spilt(z) => Spilt(start_external(z, c))
  <2>1. \A z : Spilt(z) => Spilt([z EXCEPT !.out[c].ext = "attempting"]) BY DEF Spilt
  <2> QED BY <2>1, SpiltWrite DEF start_external
<1>6. Spilt(features(y, c, b))
  <2>1. \/ y.out[c].type = "s2sout"
        \/ y.out[c].type # "s2sout" /\ b
        \/ y.out[c].type # "s2sout" /\ ~b
    OBVIOUS
  <2>2. features(y, c, b) \in {mark_connected(request_bidi(y, c), c), start_external(request_bidi(y, c), c),
                               initiate_dialback(request_bidi(y, c), c)}
    BY <2>1 DEF features
  <2> QED BY <1>1, <1>3, <1>4, <1>5, <2>2
<1>7. Spilt(success(y, c))
  <2>1. Spilt([y EXCEPT !.out[c].ext = "succeeded", !.out[c].reset = TRUE]) BY DEF Spilt
  <2>2. Spilt(Up([y EXCEPT !.out[c].ext = "succeeded", !.out[c].reset = TRUE], c,
                 <<Item("open", NoConn, TRUE)>>))
    BY <2>1, SpiltWrite
  <2> QED BY <1>2, <2>2 DEF success
<1>8. Spilt(failure(y, c))
  <2>1. Spilt([y EXCEPT !.out[c].ext = "failed"]) BY DEF Spilt
  <2> QED BY <1>3, <2>1 DEF failure
<1>9. Spilt(dialback_result(y, c, x, again)) BY <1>2, SpiltClose DEF dialback_result
<1>10. Spilt(reopened(y, c)) BY DEF reopened, Spilt
<1>11. Spilt(no_stream(y, c, x, again))
  <2>1. Spilt(close_out(y, c, again)) BY SpiltClose
  <2>2. ASSUME NEW z, Spilt(z), NEW a PROVE Spilt([z EXCEPT !.early = @ \union {a}]) BY <2>2 DEF Spilt
  <2> QED BY <2>1, <2>2 DEF no_stream
<1> QED BY <1>2, <1>6, <1>7, <1>8, <1>9, <1>10, <1>11

LEMMA SpiltAcceptor ==
  ASSUME NEW y, Spilt(y), NEW c, NEW b, NEW x, NEW h
  PROVE  /\ Spilt(streamopened(y, c)) /\ Spilt(accept_bidi(y, c)) /\ Spilt(s2s_external_auth(y, c, b))
         /\ Spilt(dialback_request(y, c, x)) /\ Spilt(verify_dialback(y, c, x)) /\ Spilt(dialback_verified(y, h, x))
<1>1. ASSUME NEW z, Spilt(z), NEW d PROVE Spilt(make_authenticated_in(z, d))
  BY <1>1 DEF make_authenticated_in, Spilt
<1>2. Spilt(streamopened(y, c))
  <2>1. \A v : Spilt([y EXCEPT !.inc[c].ext = v, !.inc[c].notopen = FALSE]) BY DEF Spilt
  <2>2. \A v, s : Spilt(Down([y EXCEPT !.inc[c].ext = v, !.inc[c].notopen = FALSE], c, s))
    BY <2>1, SpiltWrite
  <2> QED BY <2>2 DEF streamopened
<1>3. Spilt(accept_bidi(y, c)) BY DEF accept_bidi, Spilt
<1>4. Spilt(s2s_external_auth(y, c, b))
  <2>1. Spilt(close_in(y, c)) BY SpiltClose
  <2>2. Spilt([y EXCEPT !.inc[c].ext = "succeeded"]) BY DEF Spilt
  <2>3. \A s : Spilt(Down([y EXCEPT !.inc[c].ext = "succeeded"], c, s)) /\ Spilt(Down(y, c, s)) BY <2>2, SpiltWrite
  <2>4. \A z : Spilt(z) => Spilt(reset_stream(z, c)) BY DEF reset_stream, Spilt
  <2> QED BY <1>1, <2>1, <2>3, <2>4 DEF s2s_external_auth
<1>5. Spilt(dialback_request(y, c, x))
  <2>1. \A g : Spilt([y EXCEPT !.req[g] = @ \union {c}, !.inc[c].authed = FALSE]) BY DEF Spilt
  <2> QED BY <2>1, SpiltRoute DEF dialback_request
<1>6. Spilt(verify_dialback(y, c, x)) BY SpiltWrite DEF verify_dialback
<1>7. Spilt(dialback_verified(y, h, x))
  <2> DEFINE w == [y EXCEPT !.req[h] = @ \ {x.c}]
             z == IF x.ok THEN make_authenticated_in(w, x.c) ELSE w
  <2>1. Spilt(w) BY DEF Spilt
  <2>2. Spilt(z) BY <1>1, <2>1
  <2> HIDE DEF z
  <2>3. \A s : Spilt(Down(z, x.c, s)) BY <2>2, SpiltWrite
  <2> QED BY <2>2, <2>3 DEF dialback_verified, z
<1> QED BY <1>2, <1>3, <1>4, <1>5, <1>6, <1>7

LEMMA SpiltReceive ==
  ASSUME NEW y, Spilt(y), NEW z, Spilt(z), NEW r, NEW c, NEW s, NEW n
  PROVE  Spilt(Receive(y, r, c, s, z, n))
<1>1. \A v : Spilt([y EXCEPT !.got[c][r] = Append(@, n)]) /\ Spilt([z EXCEPT !.dropped = TRUE])
             /\ Spilt([y EXCEPT !.dropped = v])
  BY DEF Spilt
<1>2. \/ s.type \in {"s2sin", "s2sout"} /\ s.authed
      \/ s.type \in {"s2sin", "s2sout"} /\ ~s.authed
      \/ s.type \notin {"s2sin", "s2sout"}
  OBVIOUS
<1> QED BY <1>1, <1>2 DEF Receive

(* Unless something fails, a queue is full or something comes into a       *)
(* stream being reset, every step leaves both servers on their way.        *)
LEMMA NextGoing ==
  ASSUME Lined(net, NoConn), Going(net, NoConn), S2sNext, breaks = 0, breaks' = 0, ~net'.overflow,
         net'.early = {}
  PROVE  Going(net', NoConn)
<1>0. Good(net) /\ net.cut = {} /\ breaks \in Nat BY DEF Lined, Going
<1>1. ASSUME NEW h \in Host, UserSends(h) PROVE Going(net', NoConn)
  <2>1. net' = SendStanza(net, h) BY <1>1 DEF UserSends
  <2> QED BY <2>1, UserGoing
<1> SUFFICES ASSUME NEW c \in Conn, NEW again \in BOOLEAN,
                    \/ RecvIn(c) \/ RecvOut(c) \/ Connect(c) \/ Forge(c)
                    \/ TimeoutIn(c) \/ Break(c) \/ DisconnectIn(c) \/ CloseIn(c) \/ CloseTimeout(c)
                    \/ ConnectFails(c, again) \/ TimeoutOut(c, again)
                    \/ DisconnectOut(c, again) \/ CloseOut(c, again)
             PROVE  Going(net', NoConn)
  <2>1. TRUE \in BOOLEAN OBVIOUS
  <2> QED BY <1>1, <2>1 DEF S2sNext
<1>2. CASE RecvIn(c)
  <2>1. breaks' = breaks OBVIOUS
  <2> QED BY <1>0, <1>2, <2>1, RecvInGoing
<1>3. CASE RecvOut(c) BY <1>3, RecvOutGoing
<1>4. CASE Connect(c) BY <1>4, ConnectGoing
<1>5. CASE Forge(c) BY <1>5, ForgeGoing
<1>6. CASE TimeoutIn(c) \/ Break(c) \/ CloseIn(c) \/ ConnectFails(c, again) \/ TimeoutOut(c, again) \/ CloseOut(c, again)
  <2>1. breaks' = breaks + 1
    BY <1>6 DEF TimeoutIn, Break, CloseIn, ConnectFails, TimeoutOut, CloseOut, Failure
  <2> QED BY <2>1
<1>7. CASE DisconnectIn(c) \/ DisconnectOut(c, again)
  <2>1. c \in net.cut BY <1>7 DEF DisconnectIn, DisconnectOut
  <2> QED BY <1>0, <2>1
<1>8. CASE CloseTimeout(c)
  <2>1. net.inc[c].closing BY <1>8 DEF CloseTimeout
  <2>2. Peace(c, net.out[c], net.inc[c], net.up[c], net.down[c]) BY DEF Going
  <2> QED BY <2>1, <2>2 DEF Peace
<1> QED BY <1>2, <1>3, <1>4, <1>5, <1>6, <1>7, <1>8

(* No step makes a failure undone or clears the record. *)
LEMMA NextSpilt ==
  ASSUME Lined(net, NoConn), S2sNext, breaks \in Nat
  PROVE  breaks' \in Nat /\ (breaks' = 0 => breaks = 0 /\ (Smooth(net') => Smooth(net)))
<1>0. (~Smooth(net) => Spilt(net)) /\ (Spilt(net') => ~Smooth(net'))
  <2>1. Typed(net) BY DEF Lined, Good, Sound
  <2>2. IsNet(net) /\ net.overflow \in BOOLEAN BY <2>1, TypedFields DEF Typed
  <2>3. DOMAIN net = NetField BY <2>2 DEF IsNet
  <2> QED BY <2>2, <2>3 DEF Spilt, Smooth, NetField
<1>1. ASSUME NEW h \in Host, UserSends(h)
      PROVE  breaks' = breaks /\ (Smooth(net') => Smooth(net))
  <2>1. net' = SendStanza(net, h) /\ breaks' = breaks BY <1>1 DEF UserSends
  <2>2. Spilt(net) => Spilt(SendStanza(net, h)) BY SpiltRoute
  <2> QED BY <1>0, <2>1, <2>2
<1>2. ASSUME NEW c \in Conn, RecvIn(c)
      PROVE  breaks' \in {breaks, breaks + 1} /\ (Smooth(net') => Smooth(net))
  <2> DEFINE i == Head(net.up[c])
             y == [net EXCEPT !.up[c] = Tail(@)]
  <2>1. PICK accept \in BOOLEAN :
          /\ breaks' = IF accept THEN breaks ELSE breaks + 1
          /\ net' = CASE i.t = "open" -> streamopened(y, c)
                      [] i.t = "bidi" -> accept_bidi(y, c)
                      [] i.t = "auth" -> s2s_external_auth(y, c, accept)
                      [] i.t = "result" -> dialback_request(y, c, i)
                      [] i.t = "verify" -> verify_dialback(y, c, i)
                      [] i.t = "msg" -> Receive(y, Remote(c[1]), c, y.inc[c], close_in(y, c), i.n)
                      [] i.t = "end" -> close_in(y, c)
    BY <1>2 DEF RecvIn
  <2>2. i.t \in {"open", "bidi", "auth", "result", "verify", "msg", "end"}
    <3>1. Local(c, net.out[c], net.inc[c], net.up[c], net.down[c], Asked(net, c), net.got[c])
          /\ net.up[c] # <<>>
      BY <1>2, At DEF Lined, Good, RecvIn
    <3>2. i \in UpItem(c) BY <3>1, UpTail
    <3> HIDE DEF i
    <3> QED BY <3>2 DEF UpItem
  <2>3. Spilt(net) => Spilt(y) BY DEF Spilt
  <2> HIDE DEF i, y
  <2>4. ASSUME Spilt(y) PROVE Spilt(net')
    <3>1. Spilt(close_in(y, c)) BY <2>4, SpiltClose
    <3>2. Spilt(Receive(y, Remote(c[1]), c, y.inc[c], close_in(y, c), i.n)) BY <2>4, <3>1, SpiltReceive
    <3>3. /\ Spilt(streamopened(y, c)) /\ Spilt(accept_bidi(y, c)) /\ Spilt(s2s_external_auth(y, c, accept))
          /\ Spilt(dialback_request(y, c, i)) /\ Spilt(verify_dialback(y, c, i))
      BY <2>4, SpiltAcceptor
    <3> QED BY <2>1, <2>2, <3>1, <3>2, <3>3
  <2> QED BY <1>0, <2>1, <2>3, <2>4
<1>3. ASSUME NEW c \in Conn, RecvOut(c)
      PROVE  breaks' = breaks /\ (Smooth(net') => Smooth(net))
  <2> DEFINE i == Head(net.down[c])
             y == [net EXCEPT !.down[c] = Tail(@)]
  <2>1. PICK again \in BOOLEAN :
          net' = IF y.out[c].reset /\ i.t \notin {"features", "end"} THEN no_stream(y, c, i, again)
                 ELSE CASE i.t = "features" -> features(reopened(y, c), c, i.ok)
                      [] i.t = "success" -> success(y, c)
                      [] i.t = "failure" -> failure(y, c)
                      [] i.t = "dbresult" -> dialback_result(y, c, i, again)
                      [] i.t \in {"verified", "verify"} -> dialback_verified(y, c[1], i)
                      [] i.t = "msg" -> Receive(y, c[1], c, y.out[c], close_out(y, c, again), i.n)
                      [] i.t = "end" -> close_out(y, c, again)
    BY <1>3 DEF RecvOut
  <2>2. i.t \in {"features", "success", "failure", "dbresult", "verified", "verify", "msg", "end"}
    <3>1. net.down[c] \in Seq(DownItem) /\ net.down[c] # <<>> BY <1>3, At DEF Lined, Good, RecvOut
    <3>2. i \in DownItem BY <3>1
    <3> HIDE DEF i
    <3> QED BY <3>2 DEF DownItem
  <2>3. Spilt(net) => Spilt(y) BY DEF Spilt
  <2> HIDE DEF i, y
  <2>4. ASSUME Spilt(y) PROVE Spilt(net')
    <3>1. Spilt(close_out(y, c, again)) BY <2>4, SpiltClose
    <3>2. Spilt(Receive(y, c[1], c, y.out[c], close_out(y, c, again), i.n)) BY <2>4, <3>1, SpiltReceive
    <3>3. /\ Spilt(reopened(y, c)) /\ Spilt(success(y, c)) /\ Spilt(failure(y, c))
          /\ Spilt(dialback_result(y, c, i, again)) /\ Spilt(no_stream(y, c, i, again))
      BY <2>4, SpiltOpener
    <3>4. Spilt(dialback_verified(y, c[1], i)) BY <2>4, SpiltAcceptor
    <3>5. Spilt(features(reopened(y, c), c, i.ok)) BY <3>3, SpiltOpener
    <3> QED BY <2>1, <2>2, <3>1, <3>2, <3>3, <3>4, <3>5
  <2>5. breaks' = breaks BY <1>3 DEF RecvOut
  <2> QED BY <1>0, <2>3, <2>4, <2>5
<1> SUFFICES ASSUME NEW c \in Conn, NEW again \in BOOLEAN,
                    \/ Connect(c) \/ Forge(c)
                    \/ TimeoutIn(c) \/ Break(c) \/ DisconnectIn(c) \/ CloseIn(c) \/ CloseTimeout(c)
                    \/ ConnectFails(c, again) \/ TimeoutOut(c, again)
                    \/ DisconnectOut(c, again) \/ CloseOut(c, again)
             PROVE  \/ breaks' = breaks + 1
                    \/ breaks' = breaks /\ (Smooth(net') => Smooth(net))
  <2>1. TRUE \in BOOLEAN OBVIOUS
  <2>2. breaks + 1 \in Nat /\ breaks + 1 # 0 OBVIOUS
  <2> QED BY <1>1, <1>2, <1>3, <2>1, <2>2 DEF S2sNext
<1>4. CASE Connect(c) \/ Forge(c)
  <2>1. breaks' = breaks BY <1>4 DEF Connect, Forge
  <2>2. Spilt(net) => Spilt(net')
    <3>1. Connect(c) /\ Spilt(net) => Spilt(net') BY DEF Connect, Spilt
    <3>2. Forge(c) /\ Spilt(net) => Spilt(net') BY DEF Forge, Spilt
    <3> QED BY <1>4, <3>1, <3>2
  <2> QED BY <1>0, <2>1, <2>2
<1>5. CASE TimeoutIn(c) \/ Break(c) \/ CloseIn(c) \/ ConnectFails(c, again) \/ TimeoutOut(c, again) \/ CloseOut(c, again)
  BY <1>5 DEF TimeoutIn, Break, CloseIn, ConnectFails, TimeoutOut, CloseOut, Failure
<1>6. CASE DisconnectIn(c) \/ DisconnectOut(c, again) \/ CloseTimeout(c)
  <2>1. breaks' = breaks BY <1>6 DEF DisconnectIn, DisconnectOut, CloseTimeout
  <2>2. net' \in {[destroy_in(net, c) EXCEPT !.up[c] = <<>>], [destroy_out(net, c, again) EXCEPT !.down[c] = <<>>],
                  close_in(net, c)}
    BY <1>6 DEF DisconnectIn, DisconnectOut, CloseTimeout
  <2>3. \A z : Spilt(z) => Spilt([z EXCEPT !.up[c] = <<>>]) /\ Spilt([z EXCEPT !.down[c] = <<>>]) BY DEF Spilt
  <2>4. Spilt(net) => Spilt(net') BY <2>2, <2>3, SpiltClose
  <2> QED BY <1>0, <2>1, <2>4
<1> QED BY <1>4, <1>5, <1>6

(* When all is read and both servers go on, nobody waits: a connection     *)
(* that is not authenticated would wait for a question in the queue of     *)
(* another, and that one for a question in the first one's queue, which    *)
(* Mutual excludes.                                                        *)
LEMMA QuietReady ==
  ASSUME Lined(net, NoConn), Going(net, NoConn),
         \A c \in Conn : /\ LiveIn(net, c) => net.up[c] = <<>>
                         /\ LiveOut(net, c) => net.down[c] = <<>> /\ net.out[c].conn
  PROVE  \A c \in Conn : /\ net.out[c].type \notin {"s2sout_unauthed", "s2s_destroyed"}
                         /\ net.out[c].sendq = <<>>
<1>0. Good(net) /\ Sound(net) BY DEF Lined, Good
<1>1. ASSUME NEW d \in Conn
      PROVE  /\ Peace(d, net.out[d], net.inc[d], net.up[d], net.down[d])
             /\ Local(d, net.out[d], net.inc[d], net.up[d], net.down[d], Asked(net, d), net.got[d])
             /\ net.out[d] \in OutSession /\ net.inc[d] \in InSession
             /\ LiveOut(net, d) = Alive(net.out[d]) /\ (Alive(net.out[d]) => d[2] > 0)
  BY <1>0, At, Opener DEF Going
<1>2. ASSUME NEW d \in Conn, Alive(net.out[d])
      PROVE  net.up[d] = <<>> /\ net.down[d] = <<>> /\ Moves(net, d) /\ d[2] > 0
  <2>1. net.down[d] = <<>> /\ net.out[d].conn /\ d[2] > 0 BY <1>1, <1>2
  <2>2. net.inc[d].type \notin {"none", "s2s_destroyed"} BY <1>1, <2>1 DEF Peace
  <2>3. LiveIn(net, d) BY <1>1, <2>2 DEF InSession, LiveIn
  <2>4. Moves(net, d) BY <2>1, Conns DEF Going
  <2> QED BY <2>1, <2>3, <2>4
<1>3. \A T : ~Has(<<>>, T) BY RangeFew DEF Has
<1>4. \A d : ~Holds(<<>>, d) BY RangeFew DEF Holds
<1>5. ASSUME NEW d \in Conn, net.out[d].type = "s2sout_unauthed"
      PROVE  \E e \in Conn : e[1] = Remote(d[1]) /\ e[2] > 0 /\ Alive(net.out[e]) /\ Holds(net.out[e].sendq, d)
  <2>1. PICK e \in Conn : Asks(net, d, e) BY <1>2, <1>3, <1>5 DEF Moves, Alive
  <2>2. e[1] = Remote(d[1]) /\ e[2] > 0 BY <2>1 DEF Asks
  <2>3. ASSUME ~Alive(net.out[e])
        PROVE  net.up[e] = <<>> /\ net.down[e] = <<>> /\ net.out[e].sendq = <<>>
    <3>1. net.out[e].sendq = <<>> BY <1>1, <2>3 DEF Local
    <3>2. net.out[e].type = "none" BY <1>1, <2>3 DEF Peace, OutFields, OutSession, Alive
    <3>3. ~net.out[e].conn BY <1>1, <3>2 DEF Local
    <3>4. net.down[e] = <<>> BY <1>1, <2>2, <3>3 DEF Local, Phase
    <3>5. net.up[e] = <<>> BY <2>2, <3>3, LinedIdle DEF Idle
    <3> QED BY <3>1, <3>4, <3>5
  <2>4. net.up[e] = <<>> /\ net.down[e] = <<>> BY <1>2, <2>3
  <2>5. Holds(net.out[e].sendq, d) BY <1>4, <2>1, <2>4, RangeFew DEF Asks
  <2>6. Alive(net.out[e]) BY <1>4, <2>3, <2>5
  <2> QED BY <2>2, <2>5, <2>6
<1>6. ASSUME NEW d \in Conn, net.out[d].sendq # <<>> PROVE net.out[d].type = "s2sout_unauthed"
  <2>1. Alive(net.out[d]) BY <1>1, <1>6 DEF Local
  <2> QED BY <1>2, <1>3, <1>6, <2>1 DEF Moves, Alive
<1>7. ASSUME NEW c \in Conn, net.out[c].type = "s2sout_unauthed" PROVE FALSE
  <2>1. PICK d \in Conn : d[1] = Remote(c[1]) /\ d[2] > 0 /\ Alive(net.out[d]) /\ Holds(net.out[d].sendq, c)
    BY <1>5, <1>7
  <2>2. net.out[d].type = "s2sout_unauthed" BY <1>4, <1>6, <2>1
  <2>3. PICK e \in Conn : e[1] = Remote(d[1]) /\ e[2] > 0 /\ Alive(net.out[e]) /\ Holds(net.out[e].sendq, d)
    BY <1>5, <2>2
  <2>4. Alive(net.out[c]) /\ c[2] > 0 BY <1>1, <1>7 DEF Alive
  <2>5. e = c
    <3>1. e[1] = c[1] BY <2>1, <2>3, Conns, Hosts
    <3> QED BY <1>0, <2>3, <2>4, <3>1 DEF Sound, Routes
  <2> QED BY <2>1, <2>3, <2>4, <2>5 DEF Going, Mutual
<1> QED BY <1>1, <1>6, <1>7 DEF Peace

(* Unless something failed, a queue was full or something came into a      *)
(* stream being reset (early, the known case), two servers that            *)
(* authenticate to each other do not wait for each other for ever,         *)
(* for any number of connections, stanzas and forgers, any queue size and  *)
(* any certificates: once a session has sent its own key a                 *)
(* db:verify goes out on it at once (the dialback_key guard of             *)
(* route_to_existing_session), and a peer asks about a connection only     *)
(* after that connection's key has come, so of two questions that wait for *)
(* each other at most one is queued.                                       *)
THEOREM NoDialbackDeadlockHolds == S2sSpec => []NoDialbackDeadlock
<1> DEFINE Inv == /\ Lined(net, NoConn) /\ breaks \in Nat
                  /\ breaks = 0 /\ Smooth(net) => Going(net, NoConn)
<1>1. S2sInit => Inv
  <2>1. S2sInit => breaks \in Nat BY DEF S2sInit
  <2> QED BY <2>1, InitOrd, InitGoing
<1>2. Inv /\ [S2sNext]_s2sVars => Inv'
  <2>1. ASSUME Inv, S2sNext PROVE Inv'
    <3>1. Lined(net', NoConn) BY <2>1, NextOrd
    <3>2. breaks' \in Nat /\ (breaks' = 0 => breaks = 0 /\ (Smooth(net') => Smooth(net))) BY <2>1, NextSpilt
    <3>3. ASSUME breaks' = 0, Smooth(net') PROVE Going(net', NoConn)
      <4>1. Going(net, NoConn) /\ breaks = 0 BY <2>1, <3>2, <3>3
      <4> QED BY <2>1, <3>3, <4>1, NextGoing DEF Smooth
    <3> QED BY <3>1, <3>2, <3>3
  <2>2. ASSUME Inv, UNCHANGED s2sVars PROVE Inv'
    <3>1. net' = net /\ breaks' = breaks BY <2>2 DEF s2sVars
    <3> QED BY <2>2, <3>1
  <2> QED BY <2>1, <2>2
<1>3. Inv => NoDialbackDeadlock BY QuietReady DEF NoDialbackDeadlock, Smooth
<1> QED BY <1>1, <1>2, <1>3, PTL DEF S2sSpec
=============================================================================
