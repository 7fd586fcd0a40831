------------------------------ MODULE S2SProofs -------------------------------
(***************************************************************************)
(* For two servers with any number of connections, stanzas and failures,   *)
(* any size of the send queue and any accepted certificates: one route,    *)
(* no stanza lost, nobody let in who was not vouched for, no stanza out of *)
(* order over dialback, and none too early, except into a bidirectional    *)
(* stream that EXTERNAL has reset.                                         *)
(*                                                                         *)
(* The first invariant, Good, has three parts.  Each connection has at     *)
(* most one authentication step in play (OneStep); the table of routes     *)
(* agrees with the sessions (Routes); every stanza is booked once (Books). *)
(* The second, Lined, adds what the order rests on: neither end sends      *)
(* stanzas before the other is ready (Ready), and those taken, in the      *)
(* stream and queued follow each other (Line).  The handlers are functions *)
(* of the state, so there is a lemma about each and each invariant: it     *)
(* maps a state with the invariant to one with the invariant.              *)
(***************************************************************************)
EXTENDS S2S, WellFoundedInduction, TLAPS

(* A db:verify, or its answer, about a connection opened by somebody else  *)
(* never says that the key is good.                                        *)
Unforged(i) == i.t \in {"verify", "verified"} => i.c \in Conn /\ (i.c[2] = 0 => ~i.ok)

(* What sendq may hold. *)
QueueItem == {i \in ItemType : i.t \in {"msg", "verify"} /\ Unforged(i)}

(* What the opener of c may write; whoever only claims a domain has no     *)
(* good key.                                                               *)
UpItem(c) ==
  {i \in ItemType : /\ i.t \in {"open", "bidi", "auth", "result", "verify", "msg", "end"}
                    /\ Unforged(i) /\ (i.t = "result" /\ c[2] = 0 => ~i.ok)}

(* What the acceptor of a connection may write. *)
DownItem ==
  {i \in ItemType : /\ i.t \in {"features", "success", "failure", "dbresult", "verified",
                                "verify", "msg", "end"}
                    /\ Unforged(i)}

(* Sessions, and the state of both servers field by field. *)
OutFields ==
  [type : {"none", "s2sout_unauthed", "s2sout", "s2s_destroyed"}, conn : BOOLEAN, key : BOOLEAN,
   ext : {"nil", "attempting", "succeeded", "failed"}, incoming : BOOLEAN, authed : BOOLEAN,
   reset : BOOLEAN, sendq : Seq(QueueItem)]

(* A stream is only reset when EXTERNAL has succeeded. *)
OutSession == {o \in OutFields : o.reset => o.ext = "succeeded"}

InSession ==
  [type : {"none", "s2sin_unauthed", "s2sin", "s2s_destroyed"}, ext : {"nil", "offered", "succeeded"},
   outgoing : BOOLEAN, authed : BOOLEAN, notopen : BOOLEAN, closing : BOOLEAN]

(* What is kept of an item that came into a stream being reset. *)
EarlyItem ==
  [t : {"features", "success", "failure", "dbresult", "verified", "verify", "msg", "end"},
   ext : {"nil", "attempting", "succeeded", "failed"}, incoming : BOOLEAN]

NetField == {"certs", "tab", "out", "inc", "up", "down", "cut", "req", "routed", "sent", "bounced",
             "dropped", "early", "overflow", "got"}

(* y is a record with these fields and no others. *)
IsNet(y) == y = [f \in NetField |-> y[f]]

FieldSet ==
  [certs |-> SUBSET Host, tab |-> [Host -> Conn \union {NoConn}], out |-> [Conn -> OutSession],
   inc |-> [Conn -> InSession], up |-> [Conn -> Seq(ItemType)], down |-> [Conn -> Seq(DownItem)],
   cut |-> SUBSET Conn, req |-> [Host -> SUBSET Conn], routed |-> [Host -> Nat],
   sent |-> [Host -> SUBSET Nat], bounced |-> [Host -> SUBSET Nat], dropped |-> BOOLEAN,
   early |-> SUBSET EarlyItem, overflow |-> BOOLEAN, got |-> [Conn -> [Host -> Seq(Nat)]]]

(* Every field has its type. *)
Typed(y) == IsNet(y) /\ \A f \in NetField : y[f] \in FieldSet[f]

(* The types one by one. *)
LEMMA TypedFields ==
  ASSUME NEW y, Typed(y)
  PROVE  /\ y.certs \subseteq Host /\ y.tab \in [Host -> Conn \union {NoConn}]
  /\ y.out \in [Conn -> OutSession] /\ y.inc \in [Conn -> InSession]
  /\ y.up \in [Conn -> Seq(ItemType)] /\ y.down \in [Conn -> Seq(DownItem)]
  /\ y.cut \subseteq Conn /\ y.req \in [Host -> SUBSET Conn]
  /\ y.routed \in [Host -> Nat] /\ y.sent \in [Host -> SUBSET Nat]
  /\ y.bounced \in [Host -> SUBSET Nat]
  /\ y.dropped \in BOOLEAN /\ y.early \subseteq EarlyItem /\ y.overflow \in BOOLEAN
  /\ y.got \in [Conn -> [Host -> Seq(Nat)]]
BY DEF Typed, FieldSet, NetField

(* z differs from y in the fields F at most. *)
Frame(y, z, F) == \A f \in NetField \ F : z[f] = y[f]

(* A state that differs from a typed one in fields that keep their types   *)
(* is typed.                                                               *)
LEMMA Retype ==
  ASSUME NEW y, Typed(y), NEW z, NEW F, IsNet(z), Frame(y, z, F),
         \A f \in F : z[f] \in FieldSet[f]
  PROVE  Typed(z)
BY DEF Typed, Frame

-----------------------------------------------------------------------------
(* The items whose processing takes one authentication step: they are      *)
(* answered by another such item, by a question to the authoritative       *)
(* server, or by the authentication itself.                                *)
UpStep(x, o) == x.t \in {"auth", "result"} \/ (x.t = "open" /\ o.ext # "succeeded")
DownStep(x, o) == x.t = "failure" \/ (x.t = "features" /\ o.ext # "succeeded")
(* The acceptor has let the opener in. *)
Accepted(i) == i.type = "s2sin" \/ i.ext = "succeeded"

(* No authentication step of the connection is in play. *)
NoStep(o, i, u, d, a) ==
  /\ \A k \in DOMAIN u : ~UpStep(u[k], o)
  /\ \A k \in DOMAIN d : ~DownStep(d[k], o)
  /\ ~a /\ ~Accepted(i)

(* At most one is: in one of the two streams, at the authoritative server, *)
(* or the last one, done.  So a second db:result, a second <auth/> or a    *)
(* late answer never finds the session authenticated already.              *)
OneStep(o, i, u, d, a) ==
  /\ \A j, k \in DOMAIN u : UpStep(u[j], o) /\ UpStep(u[k], o) => j = k
  /\ \A j, k \in DOMAIN d : DownStep(d[j], o) /\ DownStep(d[k], o) => j = k
  /\ \A j \in DOMAIN u, k \in DOMAIN d : ~(UpStep(u[j], o) /\ DownStep(d[k], o))
  /\ a \/ Accepted(i) => /\ \A k \in DOMAIN u : ~UpStep(u[k], o)
                         /\ \A k \in DOMAIN d : ~DownStep(d[k], o)
  /\ ~(a /\ Accepted(i))

(* What the two ends know of each other. *)
Phase(o, i, d, a) ==
  /\ ~o.conn => i.type = "none" /\ d = <<>> /\ ~a /\ o.ext = "nil"
  /\ o.ext = "succeeded" => o.type \in {"s2sout", "s2s_destroyed"} /\ i.ext = "succeeded"
  /\ \A k \in DOMAIN d : d[k].t = "success" => i.ext = "succeeded"
  /\ i.ext = "succeeded" => i.type \in {"s2sin", "s2s_destroyed"}

(* Whoever only claims a domain is not let in and no stanza is taken from  *)
(* them.                                                                   *)
Claim(o, i, g) ==
  /\ o.type = "none" /\ i.type # "s2sin" /\ i.ext # "offered"
  /\ g = [h \in Host |-> <<>>]

(* LiveOut, of the session itself. *)
Alive(o) == o.type \in {"s2sout_unauthed", "s2sout"}

(* The invariant of connection c: sessions o and i, streams u and d,       *)
(* whether the acceptor asked about it (a), and the stanzas taken (g).     *)
Local(c, o, i, u, d, a, g) ==
  /\ Len(o.sendq) <= SendqSize
  /\ ~Alive(o) => o.sendq = <<>>
  /\ o.type = "none" => ~o.conn
  /\ u \in Seq(UpItem(c))
  /\ c[2] = 0 => Claim(o, i, g)
  /\ c[2] > 0 => OneStep(o, i, u, d, a) /\ Phase(o, i, d, a)

(* An element of a concatenation is one of the first or one of the second  *)
(* sequence.                                                               *)
LEMMA CatDomain ==
  ASSUME NEW S, NEW u \in Seq(S), NEW v \in Seq(S)
  PROVE  /\ u \o v \in Seq(S)
         /\ \A k \in DOMAIN (u \o v) :
              \/ k \in DOMAIN u /\ (u \o v)[k] = u[k]
              \/ k \notin DOMAIN u /\ k - Len(u) \in DOMAIN v /\ (u \o v)[k] = v[k - Len(u)]
OBVIOUS

(* What remains after the first element, and where. *)
LEMMA TailDomain ==
  ASSUME NEW S, NEW u \in Seq(S), u # <<>>
  PROVE  /\ Tail(u) \in Seq(S) /\ Head(u) \in S /\ Head(u) = u[1] /\ 1 \in DOMAIN u
         /\ \A k \in DOMAIN Tail(u) : k + 1 \in DOMAIN u /\ k + 1 # 1 /\ Tail(u)[k] = u[k + 1] /\ k \in Int
OBVIOUS

(* Writing what is no authentication step to the acceptor keeps the        *)
(* invariant of the connection.                                            *)
LEMMA UpCalm ==
  ASSUME NEW c, NEW o, NEW i, NEW u, NEW d \in Seq(DownItem), NEW a, NEW g, NEW v \in Seq(UpItem(c)),
         Local(c, o, i, u, d, a, g), \A k \in DOMAIN v : ~UpStep(v[k], o)
  PROVE  Local(c, o, i, u \o v, d, a, g) /\ (NoStep(o, i, u, d, a) => NoStep(o, i, u \o v, d, a))
<1>0. u \in Seq(UpItem(c)) BY DEF Local
<1>1. u \o v \in Seq(UpItem(c)) BY <1>0, CatDomain
<1>2. \A k \in DOMAIN (u \o v) : UpStep((u \o v)[k], o) => k \in DOMAIN u /\ UpStep(u[k], o)
  BY <1>0, CatDomain
<1>3. OneStep(o, i, u, d, a) => OneStep(o, i, u \o v, d, a)
  <2> HIDE DEF UpStep, DownStep
  <2> QED BY <1>2 DEF OneStep
<1>4. NoStep(o, i, u, d, a) => NoStep(o, i, u \o v, d, a) BY <1>2 DEF NoStep
<1> QED BY <1>1, <1>3, <1>4 DEF Local

(* So does writing one authentication step when there is none in play. *)
LEMMA UpAct ==
  ASSUME NEW c, NEW o, NEW i, NEW u, NEW d \in Seq(DownItem), NEW a, NEW g, NEW x \in UpItem(c),
         Local(c, o, i, u, d, a, g), NoStep(o, i, u, d, a)
  PROVE  Local(c, o, i, u \o <<x>>, d, a, g)
<1> DEFINE v == <<x>>
<1>0. u \in Seq(UpItem(c)) /\ v \in Seq(UpItem(c)) BY DEF Local
<1>1. u \o v \in Seq(UpItem(c)) BY <1>0, CatDomain
<1>2. \A k \in DOMAIN (u \o v) : UpStep((u \o v)[k], o) => k = Len(u) + 1
  <2> SUFFICES ASSUME NEW k \in DOMAIN (u \o v), UpStep((u \o v)[k], o) PROVE k = Len(u) + 1 OBVIOUS
  <2>1. ~(k \in DOMAIN u /\ (u \o v)[k] = u[k]) BY DEF NoStep
  <2>2. k - Len(u) \in DOMAIN v BY <1>0, CatDomain, <2>1
  <2> QED BY <2>2, <1>0
<1>3. OneStep(o, i, u \o v, d, a) BY <1>2 DEF OneStep, NoStep
<1> QED BY <1>1, <1>3 DEF Local

(* The same for what the acceptor writes. *)
LEMMA DownCalm ==
  ASSUME NEW c, NEW o, NEW i, NEW u, NEW d \in Seq(DownItem), NEW a, NEW g, NEW v \in Seq(DownItem),
         Local(c, o, i, u, d, a, g), \A k \in DOMAIN v : ~DownStep(v[k], o),
         c[2] > 0 => o.conn, (\E k \in DOMAIN v : v[k].t = "success") => i.ext = "succeeded"
  PROVE  Local(c, o, i, u, d \o v, a, g) /\ (NoStep(o, i, u, d, a) => NoStep(o, i, u, d \o v, a))
<1>1. \A k \in DOMAIN (d \o v) : DownStep((d \o v)[k], o) => k \in DOMAIN d /\ DownStep(d[k], o)
  BY CatDomain
<1>2. OneStep(o, i, u, d, a) => OneStep(o, i, u, d \o v, a) BY <1>1 DEF OneStep
<1>3. NoStep(o, i, u, d, a) => NoStep(o, i, u, d \o v, a) BY <1>1 DEF NoStep
<1>4. ASSUME c[2] > 0, Phase(o, i, d, a) PROVE Phase(o, i, d \o v, a)
  <2>1. \A k \in DOMAIN (d \o v) : (d \o v)[k].t = "success" => i.ext = "succeeded"
    BY CatDomain, <1>4 DEF Phase
  <2> QED BY <2>1, <1>4 DEF Phase
<1> QED BY <1>2, <1>3, <1>4 DEF Local

(* And for an authentication step of the acceptor. *)
LEMMA DownAct ==
  ASSUME NEW c, NEW o, NEW i, NEW u, NEW d \in Seq(DownItem), NEW a, NEW g, NEW x \in DownItem,
         Local(c, o, i, u, d, a, g), c[2] > 0 => NoStep(o, i, u, d, a) /\ o.conn, x.t # "success"
  PROVE  Local(c, o, i, u, d \o <<x>>, a, g)
<1> DEFINE v == <<x>>
<1>0. v \in Seq(DownItem) /\ \A k \in DOMAIN v : v[k] = x OBVIOUS
<1>2. ASSUME c[2] > 0 PROVE \A k \in DOMAIN (d \o v) : DownStep((d \o v)[k], o) => k = Len(d) + 1
  <2> SUFFICES ASSUME NEW k \in DOMAIN (d \o v), DownStep((d \o v)[k], o) PROVE k = Len(d) + 1 OBVIOUS
  <2>1. ~(k \in DOMAIN d /\ (d \o v)[k] = d[k]) BY <1>2 DEF NoStep
  <2>2. k - Len(d) \in DOMAIN v BY <1>0, CatDomain, <2>1
  <2> QED BY <2>2, <1>0
<1>3. c[2] > 0 => OneStep(o, i, u, d \o v, a) BY <1>2 DEF OneStep, NoStep
<1>4. ASSUME c[2] > 0, Phase(o, i, d, a) PROVE Phase(o, i, d \o v, a)
  <2>1. \A k \in DOMAIN (d \o v) : (d \o v)[k].t = "success" => i.ext = "succeeded"
    BY <1>0, CatDomain, <1>4 DEF Phase
  <2> QED BY <2>1, <1>4 DEF Phase
<1> QED BY <1>3, <1>4 DEF Local

(* Reading an item at the accepting end keeps the invariant; if it was an  *)
(* authentication step there is none in play now.                          *)
LEMMA UpTail ==
  ASSUME NEW c, NEW o, NEW i, NEW u, NEW d, NEW a, NEW g,
         Local(c, o, i, u, d, a, g), u # <<>>
  PROVE  /\ Head(u) \in UpItem(c)
         /\ Local(c, o, i, Tail(u), d, a, g)
         /\ c[2] > 0 /\ UpStep(Head(u), o) => NoStep(o, i, Tail(u), d, a)
<1>0. u \in Seq(UpItem(c)) BY DEF Local
<1>1. /\ Tail(u) \in Seq(UpItem(c)) /\ Head(u) \in UpItem(c) /\ Head(u) = u[1] /\ 1 \in DOMAIN u
      /\ \A k \in DOMAIN Tail(u) : k + 1 \in DOMAIN u /\ k + 1 # 1 /\ Tail(u)[k] = u[k + 1] /\ k \in Int
  BY <1>0, TailDomain
<1>2. OneStep(o, i, u, d, a) => OneStep(o, i, Tail(u), d, a)
  <2> SUFFICES ASSUME OneStep(o, i, u, d, a) PROVE OneStep(o, i, Tail(u), d, a) OBVIOUS
  <2>1. ASSUME NEW j \in DOMAIN Tail(u), NEW k \in DOMAIN Tail(u), UpStep(Tail(u)[j], o), UpStep(Tail(u)[k], o)
        PROVE  j = k
    <3>1. j + 1 = k + 1 BY <2>1, <1>1 DEF OneStep
    <3> QED BY <3>1, <1>1
  <2> QED BY <2>1, <1>1 DEF OneStep
<1>3. ASSUME OneStep(o, i, u, d, a), UpStep(Head(u), o) PROVE NoStep(o, i, Tail(u), d, a)
  BY <1>1, <1>3 DEF OneStep, NoStep
<1> QED BY <1>1, <1>2, <1>3 DEF Local

(* Reading an item at the opening end. *)
LEMMA DownTail ==
  ASSUME NEW c, NEW o, NEW i, NEW u, NEW d \in Seq(DownItem), NEW a, NEW g,
         Local(c, o, i, u, d, a, g), d # <<>>
  PROVE  /\ Head(d) \in DownItem /\ Tail(d) \in Seq(DownItem)
         /\ Local(c, o, i, u, Tail(d), a, g)
         /\ c[2] > 0 /\ DownStep(Head(d), o) => NoStep(o, i, u, Tail(d), a)
         /\ c[2] > 0 => o.conn /\ (Head(d).t = "success" => i.ext = "succeeded")
<1>1. /\ Tail(d) \in Seq(DownItem) /\ Head(d) \in DownItem /\ Head(d) = d[1] /\ 1 \in DOMAIN d
      /\ \A k \in DOMAIN Tail(d) : k + 1 \in DOMAIN d /\ k + 1 # 1 /\ Tail(d)[k] = d[k + 1] /\ k \in Int
  BY TailDomain
<1>2. OneStep(o, i, u, d, a) => OneStep(o, i, u, Tail(d), a)
  <2> SUFFICES ASSUME OneStep(o, i, u, d, a) PROVE OneStep(o, i, u, Tail(d), a) OBVIOUS
  <2>1. ASSUME NEW j \in DOMAIN Tail(d), NEW k \in DOMAIN Tail(d), DownStep(Tail(d)[j], o), DownStep(Tail(d)[k], o)
        PROVE  j = k
    <3>1. j + 1 = k + 1 BY <2>1, <1>1 DEF OneStep
    <3> QED BY <3>1, <1>1
  <2> QED BY <2>1, <1>1 DEF OneStep
<1>3. ASSUME OneStep(o, i, u, d, a), DownStep(Head(d), o) PROVE NoStep(o, i, u, Tail(d), a)
  BY <1>1, <1>3 DEF OneStep, NoStep
<1>4. ASSUME Phase(o, i, d, a) PROVE Phase(o, i, Tail(d), a) /\ o.conn /\ (Head(d).t = "success" => i.ext = "succeeded")
  <2>1. \A k \in DOMAIN Tail(d) : Tail(d)[k].t = "success" => i.ext = "succeeded" BY <1>1, <1>4 DEF Phase
  <2> QED BY <2>1, <1>1, <1>4 DEF Phase
<1> QED BY <1>1, <1>2, <1>3, <1>4 DEF Local

(* What is lost with a broken connection takes at most the step with it. *)
LEMMA Clearing ==
  ASSUME NEW c, NEW o, NEW i, NEW u, NEW d, NEW a, NEW g, Local(c, o, i, u, d, a, g)
  PROVE  Local(c, o, i, <<>>, d, a, g) /\ Local(c, o, i, u, <<>>, a, g)
<1>1. DOMAIN <<>> = {} /\ <<>> \in Seq(UpItem(c)) OBVIOUS
<1> QED BY <1>1 DEF Local, OneStep, Phase

(* The opener's session may change as long as it does not go back, and its *)
(* stream is not opened again.                                             *)
LEMMA OutChange ==
  ASSUME NEW c, NEW o, NEW i, NEW u, NEW d, NEW a, NEW g, Local(c, o, i, u, d, a, g), NEW o2,
         o2.ext = o.ext, o2.conn = o.conn, Len(o2.sendq) <= SendqSize, Alive(o),
         ~Alive(o2) => o2.sendq = <<>>, o2.type # "none",
         o.type = "s2sout" => o2.type \in {"s2sout", "s2s_destroyed"}
  PROVE  Local(c, o2, i, u, d, a, g) /\ (NoStep(o, i, u, d, a) => NoStep(o2, i, u, d, a))
BY DEF Local, OneStep, NoStep, Phase, Alive, UpStep, DownStep, Claim

(* The opener tries EXTERNAL, or has failed at it. *)
LEMMA OutExt ==
  ASSUME NEW c, NEW o \in OutSession, NEW i, NEW u, NEW d, NEW a, NEW g, Local(c, o, i, u, d, a, g),
         NEW e \in {"attempting", "failed"}, Alive(o), c[2] > 0 => o.conn, o.ext # "succeeded"
  PROVE  LET o2 == [o EXCEPT !.ext = e] IN
         Local(c, o2, i, u, d, a, g) /\ (NoStep(o, i, u, d, a) => NoStep(o2, i, u, d, a))
<1> DEFINE o2 == [o EXCEPT !.ext = e]
<1>1. /\ o2.ext = e /\ o2.type = o.type /\ o2.conn = o.conn /\ o2.sendq = o.sendq BY DEF OutFields, OutSession
<1> HIDE DEF o2
<1>2. Local(c, o2, i, u, d, a, g) /\ (NoStep(o, i, u, d, a) => NoStep(o2, i, u, d, a))
  BY <1>1 DEF Local, OneStep, NoStep, Phase, Alive, UpStep, DownStep, Claim
<1> QED BY <1>2 DEF o2

(* The opener is told of success: the stream that is opened again is no    *)
(* authentication step.                                                    *)
LEMMA OutSuccess ==
  ASSUME NEW c, NEW o \in OutSession, NEW i, NEW u, NEW d, NEW a, NEW g, Local(c, o, i, u, d, a, g),
         Alive(o), c[2] > 0 => o.conn /\ i.ext = "succeeded", NEW o2,
         o2.type = "s2sout", o2.ext = "succeeded", o2.conn = o.conn, o2.sendq = o.sendq
  PROVE  Local(c, o2, i, u, d, a, g)
BY DEF Local, OneStep, NoStep, Phase, Alive, UpStep, DownStep, Claim

(* A new outgoing session on a connection not used yet. *)
LEMMA OutNew ==
  ASSUME NEW c, NEW o, NEW i, NEW u, NEW d, NEW a, NEW g, Local(c, o, i, u, d, a, g),
         c[2] > 0, o.type = "none", NEW x
  PROVE  Local(c, NewOut(x), i, u, d, a, g)
<1>1. Len(<<x>>) = 1 OBVIOUS
<1>2. 1 <= SendqSize BY S2sAssumption
<1> QED BY <1>1, <1>2 DEF Local, OneStep, Phase, Alive, UpStep, DownStep, Claim, NewOut

(* The acceptor's session may be offered EXTERNAL or be destroyed. *)
LEMMA InChange ==
  ASSUME NEW c, NEW o, NEW i, NEW u, NEW d, NEW a, NEW g, Local(c, o, i, u, d, a, g), NEW i2,
         i2.ext = i.ext \/ (i2.ext = "offered" /\ i.type = "s2sin_unauthed" /\ c[2] # 0),
         i2.type = i.type \/ (i2.type = "s2s_destroyed" /\ i.type \in {"s2sin_unauthed", "s2sin"})
  PROVE  Local(c, o, i2, u, d, a, g) /\ (NoStep(o, i, u, d, a) => NoStep(o, i2, u, d, a))
BY DEF Local, OneStep, NoStep, Phase, Alive, UpStep, DownStep, Claim, Accepted

(* The acceptor lets the opener in: the step in play ends. *)
LEMMA InAuth ==
  ASSUME NEW c, NEW o, NEW i, NEW u, NEW d, NEW a, NEW g, Local(c, o, i, u, d, a, g), NEW i2,
         c[2] > 0, NoStep(o, i, u, d, a), i2.type = "s2sin", i2.ext \in {i.ext, "succeeded"}, i.type # "none"
  PROVE  Local(c, o, i2, u, d, a, g)
BY DEF Local, OneStep, NoStep, Phase, Alive, UpStep, DownStep, Claim, Accepted

(* The question to the authoritative server is the step in play, until it  *)
(* is answered.                                                            *)
LEMMA Asking ==
  ASSUME NEW c, NEW o, NEW i, NEW u, NEW d, NEW a \in BOOLEAN, NEW g, Local(c, o, i, u, d, a, g)
  PROVE  /\ Local(c, o, i, u, d, FALSE, g)
         /\ a /\ c[2] > 0 => NoStep(o, i, u, d, FALSE)
         /\ (c[2] > 0 => NoStep(o, i, u, d, a) /\ o.conn) => Local(c, o, i, u, d, TRUE, g)
BY DEF Local, OneStep, NoStep, Phase

(* Nothing depends on the stanzas taken from a real connection. *)
LEMMA Gotten ==
  ASSUME NEW c, NEW o, NEW i, NEW u, NEW d, NEW a, NEW g, Local(c, o, i, u, d, a, g), c[2] # 0, NEW g2
  PROVE  Local(c, o, i, u, d, a, g2)
BY DEF Local
-----------------------------------------------------------------------------
(* The acceptor of c waits for the answer of the authoritative server. *)
Asked(y, c) == c \in y.req[Remote(c[1])]

(* The invariant of connection c in state y. *)
LocalAt(y, c) ==
  /\ Local(c, y.out[c], y.inc[c], y.up[c], y.down[c], Asked(y, c), y.got[c])
  /\ c \notin y.req[c[1]]

(* No authentication step of c is in play in state y. *)
FreeAt(y, c) == NoStep(y.out[c], y.inc[c], y.up[c], y.down[c], Asked(y, c))

Locals(y) == \A c \in Conn : LocalAt(y, c)

(* An accepted session that may be in the table of routes. *)
Usable(i) == i.type = "s2sin" /\ i.authed /\ i.outgoing

(* hosts[h].s2sout and the sessions agree. *)
Routes(y) ==
  /\ \A c \in Conn : Alive(y.out[c]) => y.tab[c[1]] = c
  /\ \A h \in Host : y.tab[h] # NoConn =>
       IF y.tab[h][1] = h THEN Alive(y.out[y.tab[h]]) ELSE Usable(y.inc[y.tab[h]])

(* The invariant without the stanzas. *)
Sound(y) == Typed(y) /\ Locals(y) /\ Routes(y)

(* There are two hosts. *)
LEMMA Hosts ==
  ASSUME NEW h \in Host
  PROVE  /\ Remote(h) \in Host /\ Remote(h) # h /\ \A g \in Host : g # h => g = Remote(h)
         /\ Remote(Remote(h)) = h
<1>1. PICK a \in Host, b \in Host : a # b /\ Host = {a, b} BY S2sAssumption
<1>2. \A x \in Host : \E g \in Host : g # x BY <1>1
<1>3. \A x \in Host : Remote(x) \in Host /\ Remote(x) # x
  <2> TAKE x \in Host
  <2>1. \E g \in Host : g # x BY <1>2
  <2> QED BY <2>1 DEF Remote
<1>4. h \in {a, b} /\ Remote(h) \in {a, b} /\ Remote(h) # h BY <1>1, <1>3
<1>5. Remote(Remote(h)) \in {a, b} /\ Remote(Remote(h)) # Remote(h) BY <1>1, <1>3
<1> QED BY <1>1, <1>4, <1>5

(* The parts of a connection's name. *)
LEMMA Conns ==
  ASSUME NEW c \in Conn
  PROVE  c[1] \in Host /\ c[2] \in Nat /\ c # NoConn
<1>1. PICK h \in Host, k \in 0..MaxConn : c = <<h, k>> BY DEF Conn
<1>2. k \in Nat BY S2sAssumption
<1> QED BY <1>1, <1>2 DEF NoConn

(* One field or one element of a field replaced. *)
SetUp(y, c, v) == [y EXCEPT !.up[c] = v]
SetDown(y, c, v) == [y EXCEPT !.down[c] = v]
SetOut(y, c, v) == [y EXCEPT !.out[c] = v]
SetIn(y, c, v) == [y EXCEPT !.inc[c] = v]
SetTab(y, h, v) == [y EXCEPT !.tab[h] = v]
SetReq(y, h, v) == [y EXCEPT !.req[h] = v]
SetSent(y, h, v) == [y EXCEPT !.sent[h] = v]
SetBounced(y, h, v) == [y EXCEPT !.bounced[h] = v]
SetRouted(y, h, v) == [y EXCEPT !.routed[h] = v]

(* Each replacement gives a typed state and leaves the other fields alone. *)
LEMMA SetUpFields ==
  ASSUME NEW y, Typed(y), NEW c \in Conn, NEW v \in Seq(ItemType)
  PROVE  LET z == SetUp(y, c, v) IN
         /\ Typed(z) /\ Frame(y, z, {"up"}) /\ z.up = [y.up EXCEPT ![c] = v]
<1> SUFFICES ASSUME NEW z, z = SetUp(y, c, v)
             PROVE  Typed(z) /\ Frame(y, z, {"up"}) /\ z.up = [y.up EXCEPT ![c] = v]
  OBVIOUS
<1>1. IsNet(z) /\ Frame(y, z, {"up"}) /\ z.up = [y.up EXCEPT ![c] = v]
  BY DEF Typed, Frame, IsNet, NetField, SetUp
<1>2. z.up \in [Conn -> Seq(ItemType)] BY <1>1, TypedFields
<1>3. z.up \in FieldSet.up BY ONLY <1>2, Zenon DEF FieldSet
<1> QED BY <1>1, <1>3, Retype, Zenon

(* The stream to the opener. *)
LEMMA SetDownFields ==
  ASSUME NEW y, Typed(y), NEW c \in Conn, NEW v \in Seq(DownItem)
  PROVE  LET z == SetDown(y, c, v) IN
         /\ Typed(z) /\ Frame(y, z, {"down"}) /\ z.down = [y.down EXCEPT ![c] = v]
<1> SUFFICES ASSUME NEW z, z = SetDown(y, c, v)
             PROVE  Typed(z) /\ Frame(y, z, {"down"}) /\ z.down = [y.down EXCEPT ![c] = v]
  OBVIOUS
<1>1. IsNet(z) /\ Frame(y, z, {"down"}) /\ z.down = [y.down EXCEPT ![c] = v]
  BY DEF Typed, Frame, IsNet, NetField, SetDown
<1>2. z.down \in [Conn -> Seq(DownItem)] BY <1>1, TypedFields
<1>3. z.down \in FieldSet.down BY ONLY <1>2, Zenon DEF FieldSet
<1> QED BY <1>1, <1>3, Retype, Zenon

(* The opener's session. *)
LEMMA SetOutFields ==
  ASSUME NEW y, Typed(y), NEW c \in Conn, NEW v \in OutSession
  PROVE  LET z == SetOut(y, c, v) IN
         /\ Typed(z) /\ Frame(y, z, {"out"}) /\ z.out = [y.out EXCEPT ![c] = v]
<1> SUFFICES ASSUME NEW z, z = SetOut(y, c, v)
             PROVE  Typed(z) /\ Frame(y, z, {"out"}) /\ z.out = [y.out EXCEPT ![c] = v]
  OBVIOUS
<1>1. IsNet(z) /\ Frame(y, z, {"out"}) /\ z.out = [y.out EXCEPT ![c] = v]
  BY DEF Typed, Frame, IsNet, NetField, SetOut
<1>2. z.out \in [Conn -> OutSession] BY <1>1, TypedFields
<1>3. z.out \in FieldSet.out BY ONLY <1>2, Zenon DEF FieldSet
<1> QED BY <1>1, <1>3, Retype, Zenon

(* The acceptor's session. *)
LEMMA SetInFields ==
  ASSUME NEW y, Typed(y), NEW c \in Conn, NEW v \in InSession
  PROVE  LET z == SetIn(y, c, v) IN
         /\ Typed(z) /\ Frame(y, z, {"inc"}) /\ z.inc = [y.inc EXCEPT ![c] = v]
<1> SUFFICES ASSUME NEW z, z = SetIn(y, c, v)
             PROVE  Typed(z) /\ Frame(y, z, {"inc"}) /\ z.inc = [y.inc EXCEPT ![c] = v]
  OBVIOUS
<1>1. IsNet(z) /\ Frame(y, z, {"inc"}) /\ z.inc = [y.inc EXCEPT ![c] = v]
  BY DEF Typed, Frame, IsNet, NetField, SetIn
<1>2. z.inc \in [Conn -> InSession] BY <1>1, TypedFields
<1>3. z.inc \in FieldSet.inc BY ONLY <1>2, Zenon DEF FieldSet
<1> QED BY <1>1, <1>3, Retype, Zenon

(* The route. *)
LEMMA SetTabFields ==
  ASSUME NEW y, Typed(y), NEW h \in Host, NEW v \in Conn \union {NoConn}
  PROVE  LET z == SetTab(y, h, v) IN
         /\ Typed(z) /\ Frame(y, z, {"tab"}) /\ z.tab = [y.tab EXCEPT ![h] = v]
<1> SUFFICES ASSUME NEW z, z = SetTab(y, h, v)
             PROVE  Typed(z) /\ Frame(y, z, {"tab"}) /\ z.tab = [y.tab EXCEPT ![h] = v]
  OBVIOUS
<1>1. IsNet(z) /\ Frame(y, z, {"tab"}) /\ z.tab = [y.tab EXCEPT ![h] = v]
  BY DEF Typed, Frame, IsNet, NetField, SetTab
<1>2. z.tab \in [Host -> Conn \union {NoConn}] BY <1>1, TypedFields
<1>3. z.tab \in FieldSet.tab BY ONLY <1>2, Zenon DEF FieldSet
<1> QED BY <1>1, <1>3, Retype, Zenon

(* The open questions. *)
LEMMA SetReqFields ==
  ASSUME NEW y, Typed(y), NEW h \in Host, NEW v \in SUBSET Conn
  PROVE  LET z == SetReq(y, h, v) IN
         /\ Typed(z) /\ Frame(y, z, {"req"}) /\ z.req = [y.req EXCEPT ![h] = v]
<1> SUFFICES ASSUME NEW z, z = SetReq(y, h, v)
             PROVE  Typed(z) /\ Frame(y, z, {"req"}) /\ z.req = [y.req EXCEPT ![h] = v]
  OBVIOUS
<1>1. IsNet(z) /\ Frame(y, z, {"req"}) /\ z.req = [y.req EXCEPT ![h] = v]
  BY DEF Typed, Frame, IsNet, NetField, SetReq
<1>2. z.req \in [Host -> SUBSET Conn] BY <1>1, TypedFields
<1>3. z.req \in FieldSet.req BY ONLY <1>2, Zenon DEF FieldSet
<1> QED BY <1>1, <1>3, Retype, Zenon

(* The stanzas written. *)
LEMMA SetSentFields ==
  ASSUME NEW y, Typed(y), NEW h \in Host, NEW v \in SUBSET Nat
  PROVE  LET z == SetSent(y, h, v) IN
         /\ Typed(z) /\ Frame(y, z, {"sent"}) /\ z.sent = [y.sent EXCEPT ![h] = v]
<1> SUFFICES ASSUME NEW z, z = SetSent(y, h, v)
             PROVE  Typed(z) /\ Frame(y, z, {"sent"}) /\ z.sent = [y.sent EXCEPT ![h] = v]
  OBVIOUS
<1>1. IsNet(z) /\ Frame(y, z, {"sent"}) /\ z.sent = [y.sent EXCEPT ![h] = v]
  BY DEF Typed, Frame, IsNet, NetField, SetSent
<1>2. z.sent \in [Host -> SUBSET Nat] BY <1>1, TypedFields
<1>3. z.sent \in FieldSet.sent BY ONLY <1>2, Zenon DEF FieldSet
<1> QED BY <1>1, <1>3, Retype, Zenon

(* The stanzas bounced. *)
LEMMA SetBouncedFields ==
  ASSUME NEW y, Typed(y), NEW h \in Host, NEW v \in SUBSET Nat
  PROVE  LET z == SetBounced(y, h, v) IN
         /\ Typed(z) /\ Frame(y, z, {"bounced"}) /\ z.bounced = [y.bounced EXCEPT ![h] = v]
<1> SUFFICES ASSUME NEW z, z = SetBounced(y, h, v)
             PROVE  Typed(z) /\ Frame(y, z, {"bounced"}) /\ z.bounced = [y.bounced EXCEPT ![h] = v]
  OBVIOUS
<1>1. IsNet(z) /\ Frame(y, z, {"bounced"}) /\ z.bounced = [y.bounced EXCEPT ![h] = v]
  BY DEF Typed, Frame, IsNet, NetField, SetBounced
<1>2. z.bounced \in [Host -> SUBSET Nat] BY <1>1, TypedFields
<1>3. z.bounced \in FieldSet.bounced BY ONLY <1>2, Zenon DEF FieldSet
<1> QED BY <1>1, <1>3, Retype, Zenon

(* The number of stanzas. *)
LEMMA SetRoutedFields ==
  ASSUME NEW y, Typed(y), NEW h \in Host, NEW v \in Nat
  PROVE  LET z == SetRouted(y, h, v) IN
         /\ Typed(z) /\ Frame(y, z, {"routed"}) /\ z.routed = [y.routed EXCEPT ![h] = v]
<1> SUFFICES ASSUME NEW z, z = SetRouted(y, h, v)
             PROVE  Typed(z) /\ Frame(y, z, {"routed"}) /\ z.routed = [y.routed EXCEPT ![h] = v]
  OBVIOUS
<1>1. IsNet(z) /\ Frame(y, z, {"routed"}) /\ z.routed = [y.routed EXCEPT ![h] = v]
  BY DEF Typed, Frame, IsNet, NetField, SetRouted
<1>2. z.routed \in [Host -> Nat] BY <1>1, TypedFields
<1>3. z.routed \in FieldSet.routed BY ONLY <1>2, Zenon DEF FieldSet
<1> QED BY <1>1, <1>3, Retype, Zenon

(* The invariant does not depend on the stanzas' books, on the flags and   *)
(* on what is cut.                                                         *)
LEMMA SameFields ==
  ASSUME NEW y, NEW z, Frame(y, z, {"cut", "routed", "sent", "bounced", "dropped", "early", "overflow"}), Typed(z), Sound(y)
  PROVE  Sound(z) /\ \A c \in Conn : FreeAt(z, c) = FreeAt(y, c)
<1>1. z.tab = y.tab /\ z.out = y.out /\ z.inc = y.inc /\ z.up = y.up /\ z.down = y.down /\ z.req = y.req /\ z.got = y.got
  BY DEF Frame, NetField
<1> QED BY <1>1 DEF Sound, Locals, LocalAt, Routes, Asked, FreeAt

(* A change of one stream that keeps its connection's invariant keeps them *)
(* all.                                                                    *)
LEMMA SoundUp ==
  ASSUME NEW y, Sound(y), NEW c \in Conn, NEW v,
         Local(c, y.out[c], y.inc[c], v, y.down[c], Asked(y, c), y.got[c])
  PROVE  LET z == SetUp(y, c, v) IN
         /\ Sound(z) /\ Frame(y, z, {"up"}) /\ z.up[c] = v
         /\ \A d \in Conn : d # c => (FreeAt(y, d) => FreeAt(z, d))
<1> DEFINE z == SetUp(y, c, v)
<1>0. Typed(y) BY DEF Sound
<1>1. v \in Seq(ItemType)
  <2>1. v \in Seq(UpItem(c)) /\ UpItem(c) \subseteq ItemType BY DEF Local, UpItem
  <2> QED BY <2>1
<1>2. Typed(z) /\ Frame(y, z, {"up"}) /\ z.up = [y.up EXCEPT ![c] = v] BY <1>0, <1>1, SetUpFields
<1> HIDE DEF z
<1>3. y.up \in [Conn -> Seq(ItemType)] BY TypedFields DEF Sound
<1>4. z.up[c] = v /\ \A d \in Conn : d # c => z.up[d] = y.up[d] BY <1>2, <1>3
<1>5. z.tab = y.tab /\ z.out = y.out /\ z.inc = y.inc /\ z.down = y.down /\ z.req = y.req /\ z.got = y.got
  BY <1>2 DEF Frame, NetField
<1>6. Locals(z) BY <1>4, <1>5 DEF Sound, Locals, LocalAt, Asked
<1>7. Routes(z) BY <1>5 DEF Sound, Routes
<1>9. /\ Sound(z) /\ Frame(y, z, {"up"}) /\ z.up[c] = v
      /\ \A d \in Conn : d # c => (FreeAt(y, d) => FreeAt(z, d))
  BY <1>2, <1>4, <1>5, <1>6, <1>7 DEF Sound, FreeAt, Asked
<1> QED BY <1>9 DEF z

(* The same for the other stream. *)
LEMMA SoundDown ==
  ASSUME NEW y, Sound(y), NEW c \in Conn, NEW v \in Seq(DownItem),
         Local(c, y.out[c], y.inc[c], y.up[c], v, Asked(y, c), y.got[c])
  PROVE  LET z == SetDown(y, c, v) IN
         /\ Sound(z) /\ Frame(y, z, {"down"}) /\ z.down[c] = v
         /\ \A d \in Conn : d # c => (FreeAt(y, d) => FreeAt(z, d))
<1> DEFINE z == SetDown(y, c, v)
<1>1. Typed(y) BY DEF Sound
<1>2. Typed(z) /\ Frame(y, z, {"down"}) /\ z.down = [y.down EXCEPT ![c] = v] BY <1>1, SetDownFields
<1> HIDE DEF z
<1>3. y.down \in [Conn -> Seq(DownItem)] BY TypedFields DEF Sound
<1>4. z.down[c] = v /\ \A d \in Conn : d # c => z.down[d] = y.down[d] BY <1>2, <1>3
<1>5. z.tab = y.tab /\ z.out = y.out /\ z.inc = y.inc /\ z.up = y.up /\ z.req = y.req /\ z.got = y.got
  BY <1>2 DEF Frame, NetField
<1>6. Locals(z) BY <1>4, <1>5 DEF Sound, Locals, LocalAt, Asked
<1>7. Routes(z) BY <1>5 DEF Sound, Routes
<1>9. /\ Sound(z) /\ Frame(y, z, {"down"}) /\ z.down[c] = v
      /\ \A d \in Conn : d # c => (FreeAt(y, d) => FreeAt(z, d))
  BY <1>2, <1>4, <1>5, <1>6, <1>7 DEF Sound, FreeAt, Asked
<1> QED BY <1>9 DEF z

(* The same for the opener's session, unless it starts or ends. *)
LEMMA SoundOut ==
  ASSUME NEW y, Sound(y), NEW c \in Conn, NEW v \in OutSession,
         Local(c, v, y.inc[c], y.up[c], y.down[c], Asked(y, c), y.got[c]),
         Alive(v) = Alive(y.out[c])
  PROVE  LET z == SetOut(y, c, v) IN
         /\ Sound(z) /\ Frame(y, z, {"out"}) /\ z.out[c] = v
         /\ \A d \in Conn : d # c => z.out[d] = y.out[d]
<1> DEFINE z == SetOut(y, c, v)
<1>1. Typed(y) BY DEF Sound
<1>2. Typed(z) /\ Frame(y, z, {"out"}) /\ z.out = [y.out EXCEPT ![c] = v] BY <1>1, SetOutFields
<1> HIDE DEF z
<1>3. y.out \in [Conn -> OutSession] /\ y.tab \in [Host -> Conn \union {NoConn}] BY TypedFields DEF Sound
<1>4. z.out[c] = v /\ \A d \in Conn : d # c => z.out[d] = y.out[d] BY <1>2, <1>3
<1>5. z.tab = y.tab /\ z.down = y.down /\ z.inc = y.inc /\ z.up = y.up /\ z.req = y.req /\ z.got = y.got
  BY <1>2 DEF Frame, NetField
<1>6. Locals(z) BY <1>4, <1>5 DEF Sound, Locals, LocalAt, Asked
<1>7. \A d \in Conn : Alive(z.out[d]) = Alive(y.out[d]) BY <1>4
<1>8. Routes(z) BY <1>3, <1>5, <1>7 DEF Sound, Routes
<1>9. /\ Sound(z) /\ Frame(y, z, {"out"}) /\ z.out[c] = v
      /\ \A d \in Conn : d # c => z.out[d] = y.out[d]
  BY <1>2, <1>4, <1>6, <1>8 DEF Sound
<1> QED BY <1>9 DEF z

(* The same for the acceptor's, unless it was a route and no longer can    *)
(* be.                                                                     *)
LEMMA SoundIn ==
  ASSUME NEW y, Sound(y), NEW c \in Conn, NEW v \in InSession,
         Local(c, y.out[c], v, y.up[c], y.down[c], Asked(y, c), y.got[c]),
         Usable(y.inc[c]) => Usable(v)
  PROVE  LET z == SetIn(y, c, v) IN
         /\ Sound(z) /\ Frame(y, z, {"inc"}) /\ z.inc[c] = v
         /\ \A d \in Conn : d # c => z.inc[d] = y.inc[d]
<1> DEFINE z == SetIn(y, c, v)
<1>1. Typed(y) BY DEF Sound
<1>2. Typed(z) /\ Frame(y, z, {"inc"}) /\ z.inc = [y.inc EXCEPT ![c] = v] BY <1>1, SetInFields
<1> HIDE DEF z
<1>3. y.inc \in [Conn -> InSession] /\ y.tab \in [Host -> Conn \union {NoConn}] BY TypedFields DEF Sound
<1>4. z.inc[c] = v /\ \A d \in Conn : d # c => z.inc[d] = y.inc[d] BY <1>2, <1>3
<1>5. z.tab = y.tab /\ z.down = y.down /\ z.out = y.out /\ z.up = y.up /\ z.req = y.req /\ z.got = y.got
  BY <1>2 DEF Frame, NetField
<1>6. Locals(z) BY <1>4, <1>5 DEF Sound, Locals, LocalAt, Asked
<1>7. \A d \in Conn : Usable(y.inc[d]) => Usable(z.inc[d]) BY <1>4
<1>8. Routes(z) BY <1>3, <1>5, <1>7 DEF Sound, Routes
<1>9. /\ Sound(z) /\ Frame(y, z, {"inc"}) /\ z.inc[c] = v
      /\ \A d \in Conn : d # c => z.inc[d] = y.inc[d]
  BY <1>2, <1>4, <1>6, <1>8 DEF Sound
<1> QED BY <1>9 DEF z
-----------------------------------------------------------------------------
(* The items the handlers write are of the kinds their streams carry. *)
LEMMA Items ==
  /\ \A c \in Conn : /\ QueueItem \subseteq UpItem(c)
                     /\ \A t \in {"open", "bidi", "auth", "end"} : Item(t, NoConn, TRUE) \in UpItem(c)
                     /\ c[2] > 0 => Item("result", c, TRUE) \in UpItem(c)
                     /\ \A ok \in BOOLEAN : Item("dbresult", c, ok) \in DownItem
  /\ QueueItem \subseteq DownItem /\ QueueItem \subseteq ItemType
  /\ \A t \in {"success", "failure", "end"} : Item(t, NoConn, TRUE) \in DownItem
  /\ \A ok \in BOOLEAN : Item("features", NoConn, ok) \in DownItem
  /\ \A n \in Nat : Msg(n) \in QueueItem
BY DEF Item, Msg, UpItem, DownItem, QueueItem, ItemType, Unforged

(* session.sends2s of an outgoing session, for what is no authentication   *)
(* step.                                                                   *)
LEMMA UpKeeps ==
  ASSUME NEW y, Sound(y), NEW c \in Conn, NEW v \in Seq(UpItem(c)),
         \A k \in DOMAIN v : ~UpStep(v[k], y.out[c])
  PROVE  LET z == Up(y, c, v) IN
         /\ Sound(z) /\ Frame(y, z, {"up"}) /\ \A d \in Conn : FreeAt(y, d) => FreeAt(z, d)
<1> DEFINE u == y.up[c] \o v
           w == SetUp(y, c, u)
<1>1. Up(y, c, v) = IF c \in y.cut THEN y ELSE w BY DEF Up, SetUp
<1>2. y.down[c] \in Seq(DownItem) BY TypedFields DEF Sound
<1>3. Local(c, y.out[c], y.inc[c], y.up[c], y.down[c], Asked(y, c), y.got[c]) BY DEF Sound, Locals, LocalAt
<1>4. /\ Local(c, y.out[c], y.inc[c], u, y.down[c], Asked(y, c), y.got[c])
      /\ FreeAt(y, c) => NoStep(y.out[c], y.inc[c], u, y.down[c], Asked(y, c))
  BY <1>2, <1>3, UpCalm DEF FreeAt
<1> HIDE DEF u
<1>5. /\ Sound(w) /\ Frame(y, w, {"up"}) /\ w.up[c] = u
      /\ \A d \in Conn : d # c => (FreeAt(y, d) => FreeAt(w, d))
  BY <1>4, SoundUp
<1>6. FreeAt(y, c) => FreeAt(w, c)
  <2> HIDE DEF w
  <2>1. w.out = y.out /\ w.inc = y.inc /\ w.down = y.down /\ w.req = y.req BY <1>5 DEF Frame, NetField
  <2> QED BY <2>1, <1>4, <1>5 DEF FreeAt, Asked
<1>7. Frame(y, y, {"up"}) BY DEF Frame
<1> QED BY <1>1, <1>5, <1>6, <1>7

(* session.sends2s of an outgoing session, for an authentication step. *)
LEMMA UpActs ==
  ASSUME NEW y, Sound(y), NEW c \in Conn, NEW x \in UpItem(c), FreeAt(y, c)
  PROVE  Sound(Up(y, c, <<x>>)) /\ Frame(y, Up(y, c, <<x>>), {"up"})
<1> DEFINE u == y.up[c] \o <<x>>
           w == SetUp(y, c, u)
<1>1. Up(y, c, <<x>>) = IF c \in y.cut THEN y ELSE w BY DEF Up, SetUp
<1>2. y.down[c] \in Seq(DownItem) BY TypedFields DEF Sound
<1>3. Local(c, y.out[c], y.inc[c], y.up[c], y.down[c], Asked(y, c), y.got[c]) BY DEF Sound, Locals, LocalAt
<1>4. Local(c, y.out[c], y.inc[c], u, y.down[c], Asked(y, c), y.got[c])
  BY <1>2, <1>3, UpAct DEF FreeAt
<1> HIDE DEF u
<1>5. Sound(w) /\ Frame(y, w, {"up"}) BY <1>4, SoundUp
<1>6. Frame(y, y, {"up"}) BY DEF Frame
<1> QED BY <1>1, <1>5, <1>6

(* session.sends2s of an accepted session, for what is no authentication   *)
(* step.                                                                   *)
LEMMA DownKeeps ==
  ASSUME NEW y, Sound(y), NEW c \in Conn, NEW v \in Seq(DownItem),
         \A k \in DOMAIN v : ~DownStep(v[k], y.out[c]), c[2] > 0 => y.out[c].conn,
         (\E k \in DOMAIN v : v[k].t = "success") => y.inc[c].ext = "succeeded"
  PROVE  LET z == Down(y, c, v) IN
         /\ Sound(z) /\ Frame(y, z, {"down"}) /\ \A d \in Conn : FreeAt(y, d) => FreeAt(z, d)
<1> DEFINE u == y.down[c] \o v
           w == SetDown(y, c, u)
<1>1. Down(y, c, v) = IF c \in y.cut \/ y.inc[c].closing THEN y ELSE w BY DEF Down, SetDown
<1>2. y.down[c] \in Seq(DownItem) BY TypedFields DEF Sound
<1>a. u \in Seq(DownItem) BY <1>2
<1>3. Local(c, y.out[c], y.inc[c], y.up[c], y.down[c], Asked(y, c), y.got[c]) BY DEF Sound, Locals, LocalAt
<1>4. /\ Local(c, y.out[c], y.inc[c], y.up[c], u, Asked(y, c), y.got[c])
      /\ FreeAt(y, c) => NoStep(y.out[c], y.inc[c], y.up[c], u, Asked(y, c))
  BY <1>2, <1>3, DownCalm DEF FreeAt
<1> HIDE DEF u
<1>5. /\ Sound(w) /\ Frame(y, w, {"down"}) /\ w.down[c] = u
      /\ \A d \in Conn : d # c => (FreeAt(y, d) => FreeAt(w, d))
  BY <1>4, <1>a, SoundDown
<1>6. FreeAt(y, c) => FreeAt(w, c)
  <2> HIDE DEF w
  <2>1. w.out = y.out /\ w.inc = y.inc /\ w.up = y.up /\ w.req = y.req BY <1>5 DEF Frame, NetField
  <2> QED BY <2>1, <1>4, <1>5 DEF FreeAt, Asked
<1>7. Frame(y, y, {"down"}) BY DEF Frame
<1> QED BY <1>1, <1>5, <1>6, <1>7

(* session.sends2s of an accepted session, for an authentication step. *)
LEMMA DownActs ==
  ASSUME NEW y, Sound(y), NEW c \in Conn, NEW x \in DownItem, x.t # "success",
         c[2] > 0 => FreeAt(y, c) /\ y.out[c].conn
  PROVE  Sound(Down(y, c, <<x>>)) /\ Frame(y, Down(y, c, <<x>>), {"down"})
<1> DEFINE u == y.down[c] \o <<x>>
           w == SetDown(y, c, u)
<1>1. Down(y, c, <<x>>) = IF c \in y.cut \/ y.inc[c].closing THEN y ELSE w BY DEF Down, SetDown
<1>2. y.down[c] \in Seq(DownItem) BY TypedFields DEF Sound
<1>a. u \in Seq(DownItem) BY <1>2
<1>3. Local(c, y.out[c], y.inc[c], y.up[c], y.down[c], Asked(y, c), y.got[c]) BY DEF Sound, Locals, LocalAt
<1>4. Local(c, y.out[c], y.inc[c], y.up[c], u, Asked(y, c), y.got[c])
  BY <1>2, <1>3, DownAct DEF FreeAt
<1> HIDE DEF u
<1>5. Sound(w) /\ Frame(y, w, {"down"}) BY <1>4, <1>a, SoundDown
<1>6. Frame(y, y, {"down"}) BY DEF Frame
<1> QED BY <1>1, <1>5, <1>6
-----------------------------------------------------------------------------
(* Of n stanzas each is written, bounced, queued, or in the hands of the   *)
(* handler (M), and only one of these.                                     *)
Booked(S, B, Q, M, n) ==
  /\ S \union B \union Q \union M = 1..n
  /\ S \intersect B = {} /\ S \intersect Q = {} /\ S \intersect M = {}
  /\ B \intersect Q = {} /\ B \intersect M = {} /\ Q \intersect M = {}

(* The stanzas waiting in h's sessions. *)
Queued(y, h) == UNION {Numbers(y.out[c].sendq) : c \in {d \in Conn : d[1] = h}}

(* The books of h while its handler holds the stanzas M. *)
Books(y, h, M) == Booked(y.sent[h], y.bounced[h], Queued(y, h), M, y.routed[h])

(* A stanza that changes hands stays booked once. *)
LEMMA BookedMoves ==
  ASSUME NEW S, NEW B, NEW Q, NEW M, NEW n, Booked(S, B, Q, M, n)
  PROVE  /\ Booked(S \union M, B, Q, {}, n)
         /\ Booked(S, B \union M, Q, {}, n)
         /\ Booked(S, B, Q \union M, {}, n)
         /\ Booked(S \union Q, B, {}, M, n)
         /\ Booked(S, B \union Q, {}, M, n)
         /\ M = {} => Booked(S, B, {}, Q, n)
<1> DEFINE R == 1..n
<1>1. S \union B \union Q \union M = R BY DEF Booked
<1> HIDE DEF R
<1>2. /\ (S \union M) \union B \union Q \union {} = R
      /\ S \union (B \union M) \union Q \union {} = R
      /\ S \union B \union (Q \union M) \union {} = R
      /\ (S \union Q) \union B \union {} \union M = R
      /\ S \union (B \union Q) \union {} \union M = R
      /\ M = {} => S \union B \union {} \union Q = R
  BY <1>1
<1> QED BY <1>2 DEF Booked, R

(* The stanzas in a sequence of one item, *)
LEMMA OneNumber ==
  ASSUME NEW x \in ItemType
  PROVE  Numbers(<<x>>) = IF x.t = "msg" THEN {x.n} ELSE {}
BY DEF Numbers

(* of a sequence with an item added, *)
LEMMA NumbersOf ==
  ASSUME NEW q \in Seq(ItemType)
  PROVE  /\ Numbers(q) \subseteq Nat
         /\ \A x \in ItemType : Numbers(Append(q, x)) = Numbers(q) \union Numbers(<<x>>)
<1>a. \A k \in DOMAIN q : q[k] \in ItemType OBVIOUS
<1>1. Numbers(q) \subseteq Nat BY <1>a DEF Numbers, ItemType
<1>4. ASSUME NEW x \in ItemType PROVE Numbers(Append(q, x)) = Numbers(q) \union Numbers(<<x>>)
  <2> DEFINE r == Append(q, x)
  <2>1. /\ DOMAIN r = DOMAIN q \union {Len(q) + 1} /\ r[Len(q) + 1] = x
        /\ \A k \in DOMAIN q : r[k] = q[k]
    OBVIOUS
  <2> HIDE DEF r
  <2>2. Numbers(r) = Numbers(q) \union (IF x.t = "msg" THEN {x.n} ELSE {}) BY <2>1 DEF Numbers
  <2> QED BY <2>2, OneNumber DEF r
<1> QED BY <1>1, <1>4

(* and of no item. *)
LEMMA NoNumbers == Numbers(<<>>) = {}
BY DEF Numbers

(* Only the one live outgoing session holds stanzas. *)
LEMMA QueuedIs ==
  ASSUME NEW y, Sound(y), NEW h \in Host
  PROVE  /\ \A c \in Conn : Alive(y.out[c]) /\ c[1] = h => Queued(y, h) = Numbers(y.out[c].sendq)
         /\ (\A c \in Conn : c[1] = h => ~Alive(y.out[c])) => Queued(y, h) = {}
<1>1. \A c \in Conn : ~Alive(y.out[c]) => Numbers(y.out[c].sendq) = {}
  BY NoNumbers DEF Sound, Locals, LocalAt, Local
<1>2. \A c, d \in Conn : Alive(y.out[c]) /\ Alive(y.out[d]) /\ c[1] = h /\ d[1] = h => c = d
  BY DEF Sound, Routes
<1> QED BY <1>1, <1>2 DEF Queued

(* The books are right but for the stanzas M that h's handler holds. *)
Balance(y, h, M) == Books(y, h, M) /\ \A g \in Host : g # h => Books(y, g, {})

(* The inductive invariant of the two servers. *)
Good(y) == Sound(y) /\ \A h \in Host : Books(y, h, {})

(* What leaves stanzas and queues alone leaves the books right. *)
LEMMA GoodFrame ==
  ASSUME NEW y, Good(y), NEW z, Sound(z), z.sent = y.sent, z.bounced = y.bounced,
         z.routed = y.routed, \A c \in Conn : z.out[c].sendq = y.out[c].sendq
  PROVE  Good(z)
<1>1. \A h \in Host : Queued(z, h) = Queued(y, h) BY DEF Queued
<1> QED BY <1>1 DEF Good, Books

(* Stanzas counted as written. *)
Wrote(y, h, q) == [y EXCEPT !.sent[h] = @ \union Numbers(q)]

(* Counting stanzas as written, *)
LEMMA SentFields ==
  ASSUME NEW y, Sound(y), NEW h \in Host, NEW q \in Seq(ItemType)
  PROVE  LET z == Wrote(y, h, q) IN
         /\ Sound(z) /\ Frame(y, z, {"sent"}) /\ z.sent = [y.sent EXCEPT ![h] = @ \union Numbers(q)]
         /\ \A c \in Conn : FreeAt(z, c) = FreeAt(y, c)
<1> DEFINE n == y.sent[h] \union Numbers(q)
           z == SetSent(y, h, n)
<1>1. Typed(y) BY DEF Sound
<1>2. n \in SUBSET Nat BY <1>1, TypedFields, NumbersOf
<1>3. Wrote(y, h, q) = z BY DEF SetSent, Wrote
<1> HIDE DEF n
<1>4. Typed(z) /\ Frame(y, z, {"sent"}) /\ z.sent = [y.sent EXCEPT ![h] = n] BY <1>1, <1>2, SetSentFields
<1>5. Frame(y, z, {"cut", "routed", "sent", "bounced", "dropped", "early", "overflow"}) BY <1>4 DEF Frame
<1>6. Sound(z) /\ \A c \in Conn : FreeAt(z, c) = FreeAt(y, c)
  <2> HIDE DEF z
  <2> QED BY <1>4, <1>5, SameFields
<1> QED BY <1>3, <1>4, <1>6 DEF n

(* and as bounced, changes nothing else. *)
LEMMA BounceFields ==
  ASSUME NEW y, Sound(y), NEW h \in Host, NEW q \in Seq(ItemType)
  PROVE  LET z == bounce_sendq(y, h, q) IN
         /\ Sound(z) /\ Frame(y, z, {"bounced"}) /\ z.bounced = [y.bounced EXCEPT ![h] = @ \union Numbers(q)]
         /\ \A c \in Conn : FreeAt(z, c) = FreeAt(y, c)
<1> DEFINE n == y.bounced[h] \union Numbers(q)
           z == SetBounced(y, h, n)
<1>1. Typed(y) BY DEF Sound
<1>2. n \in SUBSET Nat BY <1>1, TypedFields, NumbersOf
<1>3. bounce_sendq(y, h, q) = z BY DEF SetBounced, bounce_sendq
<1> HIDE DEF n
<1>4. Typed(z) /\ Frame(y, z, {"bounced"}) /\ z.bounced = [y.bounced EXCEPT ![h] = n] BY <1>1, <1>2, SetBouncedFields
<1>5. Frame(y, z, {"cut", "routed", "sent", "bounced", "dropped", "early", "overflow"}) BY <1>4 DEF Frame
<1>6. Sound(z) /\ \A c \in Conn : FreeAt(z, c) = FreeAt(y, c)
  <2> HIDE DEF z
  <2> QED BY <1>4, <1>5, SameFields
<1> QED BY <1>3, <1>4, <1>6 DEF n

(* Numbers leave the hand for the peer or for the sender. *)
LEMMA Delivered ==
  ASSUME NEW y, Sound(y), NEW h \in Host, NEW N, Balance(y, h, N), NEW z, Sound(z),
         z.out = y.out, z.routed = y.routed,
         \/ z.sent = [y.sent EXCEPT ![h] = @ \union N] /\ z.bounced = y.bounced
         \/ z.bounced = [y.bounced EXCEPT ![h] = @ \union N] /\ z.sent = y.sent
  PROVE  Good(z)
<1>1. y.sent \in [Host -> SUBSET Nat] /\ y.bounced \in [Host -> SUBSET Nat] BY TypedFields DEF Sound
<1>2. \A g \in Host : Queued(z, g) = Queued(y, g) BY DEF Queued
<1>3. ASSUME NEW g \in Host, g # h PROVE Books(z, g, {})
  BY <1>1, <1>2, <1>3 DEF Books, Balance
<1>4. Books(z, h, {})
  <2>1. Booked(y.sent[h], y.bounced[h], Queued(y, h), N, y.routed[h]) BY DEF Balance, Books
  <2>2. \/ z.sent[h] = y.sent[h] \union N /\ z.bounced[h] = y.bounced[h]
        \/ z.bounced[h] = y.bounced[h] \union N /\ z.sent[h] = y.sent[h]
    BY <1>1
  <2>3. /\ Booked(y.sent[h] \union N, y.bounced[h], Queued(y, h), {}, y.routed[h])
        /\ Booked(y.sent[h], y.bounced[h] \union N, Queued(y, h), {}, y.routed[h])
    BY <2>1, BookedMoves
  <2> QED BY <1>2, <2>2, <2>3 DEF Books
<1> QED BY <1>3, <1>4 DEF Good

(* Writing queued items, on whichever session is the route, is no          *)
(* authentication step.                                                    *)
LEMMA WriteSound ==
  ASSUME NEW y, Sound(y), NEW h \in Host, NEW c \in Conn, NEW q \in Seq(QueueItem),
         c[1] # h /\ c[2] > 0 => y.out[c].conn
  PROVE  LET z == Write(y, h, c, q) IN
         /\ Sound(z) /\ Frame(y, z, {"up", "down", "sent"})
         /\ z.sent = [y.sent EXCEPT ![h] = @ \union Numbers(q)]
<1> DEFINE w == Wrote(y, h, q)
<1>1. q \in Seq(UpItem(c)) /\ q \in Seq(DownItem) /\ q \in Seq(ItemType)
  <2>1. QueueItem \subseteq UpItem(c) /\ QueueItem \subseteq DownItem /\ QueueItem \subseteq ItemType BY Items
  <2> QED BY <2>1
<1>2. \A k \in DOMAIN q : q[k].t \in {"msg", "verify"} BY DEF QueueItem
<1>3. Sound(w) /\ Frame(y, w, {"sent"}) /\ w.sent = [y.sent EXCEPT ![h] = @ \union Numbers(q)] BY <1>1, SentFields
<1>4. Write(y, h, c, q) = IF c[1] = h THEN Up(w, c, q) ELSE Down(w, c, q) BY DEF Write, Wrote
<1> HIDE DEF w
<1>5. w.out = y.out /\ w.inc = y.inc BY <1>3 DEF Frame, NetField
<1>6. Sound(Up(w, c, q)) /\ Frame(w, Up(w, c, q), {"up"})
  BY <1>1, <1>2, <1>3, UpKeeps DEF UpStep
<1>7. ASSUME c[1] # h PROVE Sound(Down(w, c, q)) /\ Frame(w, Down(w, c, q), {"down"})
  <2>1. \A k \in DOMAIN q : ~DownStep(q[k], w.out[c]) /\ q[k].t # "success" BY <1>2 DEF DownStep
  <2> QED BY <1>1, <2>1, <1>3, <1>5, <1>7, DownKeeps
<1>8. \A z : Frame(w, z, {"up"}) \/ Frame(w, z, {"down"}) => Frame(y, z, {"up", "down", "sent"}) /\ z.sent = w.sent
  BY <1>3 DEF Frame, NetField
<1> QED BY <1>3, <1>4, <1>6, <1>7, <1>8

(* An item routed is written. *)
LEMMA WriteGood ==
  ASSUME NEW y, Sound(y), NEW h \in Host, NEW c \in Conn, NEW x \in QueueItem,
         c[1] # h /\ c[2] > 0 => y.out[c].conn, Balance(y, h, Numbers(<<x>>))
  PROVE  Good(Write(y, h, c, <<x>>))
<1> DEFINE q == <<x>>
           z == Write(y, h, c, q)
<1>0. q \in Seq(QueueItem) OBVIOUS
<1> HIDE DEF q
<1>1. /\ Sound(z) /\ Frame(y, z, {"up", "down", "sent"})
      /\ z.sent = [y.sent EXCEPT ![h] = @ \union Numbers(q)]
  BY <1>0, WriteSound
<1> HIDE DEF z
<1>2. z.out = y.out /\ z.routed = y.routed /\ z.bounced = y.bounced BY <1>1 DEF Frame, NetField
<1>3. Balance(y, h, Numbers(q)) BY DEF q
<1>4. Good(z) BY <1>1, <1>2, <1>3, Delivered
<1> QED BY <1>4 DEF z, q

(* The items held are bounced. *)
LEMMA BounceGood ==
  ASSUME NEW y, Sound(y), NEW h \in Host, NEW q \in Seq(ItemType), Balance(y, h, Numbers(q))
  PROVE  Good(bounce_sendq(y, h, q))
<1> DEFINE z == bounce_sendq(y, h, q)
<1>1. /\ Sound(z) /\ Frame(y, z, {"bounced"})
      /\ z.bounced = [y.bounced EXCEPT ![h] = @ \union Numbers(q)]
  BY BounceFields
<1> HIDE DEF z
<1>2. z.out = y.out /\ z.routed = y.routed /\ z.sent = y.sent BY <1>1 DEF Frame, NetField
<1>3. Good(z) BY <1>1, <1>2, Delivered
<1> QED BY <1>3 DEF z

(* The flags and what is cut do not matter. *)
LEMMA GoodFlags ==
  ASSUME NEW y, Good(y), NEW z, Typed(z), Frame(y, z, {"cut", "dropped", "early", "overflow"})
  PROVE  Good(z)
<1>1. Frame(y, z, {"cut", "routed", "sent", "bounced", "dropped", "early", "overflow"}) BY DEF Frame
<1>2. Sound(z) BY <1>1, SameFields DEF Good
<1>3. z.out = y.out /\ z.sent = y.sent /\ z.bounced = y.bounced /\ z.routed = y.routed BY DEF Frame, NetField
<1> QED BY <1>2, <1>3, GoodFrame

(* The flags. *)
SetOverflow(y) == [y EXCEPT !.overflow = TRUE]
SetDropped(y, v) == [y EXCEPT !.dropped = v]
SetCut(y, v) == [y EXCEPT !.cut = v]
SetEarly(y, v) == [y EXCEPT !.early = v]

(* Setting them keeps the invariant. *)
LEMMA SetFlags ==
  ASSUME NEW y, Good(y)
  PROVE  /\ Good(SetOverflow(y))
         /\ \A v \in BOOLEAN : Good(SetDropped(y, v))
         /\ \A v \in SUBSET Conn : Good(SetCut(y, v))
         /\ \A v \in SUBSET EarlyItem : Good(SetEarly(y, v)) /\ Frame(y, SetEarly(y, v), {"early"})
                                       /\ SetEarly(y, v).early = v
<1>0. Typed(y) BY DEF Good, Sound
<1>1. Good(SetOverflow(y))
  <2> SUFFICES ASSUME NEW z, z = SetOverflow(y) PROVE Good(z) OBVIOUS
  <2>1. IsNet(z) /\ Frame(y, z, {"overflow"}) /\ z.overflow = TRUE BY <1>0 DEF SetOverflow, Typed, IsNet, Frame, NetField
  <2>2. z.overflow \in FieldSet.overflow BY ONLY <2>1, Zenon DEF FieldSet
  <2>3. Typed(z) BY <1>0, <2>1, <2>2, Retype, Zenon
  <2>4. Frame(y, z, {"cut", "dropped", "early", "overflow"}) BY <2>1 DEF Frame
  <2> QED BY <2>3, <2>4, GoodFlags
<1>2. ASSUME NEW v \in BOOLEAN PROVE Good(SetDropped(y, v))
  <2> SUFFICES ASSUME NEW z, z = SetDropped(y, v) PROVE Good(z) OBVIOUS
  <2>1. IsNet(z) /\ Frame(y, z, {"dropped"}) /\ z.dropped = v BY <1>0 DEF SetDropped, Typed, IsNet, Frame, NetField
  <2>2. z.dropped \in FieldSet.dropped BY <2>1 DEF FieldSet
  <2>3. Typed(z) BY <1>0, <2>1, <2>2, Retype, Zenon
  <2>4. Frame(y, z, {"cut", "dropped", "early", "overflow"}) BY <2>1 DEF Frame
  <2> QED BY <2>3, <2>4, GoodFlags
<1>3. ASSUME NEW v \in SUBSET Conn PROVE Good(SetCut(y, v))
  <2> SUFFICES ASSUME NEW z, z = SetCut(y, v) PROVE Good(z) OBVIOUS
  <2>1. IsNet(z) /\ Frame(y, z, {"cut"}) /\ z.cut = v BY <1>0 DEF SetCut, Typed, IsNet, Frame, NetField
  <2>2. z.cut \in FieldSet.cut BY <2>1 DEF FieldSet
  <2>3. Typed(z) BY <1>0, <2>1, <2>2, Retype, Zenon
  <2>4. Frame(y, z, {"cut", "dropped", "early", "overflow"}) BY <2>1 DEF Frame
  <2> QED BY <2>3, <2>4, GoodFlags
<1>4. ASSUME NEW v \in SUBSET EarlyItem
      PROVE  Good(SetEarly(y, v)) /\ Frame(y, SetEarly(y, v), {"early"}) /\ SetEarly(y, v).early = v
  <2> SUFFICES ASSUME NEW z, z = SetEarly(y, v) PROVE Good(z) /\ Frame(y, z, {"early"}) /\ z.early = v OBVIOUS
  <2>1. IsNet(z) /\ Frame(y, z, {"early"}) /\ z.early = v BY <1>0 DEF SetEarly, Typed, IsNet, Frame, NetField
  <2>2. z.early \in FieldSet.early BY <2>1 DEF FieldSet
  <2>3. Typed(z) BY <1>0, <2>1, <2>2, Retype, Zenon
  <2>4. Frame(y, z, {"cut", "dropped", "early", "overflow"}) BY <2>1 DEF Frame
  <2> QED BY <2>1, <2>3, <2>4, GoodFlags
<1> QED BY <1>1, <1>2, <1>3, <1>4

(* The invariant of connection c, with the types of its parts. *)
LEMMA At ==
  ASSUME NEW y, Sound(y), NEW c \in Conn
  PROVE  /\ y.out[c] \in OutSession /\ y.inc[c] \in InSession /\ y.up[c] \in Seq(ItemType)
         /\ y.down[c] \in Seq(DownItem) /\ Asked(y, c) \in BOOLEAN /\ y.out[c].sendq \in Seq(QueueItem)
         /\ y.out[c].sendq \in Seq(ItemType)
         /\ Local(c, y.out[c], y.inc[c], y.up[c], y.down[c], Asked(y, c), y.got[c])
         /\ c \notin y.req[c[1]]
<1>1. y.out[c] \in OutSession /\ y.inc[c] \in InSession /\ y.up[c] \in Seq(ItemType) /\ y.down[c] \in Seq(DownItem)
  BY TypedFields DEF Sound
<1>2. y.out[c].sendq \in Seq(QueueItem) BY <1>1 DEF OutFields, OutSession
<1>3. QueueItem \subseteq ItemType BY DEF QueueItem
<1>4. y.out[c].sendq \in Seq(ItemType) BY <1>2, <1>3
<1>5. LocalAt(y, c) BY DEF Sound, Locals
<1> QED BY <1>1, <1>2, <1>4, <1>5 DEF LocalAt, Asked

(* What a route leads to: the one live outgoing session, or an accepted    *)
(* one when there is none.                                                 *)
LEMMA RouteIs ==
  ASSUME NEW y, Sound(y), NEW h \in Host, y.tab[h] # NoConn
  PROVE  /\ y.tab[h] \in Conn
         /\ y.tab[h][1] = h => Alive(y.out[y.tab[h]])
         /\ y.tab[h][1] # h => /\ Usable(y.inc[y.tab[h]]) /\ y.tab[h][2] > 0 /\ y.out[y.tab[h]].conn
                             /\ \A c \in Conn : c[1] = h => ~Alive(y.out[c])
<1> DEFINE c == y.tab[h]
<1>1. c \in Conn BY TypedFields DEF Sound
<1>2. IF c[1] = h THEN Alive(y.out[c]) ELSE Usable(y.inc[c]) BY DEF Sound, Routes
<1>3. \A d \in Conn : Alive(y.out[d]) /\ d[1] = h => d = c BY DEF Sound, Routes
<1>4. Local(c, y.out[c], y.inc[c], y.up[c], y.down[c], Asked(y, c), y.got[c]) BY <1>1, At
<1>5. c[2] \in Nat BY <1>1, Conns
<1>6. c[1] # h => c[2] > 0 /\ y.out[c].conn BY <1>2, <1>4, <1>5 DEF Local, Claim, Phase, Usable
<1> QED BY <1>1, <1>2, <1>3, <1>6

(* The item waits. *)
Enqueue(y, c, x) == [y EXCEPT !.out[c].sendq = Append(@, x)]

(* Queueing an item where there is room keeps the invariant. *)
LEMMA QueueGood ==
  ASSUME NEW y, Sound(y), NEW c \in Conn, NEW x \in QueueItem, Alive(y.out[c]),
         Balance(y, c[1], Numbers(<<x>>)), Len(y.out[c].sendq) < SendqSize
  PROVE  Good(Enqueue(y, c, x))
<1> DEFINE o == y.out[c]
           q == Append(o.sendq, x)
           v == [o EXCEPT !.sendq = q]
           z == SetOut(y, c, v)
           h == c[1]
<1>1. Enqueue(y, c, x) = z BY DEF SetOut, Enqueue
<1>2. /\ o \in OutSession /\ o.sendq \in Seq(QueueItem) /\ o.sendq \in Seq(ItemType) BY At
<1>3. Local(c, o, y.inc[c], y.up[c], y.down[c], Asked(y, c), y.got[c]) BY At
<1>4. q \in Seq(QueueItem) /\ Len(q) = Len(o.sendq) + 1 BY <1>2
<1>5. Len(q) <= SendqSize BY <1>2, <1>4, S2sAssumption
<1>6. Numbers(q) = Numbers(o.sendq) \union Numbers(<<x>>) BY <1>2, NumbersOf DEF QueueItem
<1> HIDE DEF q, o
<1>7. v \in OutSession /\ v.type = o.type /\ v.ext = o.ext /\ v.conn = o.conn /\ v.sendq = q BY <1>2, <1>4 DEF OutFields, OutSession
<1> HIDE DEF v
<1>8. Alive(v) /\ Alive(o) /\ o.type # "none" BY <1>7 DEF Alive, o
<1>9. Local(c, v, y.inc[c], y.up[c], y.down[c], Asked(y, c), y.got[c])
  BY <1>3, <1>5, <1>7, <1>8, OutChange DEF Alive
<1>10. Sound(z) /\ Frame(y, z, {"out"}) /\ z.out[c] = v /\ \A d \in Conn : d # c => z.out[d] = y.out[d]
  BY <1>7, <1>8, <1>9, SoundOut DEF o
<1> HIDE DEF z
<1>11. h \in Host BY Conns
<1>12. Queued(y, h) = Numbers(o.sendq) BY <1>11, QueuedIs DEF o
<1>13. Queued(z, h) = Numbers(q) BY <1>7, <1>8, <1>10, <1>11, QueuedIs
<1>14. z.sent = y.sent /\ z.bounced = y.bounced /\ z.routed = y.routed BY <1>10 DEF Frame, NetField
<1>15. Books(z, h, {})
  <2>1. Booked(y.sent[h], y.bounced[h], Numbers(o.sendq), Numbers(<<x>>), y.routed[h]) BY <1>12 DEF Balance, Books
  <2>2. Booked(y.sent[h], y.bounced[h], Numbers(o.sendq) \union Numbers(<<x>>), {}, y.routed[h])
    BY <2>1, BookedMoves, Zenon
  <2>3. Booked(y.sent[h], y.bounced[h], Numbers(q), {}, y.routed[h]) BY <2>2, <1>6, Zenon
  <2> QED BY <1>13, <1>14, <2>3 DEF Books
<1>16. ASSUME NEW g \in Host, g # h PROVE Books(z, g, {})
  <2>1. \A d \in Conn : d[1] = g => z.out[d] = y.out[d] BY <1>10, <1>16
  <2>2. Queued(z, g) = Queued(y, g) BY <2>1 DEF Queued
  <2> QED BY <1>14, <1>16, <2>2 DEF Balance, Books
<1>17. Good(z) BY <1>10, <1>15, <1>16 DEF Good
<1> QED BY <1>1, <1>17

(* route_to_existing_session keeps the invariant: the item is queued,      *)
(* bounced or written.                                                     *)
LEMMA ExistingGood ==
  ASSUME NEW y, Sound(y), NEW h \in Host, y.tab[h] # NoConn, NEW x \in QueueItem,
         Balance(y, h, Numbers(<<x>>))
  PROVE  Good(route_to_existing_session(y, h, x))
<1> DEFINE c == y.tab[h]
<1>1. /\ c \in Conn
      /\ c[1] = h => Alive(y.out[c])
      /\ c[1] # h => y.out[c].conn
  BY RouteIs
<1>2. Good(Write(y, h, c, <<x>>)) BY <1>1, WriteGood
<1>3. c[1] = h /\ Len(y.out[c].sendq) < SendqSize => Good(Enqueue(y, c, x))
  BY <1>1, QueueGood
<1>4. Good(Refuse(y, h, x))
  <2>1. <<x>> \in Seq(ItemType) BY Items
  <2>2. Good(bounce_sendq(y, h, <<x>>)) BY <2>1, BounceGood
  <2>3. Refuse(y, h, x) = SetOverflow(bounce_sendq(y, h, <<x>>)) BY DEF Refuse, SetOverflow
  <2> QED BY <2>2, <2>3, SetFlags
<1> HIDE DEF c
<1>5. \/ route_to_existing_session(y, h, x) = Write(y, h, c, <<x>>)
      \/ route_to_existing_session(y, h, x) = Refuse(y, h, x)
      \/ /\ c[1] = h /\ Len(y.out[c].sendq) < SendqSize
         /\ route_to_existing_session(y, h, x) = Enqueue(y, c, x)
  BY Zenon DEF route_to_existing_session, c, Enqueue
<1> QED BY <1>2, <1>3, <1>4, <1>5

(* A nonempty set of numbers has a least one. *)
LEMMA LeastNat ==
  ASSUME NEW T \in SUBSET Nat, T # {}
  PROVE  \E m \in T : \A k \in T : m <= k
<1>1. PICK m \in T : \A k \in T : ~(<<k, m>> \in OpToRel(<, Nat)) BY NatLessThanWellFounded, WFMin
<1>2. \A k \in T : ~(k < m) BY <1>1 DEF OpToRel
<1> QED BY <1>2

(* The connections h has not used; the session is opened on the first. *)
Unused(y, h) == {c \in Conn : c[1] = h /\ c[2] > 0 /\ y.out[c].type = "none"}
First(y, h) == CHOOSE d \in Unused(y, h) : \A e \in Unused(y, h) : d[2] <= e[2]
Opened(y, h, c, x) == [y EXCEPT !.out[c] = NewOut(x), !.tab[h] = c]

(* It takes one that has not been used. *)
LEMMA FirstUnused ==
  ASSUME NEW y, NEW h \in Host, Unused(y, h) # {}
  PROVE  First(y, h) \in Unused(y, h)
<1> DEFINE T == {c[2] : c \in Unused(y, h)}
<1>1. T \in SUBSET Nat /\ T # {} BY Conns DEF Unused
<1>2. PICK m \in T : \A k \in T : m <= k BY <1>1, LeastNat
<1>3. \E d \in Unused(y, h) : \A e \in Unused(y, h) : d[2] <= e[2] BY <1>2
<1> QED BY <1>3 DEF First

(* Where there is no live outgoing session a new one can be opened. *)
LEMMA OpenedSound ==
  ASSUME NEW y, Sound(y), NEW h \in Host, NEW x \in QueueItem, NEW c \in Unused(y, h),
         \A d \in Conn : d[1] = h => ~Alive(y.out[d])
  PROVE  LET z == Opened(y, h, c, x) IN
         /\ Sound(z) /\ Frame(y, z, {"out", "tab"}) /\ z.out[c] = NewOut(x)
         /\ \A d \in Conn : d # c => z.out[d] = y.out[d]
<1> DEFINE w == SetOut(y, c, NewOut(x))
           z == SetTab(w, h, c)
<1>1. c \in Conn /\ c[1] = h /\ c[2] > 0 /\ y.out[c].type = "none" BY DEF Unused
<1>2. Opened(y, h, c, x) = z BY DEF Opened, SetOut, SetTab
<1>3. NewOut(x) \in OutSession /\ Alive(NewOut(x)) BY DEF NewOut, OutFields, OutSession, Alive
<1>4. Typed(w) /\ Frame(y, w, {"out"}) /\ w.out = [y.out EXCEPT ![c] = NewOut(x)]
  BY <1>1, <1>3, SetOutFields DEF Sound
<1> HIDE DEF w
<1>5. Typed(z) /\ Frame(w, z, {"tab"}) /\ z.tab = [w.tab EXCEPT ![h] = c]
  BY <1>1, <1>4, SetTabFields
<1> HIDE DEF z
<1>6. /\ z.out = [y.out EXCEPT ![c] = NewOut(x)] /\ z.tab = [y.tab EXCEPT ![h] = c]
      /\ z.inc = y.inc /\ z.up = y.up /\ z.down = y.down /\ z.req = y.req /\ z.got = y.got
  BY <1>4, <1>5 DEF Frame, NetField
<1>7. Frame(y, z, {"out", "tab"}) BY <1>4, <1>5 DEF Frame, NetField
<1>8. y.out \in [Conn -> OutSession] /\ y.tab \in [Host -> Conn \union {NoConn}] BY TypedFields DEF Sound
<1>9. /\ z.out[c] = NewOut(x) /\ \A d \in Conn : d # c => z.out[d] = y.out[d]
      /\ z.tab[h] = c /\ \A g \in Host : g # h => z.tab[g] = y.tab[g]
  BY <1>1, <1>6, <1>8
<1>10. LocalAt(z, c)
  <2>1. Local(c, NewOut(x), y.inc[c], y.up[c], y.down[c], Asked(y, c), y.got[c]) BY <1>1, At, OutNew
  <2> QED BY <1>1, <1>6, <1>9, <2>1, At DEF LocalAt, Asked
<1>11. Locals(z) BY <1>6, <1>9, <1>10 DEF Sound, Locals, LocalAt, Asked
<1>12. Routes(z)
  <2>1. ASSUME NEW d \in Conn, Alive(z.out[d]) PROVE z.tab[d[1]] = d
    BY <1>1, <1>9, <2>1, Conns DEF Sound, Routes
  <2>2. ASSUME NEW g \in Host, z.tab[g] # NoConn
        PROVE  IF z.tab[g][1] = g THEN Alive(z.out[z.tab[g]]) ELSE Usable(z.inc[z.tab[g]])
    <3>1. CASE g = h BY <3>1, <1>1, <1>3, <1>9
    <3>2. CASE g # h
      <4>1. z.tab[g] = y.tab[g] /\ y.tab[g] \in Conn BY <3>2, <2>2, <1>8, <1>9
      <4>2. y.tab[g][1] = g => y.tab[g] # c BY <3>2, <1>1
      <4> QED BY <4>1, <4>2, <2>2, <1>6, <1>9 DEF Sound, Routes
    <3> QED BY <3>1, <3>2
  <2> QED BY <2>1, <2>2 DEF Routes
<1>13. /\ Sound(z) /\ Frame(y, z, {"out", "tab"}) /\ z.out[c] = NewOut(x)
       /\ \A d \in Conn : d # c => z.out[d] = y.out[d]
  BY <1>5, <1>7, <1>9, <1>11, <1>12 DEF Sound
<1> QED BY <1>2, <1>13

(* The route may be dropped where there is no live outgoing session. *)
LEMMA NoRoute ==
  ASSUME NEW y, Sound(y), NEW h \in Host, \A d \in Conn : d[1] = h => ~Alive(y.out[d])
  PROVE  LET z == SetTab(y, h, NoConn) IN Sound(z) /\ Frame(y, z, {"tab"})
<1> DEFINE z == SetTab(y, h, NoConn)
<1>1. Typed(z) /\ Frame(y, z, {"tab"}) /\ z.tab = [y.tab EXCEPT ![h] = NoConn] BY SetTabFields DEF Sound
<1> HIDE DEF z
<1>2. z.out = y.out /\ z.inc = y.inc /\ z.up = y.up /\ z.down = y.down /\ z.req = y.req /\ z.got = y.got
  BY <1>1 DEF Frame, NetField
<1>3. Locals(z) BY <1>2 DEF Sound, Locals, LocalAt, Asked
<1>4. y.tab \in [Host -> Conn \union {NoConn}] BY TypedFields DEF Sound
<1>5. z.tab[h] = NoConn /\ \A g \in Host : g # h => z.tab[g] = y.tab[g] BY <1>1, <1>4
<1>6. Routes(z) BY <1>2, <1>5, Conns DEF Sound, Routes
<1>7. Sound(z) /\ Frame(y, z, {"tab"}) BY <1>1, <1>3, <1>6 DEF Sound
<1> QED BY <1>7 DEF z

(* route_to_new_session keeps the invariant: the item starts the new       *)
(* session's queue, or is bounced.                                         *)
LEMMA NewGood ==
  ASSUME NEW y, Sound(y), NEW h \in Host, NEW x \in QueueItem, Balance(y, h, Numbers(<<x>>)),
         \A d \in Conn : d[1] = h => ~Alive(y.out[d])
  PROVE  Good(route_to_new_session(y, h, x))
<1> DEFINE c == First(y, h)
           w == SetTab(y, h, NoConn)
           z == Opened(y, h, c, x)
           N == Numbers(<<x>>)
<1>1. route_to_new_session(y, h, x) = IF Unused(y, h) = {} THEN bounce_sendq(w, h, <<x>>) ELSE z
  BY DEF route_to_new_session, Unused, First, Opened, SetTab
<1>2. <<x>> \in Seq(ItemType) BY Items
<1>3. Good(bounce_sendq(w, h, <<x>>))
  <2>1. Sound(w) /\ Frame(y, w, {"tab"}) BY NoRoute
  <2> HIDE DEF w
  <2>2. w.out = y.out /\ w.sent = y.sent /\ w.bounced = y.bounced /\ w.routed = y.routed BY <2>1 DEF Frame, NetField
  <2>3. Balance(w, h, N) BY <2>2 DEF Balance, Books, Queued
  <2> QED BY <1>2, <2>1, <2>3, BounceGood
<1>4. ASSUME Unused(y, h) # {} PROVE Good(z)
  <2>1. c \in Unused(y, h) BY <1>4, FirstUnused
  <2> HIDE DEF c
  <2>2. c \in Conn /\ c[1] = h BY <2>1 DEF Unused
  <2>3. /\ Sound(z) /\ Frame(y, z, {"out", "tab"}) /\ z.out[c] = NewOut(x)
        /\ \A d \in Conn : d # c => z.out[d] = y.out[d]
    BY <2>1, OpenedSound
  <2> HIDE DEF z
  <2>4. z.sent = y.sent /\ z.bounced = y.bounced /\ z.routed = y.routed BY <2>3 DEF Frame, NetField
  <2>5. Alive(z.out[c]) /\ z.out[c].sendq = <<x>> BY <2>3 DEF NewOut, Alive
  <2>6. Queued(y, h) = {} BY QueuedIs
  <2>7. Queued(z, h) = N BY <2>2, <2>3, <2>5, QueuedIs
  <2>8. Books(z, h, {})
    <3>1. Booked(y.sent[h], y.bounced[h], {}, N, y.routed[h]) BY <2>6 DEF Balance, Books
    <3> HIDE DEF N
    <3>2. Booked(y.sent[h], y.bounced[h], {} \union N, {}, y.routed[h]) BY <3>1, BookedMoves, Zenon
    <3>3. {} \union N = N OBVIOUS
    <3> QED BY <2>4, <2>7, <3>2, <3>3 DEF Books
  <2>9. ASSUME NEW g \in Host, g # h PROVE Books(z, g, {})
    <3>1. \A d \in Conn : d[1] = g => z.out[d] = y.out[d] BY <2>2, <2>3, <2>9
    <3>2. Queued(z, g) = Queued(y, g) BY <3>1 DEF Queued
    <3> QED BY <2>4, <2>9, <3>2 DEF Balance, Books
  <2> QED BY <2>3, <2>8, <2>9 DEF Good
<1> QED BY <1>1, <1>3, <1>4

(* The route/remote handlers keep it. *)
LEMMA RouteGood ==
  ASSUME NEW y, Sound(y), NEW h \in Host, NEW x \in QueueItem, Balance(y, h, Numbers(<<x>>))
  PROVE  Good(route(y, h, x))
<1> DEFINE c == y.tab[h]
<1>1. CASE c = NoConn
  <2>1. \A d \in Conn : d[1] = h => ~Alive(y.out[d]) BY <1>1, Conns DEF Sound, Routes
  <2>2. route(y, h, x) = route_to_new_session(y, h, x) BY <1>1 DEF route
  <2> QED BY <2>1, <2>2, NewGood
<1>2. CASE c # NoConn /\ c[1] # h /\ y.inc[c].closing
  <2>1. \A d \in Conn : d[1] = h => ~Alive(y.out[d]) BY <1>2, RouteIs
  <2>2. route(y, h, x) = route_to_new_session(y, h, x) BY <1>2 DEF route
  <2> QED BY <2>1, <2>2, NewGood
<1>3. CASE c # NoConn /\ ~(c[1] # h /\ y.inc[c].closing)
  <2>1. route(y, h, x) = route_to_existing_session(y, h, x) BY <1>3 DEF route
  <2> QED BY <1>3, <2>1, ExistingGood
<1> QED BY <1>1, <1>2, <1>3

(* For a db:verify no stanza is booked. *)
LEMMA RouteVerify ==
  ASSUME NEW y, Good(y), NEW h \in Host, NEW x \in QueueItem, x.t = "verify"
  PROVE  Good(route(y, h, x))
<1>1. Numbers(<<x>>) = {} BY OneNumber, Items
<1>2. Balance(y, h, Numbers(<<x>>)) BY <1>1 DEF Good, Balance
<1> QED BY <1>2, RouteGood DEF Good

(* A stanza of a user is booked once. *)
LEMMA SendGood ==
  ASSUME NEW y, Good(y), NEW h \in Host
  PROVE  Good(SendStanza(y, h))
<1> DEFINE n == y.routed[h] + 1
           z == SetRouted(y, h, n)
           x == Msg(n)
<1>1. SendStanza(y, h) = route(z, h, x) BY DEF SendStanza, SetRouted
<1>2. y.routed \in [Host -> Nat] /\ Typed(y) /\ Sound(y) BY TypedFields DEF Good, Sound
<1>3. n \in Nat /\ n = y.routed[h] + 1 BY <1>2
<1> HIDE DEF n
<1>4. Typed(z) /\ Frame(y, z, {"routed"}) /\ z.routed = [y.routed EXCEPT ![h] = n] BY <1>2, <1>3, SetRoutedFields
<1> HIDE DEF z
<1>5. Frame(y, z, {"cut", "routed", "sent", "bounced", "dropped", "early", "overflow"}) BY <1>4 DEF Frame
<1>6. Sound(z) BY <1>2, <1>4, <1>5, SameFields
<1>7. x \in QueueItem /\ x.t = "msg" /\ x.n = n BY <1>3, Items DEF Msg
<1>8. Numbers(<<x>>) = {n} BY <1>7, OneNumber, Items
<1>9. z.out = y.out /\ z.sent = y.sent /\ z.bounced = y.bounced BY <1>4 DEF Frame, NetField
<1>10. \A g \in Host : Queued(z, g) = Queued(y, g) BY <1>9 DEF Queued
<1>11. z.routed[h] = n /\ \A g \in Host : g # h => z.routed[g] = y.routed[g] BY <1>2, <1>4
<1>12. Books(z, h, {n})
  <2>1. Booked(y.sent[h], y.bounced[h], Queued(y, h), {}, y.routed[h]) BY DEF Good, Books
  <2>2. \A S, B, Q : \A k \in Nat : Booked(S, B, Q, {}, k) => Booked(S, B, Q, {k + 1}, k + 1)
    <3> SUFFICES ASSUME NEW S, NEW B, NEW Q, NEW k \in Nat, Booked(S, B, Q, {}, k)
                 PROVE  Booked(S, B, Q, {k + 1}, k + 1)
      OBVIOUS
    <3>1. 1..(k + 1) = (1..k) \union {k + 1} /\ k + 1 \notin 1..k OBVIOUS
    <3> DEFINE R == 1..k
               R1 == 1..(k + 1)
               m == k + 1
    <3>2. S \union B \union Q \union {} = R /\ R1 = R \union {m} /\ m \notin R BY <3>1 DEF Booked
    <3> HIDE DEF R, R1, m
    <3>3. S \union B \union Q \union {m} = R1 /\ m \notin S /\ m \notin B /\ m \notin Q BY <3>2
    <3> QED BY <3>3 DEF Booked, R1, m
  <2>3. Booked(y.sent[h], y.bounced[h], Queued(y, h), {n}, n) BY <2>1, <2>2, <1>2, <1>3
  <2> QED BY <2>3, <1>9, <1>10, <1>11 DEF Books
<1>13. Balance(z, h, Numbers(<<x>>)) BY <1>8, <1>9, <1>10, <1>11, <1>12 DEF Good, Balance, Books
<1> HIDE DEF x
<1> QED BY <1>1, <1>6, <1>7, <1>13, RouteGood
-----------------------------------------------------------------------------
(* destroy_session of an outgoing session, before its queue is bounced. *)
Ended(y, c) == [y EXCEPT !.tab[c[1]] = NoConn, !.out[c] = RestingOut(@)]

(* The route goes with the session. *)
LEMMA EndedSound ==
  ASSUME NEW y, Sound(y), NEW c \in Conn, Alive(y.out[c])
  PROVE  LET z == Ended(y, c) IN
         /\ Sound(z) /\ Frame(y, z, {"out", "tab"}) /\ ~Alive(z.out[c])
         /\ \A d \in Conn : d # c => z.out[d] = y.out[d]
<1> DEFINE v == RestingOut(y.out[c])
           w == SetOut(y, c, v)
           h == c[1]
           z == SetTab(w, h, NoConn)
<1>1. h \in Host BY Conns
<1>2. Ended(y, c) = z BY DEF Ended, SetOut, SetTab
<1>3. /\ v \in OutSession /\ v.type = "s2s_destroyed" /\ v.sendq = <<>>
      /\ v.ext = y.out[c].ext /\ v.conn = y.out[c].conn
  <2>1. y.out[c] \in OutSession /\ <<>> \in Seq(QueueItem) BY At
  <2> QED BY <2>1 DEF RestingOut, OutFields, OutSession
<1> HIDE DEF v
<1>4. Typed(w) /\ Frame(y, w, {"out"}) /\ w.out = [y.out EXCEPT ![c] = v] BY <1>3, SetOutFields DEF Sound
<1> HIDE DEF w
<1>5. Typed(z) /\ Frame(w, z, {"tab"}) /\ z.tab = [w.tab EXCEPT ![h] = NoConn] BY <1>1, <1>4, SetTabFields
<1> HIDE DEF z
<1>6. /\ z.out = [y.out EXCEPT ![c] = v] /\ z.tab = [y.tab EXCEPT ![h] = NoConn]
      /\ z.inc = y.inc /\ z.up = y.up /\ z.down = y.down /\ z.req = y.req /\ z.got = y.got
  BY <1>4, <1>5 DEF Frame, NetField
<1>7. Frame(y, z, {"out", "tab"}) BY <1>4, <1>5 DEF Frame, NetField
<1>8. y.out \in [Conn -> OutSession] /\ y.tab \in [Host -> Conn \union {NoConn}] BY TypedFields DEF Sound
<1>9. /\ z.out[c] = v /\ \A d \in Conn : d # c => z.out[d] = y.out[d]
      /\ z.tab[h] = NoConn /\ \A g \in Host : g # h => z.tab[g] = y.tab[g]
  BY <1>1, <1>6, <1>8
<1>10. LocalAt(z, c)
  <2>1. ~Alive(v) /\ v.type # "none" BY <1>3 DEF Alive
  <2>2. Len(v.sendq) <= SendqSize BY <1>3, S2sAssumption
  <2>3. Local(c, v, y.inc[c], y.up[c], y.down[c], Asked(y, c), y.got[c]) BY <1>3, <2>1, <2>2, At, OutChange
  <2> QED BY <1>6, <1>9, <2>3, At DEF LocalAt, Asked
<1>11. Locals(z) BY <1>6, <1>9, <1>10 DEF Sound, Locals, LocalAt, Asked
<1>12. ~Alive(v) BY <1>3 DEF Alive
<1>13. Routes(z)
  <2>1. ASSUME NEW d \in Conn, Alive(z.out[d]) PROVE z.tab[d[1]] = d
    <3>1. d # c /\ Alive(y.out[d]) BY <2>1, <1>9, <1>12
    <3>2. y.tab[d[1]] = d /\ y.tab[h] = c BY <3>1 DEF Sound, Routes
    <3> QED BY <3>1, <3>2, <1>9, Conns
  <2>2. ASSUME NEW g \in Host, z.tab[g] # NoConn
        PROVE  IF z.tab[g][1] = g THEN Alive(z.out[z.tab[g]]) ELSE Usable(z.inc[z.tab[g]])
    <3>1. g # h /\ z.tab[g] = y.tab[g] /\ y.tab[g] \in Conn BY <2>2, <1>8, <1>9
    <3>2. y.tab[g][1] = g => y.tab[g] # c BY <3>1
    <3> QED BY <3>1, <3>2, <2>2, <1>6, <1>9 DEF Sound, Routes
  <2> QED BY <2>1, <2>2 DEF Routes
<1>14. /\ Sound(z) /\ Frame(y, z, {"out", "tab"}) /\ ~Alive(z.out[c])
       /\ \A d \in Conn : d # c => z.out[d] = y.out[d]
  BY <1>5, <1>7, <1>9, <1>11, <1>12, <1>13 DEF Sound
<1> QED BY <1>2, <1>14

(* destroy_session of an outgoing session keeps the invariant, with a      *)
(* stanza sent from the error handler or without.                          *)
LEMMA DestroyOutGood ==
  ASSUME NEW y, Good(y), NEW c \in Conn, NEW again \in BOOLEAN
  PROVE  Good(destroy_out(y, c, again))
<1> DEFINE h == c[1]
           q == y.out[c].sendq
           w == Ended(y, c)
           z == bounce_sendq(w, h, q)
<1>0. Sound(y) /\ h \in Host /\ q \in Seq(ItemType) BY At, Conns DEF Good
<1>1. ASSUME Alive(y.out[c]) PROVE Good(z)
  <2>1. /\ Sound(w) /\ Frame(y, w, {"out", "tab"}) /\ ~Alive(w.out[c])
        /\ \A d \in Conn : d # c => w.out[d] = y.out[d]
    BY <1>0, <1>1, EndedSound
  <2> HIDE DEF w
  <2>2. w.sent = y.sent /\ w.bounced = y.bounced /\ w.routed = y.routed BY <2>1 DEF Frame, NetField
  <2>3. \A d \in Conn : d[1] = h => ~Alive(w.out[d])
    <3> SUFFICES ASSUME NEW d \in Conn, d[1] = h, Alive(w.out[d]) PROVE FALSE OBVIOUS
    <3>1. d # c /\ Alive(y.out[d]) BY <2>1
    <3>2. y.tab[h] = d /\ y.tab[h] = c BY <1>0, <1>1, <3>1 DEF Sound, Routes
    <3> QED BY <3>1, <3>2
  <2>4. Queued(w, h) = {} BY <1>0, <2>1, <2>3, QueuedIs
  <2>5. Queued(y, h) = Numbers(q) BY <1>0, <1>1, QueuedIs
  <2> HIDE DEF q, h
  <2>6. Books(w, h, Numbers(q))
    <3>1. Booked(y.sent[h], y.bounced[h], Numbers(q), {}, y.routed[h]) BY <1>0, <2>5 DEF Good, Books
    <3>2. Booked(y.sent[h], y.bounced[h], {}, Numbers(q), y.routed[h]) BY <3>1, BookedMoves
    <3> QED BY <3>2, <2>2, <2>4 DEF Books
  <2>7. ASSUME NEW g \in Host, g # h PROVE Books(w, g, {})
    <3>1. \A d \in Conn : d[1] = g => w.out[d] = y.out[d] BY <2>1, <2>7 DEF h
    <3>2. Queued(w, g) = Queued(y, g) BY <3>1 DEF Queued
    <3> QED BY <2>2, <3>2 DEF Good, Books
  <2>8. Balance(w, h, Numbers(q)) BY <2>6, <2>7 DEF Balance
  <2> QED BY <1>0, <2>1, <2>8, BounceGood
<1>2. \/ destroy_out(y, c, again) = y
      \/ Alive(y.out[c]) /\ destroy_out(y, c, again) = z
      \/ Alive(y.out[c]) /\ destroy_out(y, c, again) = SendStanza(z, h)
  <2>1. LiveOut(y, c) = Alive(y.out[c]) BY DEF LiveOut, Alive
  <2> DEFINE p == again /\ Numbers(y.out[c].sendq) # {} /\ y.routed[c[1]] < MaxMsg[c[1]]
  <2>2. destroy_out(y, c, again) = CASE ~LiveOut(y, c) -> y
          [] LiveOut(y, c) /\ p -> SendStanza(z, h)
          [] OTHER -> z
    BY DEF destroy_out, Ended
  <2> HIDE DEF p, z
  <2> QED BY <2>1, <2>2
<1> HIDE DEF z
<1> QED BY <1>0, <1>1, <1>2, SendGood

(* The acceptor's session and the route to its peer change together: the   *)
(* route is dropped, taken or left.                                        *)
LEMMA InAndTab ==
  ASSUME NEW y, Sound(y), NEW c \in Conn, NEW v \in InSession, NEW t,
         Local(c, y.out[c], v, y.up[c], y.down[c], Asked(y, c), y.got[c]),
         LET g == Remote(c[1]) IN
         \/ t = y.tab[g] /\ (y.tab[g] = c => Usable(v))
         \/ t = NoConn /\ y.tab[g] = c
         \/ t = c /\ y.tab[g] = NoConn /\ Usable(v)
  PROVE  LET z == SetTab(SetIn(y, c, v), Remote(c[1]), t) IN
         /\ Sound(z) /\ Frame(y, z, {"inc", "tab"}) /\ z.inc[c] = v
         /\ \A d \in Conn : d # c => z.inc[d] = y.inc[d]
<1> DEFINE g == Remote(c[1])
           w == SetIn(y, c, v)
           z == SetTab(w, g, t)
<1>1. c[1] \in Host /\ g \in Host /\ g # c[1] /\ c # NoConn /\ \A x \in Host : x # g => x = c[1]
  BY Conns, Hosts
<1>2. y.inc \in [Conn -> InSession] /\ y.tab \in [Host -> Conn \union {NoConn}] BY TypedFields DEF Sound
<1>3. t \in Conn \union {NoConn} BY <1>1, <1>2
<1>4. Typed(w) /\ Frame(y, w, {"inc"}) /\ w.inc = [y.inc EXCEPT ![c] = v] BY SetInFields DEF Sound
<1> HIDE DEF w
<1>5. Typed(z) /\ Frame(w, z, {"tab"}) /\ z.tab = [w.tab EXCEPT ![g] = t] BY <1>1, <1>3, <1>4, SetTabFields
<1> HIDE DEF z
<1>6. /\ z.inc = [y.inc EXCEPT ![c] = v] /\ z.tab = [y.tab EXCEPT ![g] = t]
      /\ z.out = y.out /\ z.up = y.up /\ z.down = y.down /\ z.req = y.req /\ z.got = y.got
  BY <1>4, <1>5 DEF Frame, NetField
<1>7. Frame(y, z, {"inc", "tab"}) BY <1>4, <1>5 DEF Frame, NetField
<1>8. /\ z.inc[c] = v /\ \A d \in Conn : d # c => z.inc[d] = y.inc[d]
      /\ z.tab[g] = t /\ \A x \in Host : x # g => z.tab[x] = y.tab[x]
  BY <1>1, <1>2, <1>6
<1>9. LocalAt(z, c) BY <1>6, <1>8, At DEF LocalAt, Asked
<1>10. Locals(z) BY <1>6, <1>8, <1>9 DEF Sound, Locals, LocalAt, Asked
<1>11. \/ t = y.tab[g] /\ (y.tab[g] = c => Usable(v))
       \/ t = NoConn /\ y.tab[g] = c
       \/ t = c /\ y.tab[g] = NoConn /\ Usable(v)
  OBVIOUS
<1> HIDE DEF g
<1>12. Routes(z)
  <2>1. ASSUME NEW d \in Conn, Alive(z.out[d]) PROVE z.tab[d[1]] = d
    <3>1. y.tab[d[1]] = d /\ d # NoConn /\ d[1] \in Host BY <2>1, <1>6, Conns DEF Sound, Routes
    <3>2. CASE d[1] = g BY <3>1, <3>2, <1>1, <1>8, <1>11
    <3>3. CASE d[1] # g BY <3>1, <3>3, <1>8
    <3> QED BY <3>2, <3>3
  <2>2. ASSUME NEW x \in Host, z.tab[x] # NoConn
        PROVE  IF z.tab[x][1] = x THEN Alive(z.out[z.tab[x]]) ELSE Usable(z.inc[z.tab[x]])
    <3>1. CASE x = g
      <4>1. CASE t = c BY <4>1, <3>1, <1>1, <1>8, <1>11
      <4>2. CASE t # c
        <5>1. t = y.tab[g] /\ t \in Conn /\ z.inc[t] = y.inc[t] BY <4>2, <3>1, <2>2, <1>3, <1>8, <1>11
        <5> QED BY <5>1, <3>1, <1>6, <1>8, <2>2 DEF Sound, Routes
      <4> QED BY <4>1, <4>2
    <3>2. CASE x # g
      <4>1. z.tab[x] = y.tab[x] /\ y.tab[x] \in Conn /\ x = c[1] BY <3>2, <2>2, <1>1, <1>2, <1>8
      <4>2. y.tab[x][1] # x => y.tab[x] # c BY <4>1
      <4> QED BY <4>1, <4>2, <2>2, <1>6, <1>8 DEF Sound, Routes
    <3> QED BY <3>1, <3>2
  <2> QED BY <2>1, <2>2 DEF Routes
<1>13. /\ Sound(z) /\ Frame(y, z, {"inc", "tab"}) /\ z.inc[c] = v
       /\ \A d \in Conn : d # c => z.inc[d] = y.inc[d]
  BY <1>5, <1>7, <1>8, <1>10, <1>12 DEF Sound
<1> QED BY <1>13 DEF z, w, g

(* The invariant with the stanzas: writing to the acceptor, *)
LEMMA UpGood ==
  ASSUME NEW y, Good(y), NEW c \in Conn, NEW x \in UpItem(c), ~UpStep(x, y.out[c]) \/ FreeAt(y, c)
  PROVE  /\ Good(Up(y, c, <<x>>)) /\ Frame(y, Up(y, c, <<x>>), {"up"})
         /\ ~UpStep(x, y.out[c]) => \A d \in Conn : FreeAt(y, d) => FreeAt(Up(y, c, <<x>>), d)
<1> DEFINE q == <<x>>
           z == Up(y, c, q)
<1>1. q \in Seq(UpItem(c)) /\ \A k \in DOMAIN q : q[k] = x OBVIOUS
<1>2. ASSUME FreeAt(y, c) PROVE Sound(z) /\ Frame(y, z, {"up"}) BY <1>2, UpActs DEF Good
<1> HIDE DEF q
<1>3. ASSUME ~UpStep(x, y.out[c])
      PROVE  Sound(z) /\ Frame(y, z, {"up"}) /\ \A d \in Conn : FreeAt(y, d) => FreeAt(z, d)
  BY <1>1, <1>3, UpKeeps DEF Good
<1>4. Sound(z) /\ Frame(y, z, {"up"}) BY <1>2, <1>3
<1> HIDE DEF z
<1>5. z.out = y.out /\ z.sent = y.sent /\ z.bounced = y.bounced /\ z.routed = y.routed BY <1>4 DEF Frame, NetField
<1>6. Good(z) BY <1>4, <1>5, GoodFrame
<1> QED BY <1>3, <1>4, <1>6 DEF z, q

(* writing to the opener, *)
LEMMA DownGood ==
  ASSUME NEW y, Good(y), NEW c \in Conn, NEW x \in DownItem, c[2] > 0 => y.out[c].conn,
         \/ ~DownStep(x, y.out[c]) /\ (x.t = "success" => y.inc[c].ext = "succeeded")
         \/ (c[2] > 0 => FreeAt(y, c)) /\ x.t # "success"
  PROVE  /\ Good(Down(y, c, <<x>>)) /\ Frame(y, Down(y, c, <<x>>), {"down"})
         /\ ~DownStep(x, y.out[c]) => \A d \in Conn : FreeAt(y, d) => FreeAt(Down(y, c, <<x>>), d)
<1> DEFINE q == <<x>>
           z == Down(y, c, q)
<1>1. q \in Seq(DownItem) /\ (\A k \in DOMAIN q : q[k] = x) OBVIOUS
<1>2. ASSUME c[2] > 0 => FreeAt(y, c), x.t # "success" PROVE Sound(z) /\ Frame(y, z, {"down"})
  BY <1>2, DownActs DEF Good
<1> HIDE DEF q
<1>3. ASSUME ~DownStep(x, y.out[c]), x.t = "success" => y.inc[c].ext = "succeeded"
      PROVE  Sound(z) /\ Frame(y, z, {"down"}) /\ \A d \in Conn : FreeAt(y, d) => FreeAt(z, d)
  BY <1>1, <1>3, DownKeeps DEF Good
<1>4. Sound(z) /\ Frame(y, z, {"down"}) BY <1>2, <1>3
<1> HIDE DEF z
<1>5. z.out = y.out /\ z.sent = y.sent /\ z.bounced = y.bounced /\ z.routed = y.routed BY <1>4 DEF Frame, NetField
<1>6. Good(z) BY <1>4, <1>5, GoodFrame
<1> QED BY <1>3, <1>4, <1>6 DEF z, q

(* changing one stream, *)
LEMMA PutUp ==
  ASSUME NEW y, Good(y), NEW c \in Conn, NEW v,
         Local(c, y.out[c], y.inc[c], v, y.down[c], Asked(y, c), y.got[c])
  PROVE  Good(SetUp(y, c, v)) /\ Frame(y, SetUp(y, c, v), {"up"}) /\ SetUp(y, c, v).up[c] = v
<1> DEFINE z == SetUp(y, c, v)
<1>1. Sound(z) /\ Frame(y, z, {"up"}) /\ z.up[c] = v BY SoundUp DEF Good
<1> HIDE DEF z
<1>2. z.out = y.out /\ z.sent = y.sent /\ z.bounced = y.bounced /\ z.routed = y.routed BY <1>1 DEF Frame, NetField
<1>3. Good(z) BY <1>1, <1>2, GoodFrame
<1> QED BY <1>1, <1>3 DEF z

(* the other stream, *)
LEMMA PutDown ==
  ASSUME NEW y, Good(y), NEW c \in Conn, NEW v \in Seq(DownItem),
         Local(c, y.out[c], y.inc[c], y.up[c], v, Asked(y, c), y.got[c])
  PROVE  Good(SetDown(y, c, v)) /\ Frame(y, SetDown(y, c, v), {"down"}) /\ SetDown(y, c, v).down[c] = v
<1> DEFINE z == SetDown(y, c, v)
<1>1. Sound(z) /\ Frame(y, z, {"down"}) /\ z.down[c] = v BY SoundDown DEF Good
<1> HIDE DEF z
<1>2. z.out = y.out /\ z.sent = y.sent /\ z.bounced = y.bounced /\ z.routed = y.routed BY <1>1 DEF Frame, NetField
<1>3. Good(z) BY <1>1, <1>2, GoodFrame
<1> QED BY <1>1, <1>3 DEF z

(* the opener's session, *)
LEMMA PutOut ==
  ASSUME NEW y, Good(y), NEW c \in Conn, NEW v \in OutSession, v.sendq = y.out[c].sendq,
         Local(c, v, y.inc[c], y.up[c], y.down[c], Asked(y, c), y.got[c]),
         Alive(v) = Alive(y.out[c])
  PROVE  LET z == SetOut(y, c, v) IN
         /\ Good(z) /\ Frame(y, z, {"out"}) /\ z.out[c] = v
         /\ \A d \in Conn : d # c => z.out[d] = y.out[d]
<1> DEFINE z == SetOut(y, c, v)
<1>1. /\ Sound(z) /\ Frame(y, z, {"out"}) /\ z.out[c] = v
      /\ \A d \in Conn : d # c => z.out[d] = y.out[d]
  BY SoundOut DEF Good
<1> HIDE DEF z
<1>2. z.sent = y.sent /\ z.bounced = y.bounced /\ z.routed = y.routed BY <1>1 DEF Frame, NetField
<1>3. Good(z) BY <1>1, <1>2, GoodFrame
<1> QED BY <1>1, <1>3 DEF z

(* the acceptor's session, *)
LEMMA PutIn ==
  ASSUME NEW y, Good(y), NEW c \in Conn, NEW v \in InSession,
         Local(c, y.out[c], v, y.up[c], y.down[c], Asked(y, c), y.got[c]),
         Usable(y.inc[c]) => Usable(v)
  PROVE  LET z == SetIn(y, c, v) IN Good(z) /\ Frame(y, z, {"inc"}) /\ z.inc[c] = v
<1> DEFINE z == SetIn(y, c, v)
<1>1. Sound(z) /\ Frame(y, z, {"inc"}) /\ z.inc[c] = v BY SoundIn DEF Good
<1> HIDE DEF z
<1>2. z.out = y.out /\ z.sent = y.sent /\ z.bounced = y.bounced /\ z.routed = y.routed BY <1>1 DEF Frame, NetField
<1>3. Good(z) BY <1>1, <1>2, GoodFrame
<1> QED BY <1>1, <1>3 DEF z

(* the acceptor's session with the route, *)
LEMMA PutInAndTab ==
  ASSUME NEW y, Good(y), NEW c \in Conn, NEW v \in InSession, NEW t,
         Local(c, y.out[c], v, y.up[c], y.down[c], Asked(y, c), y.got[c]),
         LET g == Remote(c[1]) IN
         \/ t = y.tab[g] /\ (y.tab[g] = c => Usable(v))
         \/ t = NoConn /\ y.tab[g] = c
         \/ t = c /\ y.tab[g] = NoConn /\ Usable(v)
  PROVE  LET z == SetTab(SetIn(y, c, v), Remote(c[1]), t) IN
         Good(z) /\ Frame(y, z, {"inc", "tab"}) /\ z.inc[c] = v
<1> DEFINE z == SetTab(SetIn(y, c, v), Remote(c[1]), t)
<1>1. Sound(z) /\ Frame(y, z, {"inc", "tab"}) /\ z.inc[c] = v BY InAndTab DEF Good
<1> HIDE DEF z
<1>2. z.out = y.out /\ z.sent = y.sent /\ z.bounced = y.bounced /\ z.routed = y.routed BY <1>1 DEF Frame, NetField
<1>3. Good(z) BY <1>1, <1>2, GoodFrame
<1> QED BY <1>1, <1>3 DEF z

(* losing what is in a stream, *)
LEMMA ClearGood ==
  ASSUME NEW y, Good(y), NEW c \in Conn
  PROVE  Good(SetUp(y, c, <<>>)) /\ Good(SetDown(y, c, <<>>))
<1>1. Local(c, y.out[c], y.inc[c], y.up[c], y.down[c], Asked(y, c), y.got[c]) BY At DEF Good
<1>2. /\ Local(c, y.out[c], y.inc[c], <<>>, y.down[c], Asked(y, c), y.got[c])
      /\ Local(c, y.out[c], y.inc[c], y.up[c], <<>>, Asked(y, c), y.got[c])
  BY <1>1, Clearing
<1>3. <<>> \in Seq(DownItem) OBVIOUS
<1> QED BY <1>2, <1>3, PutUp, PutDown

(* and losing the connection. *)
LEMMA CutGood ==
  ASSUME NEW y, Good(y), NEW c \in Conn
  PROVE  /\ Good([y EXCEPT !.cut = @ \union {c}, !.down[c] = <<>>])
         /\ Good([y EXCEPT !.cut = @ \union {c}, !.up[c] = <<>>])
         /\ Good([y EXCEPT !.cut = @ \union {c}])
<1> DEFINE z == SetCut(y, y.cut \union {c})
<1>1. y.cut \union {c} \in SUBSET Conn BY TypedFields DEF Good, Sound
<1>2. Good(z) BY <1>1, SetFlags
<1>3. Good(SetDown(z, c, <<>>)) /\ Good(SetUp(z, c, <<>>)) BY <1>2, ClearGood
<1>4. [y EXCEPT !.cut = @ \union {c}, !.down[c] = <<>>] = SetDown(z, c, <<>>) BY DEF SetDown, SetCut
<1>5. [y EXCEPT !.cut = @ \union {c}, !.up[c] = <<>>] = SetUp(z, c, <<>>) BY DEF SetUp, SetCut
<1>6. [y EXCEPT !.cut = @ \union {c}] = z BY DEF SetCut
<1> QED BY <1>2, <1>3, <1>4, <1>5, <1>6

(* Where the acceptor has a session the opener's is connected. *)
LEMMA Attached ==
  ASSUME NEW y, Sound(y), NEW c \in Conn, y.inc[c].type # "none", c[2] > 0
  PROVE  y.out[c].conn
BY At DEF Local, Phase

(* destroy_session of an accepted session: the route goes with it. *)
LEMMA DestroyInGood ==
  ASSUME NEW y, Good(y), NEW c \in Conn
  PROVE  Good(destroy_in(y, c))
<1> DEFINE i == y.inc[c]
           g == Remote(c[1])
           v == RestingIn(i)
           t == IF i.outgoing /\ y.tab[g] = c THEN NoConn ELSE y.tab[g]
<1>1. destroy_in(y, c) = IF ~LiveIn(y, c) THEN y ELSE SetTab(SetIn(y, c, v), g, t)
  BY DEF destroy_in, SetTab, SetIn
<1>2. ASSUME LiveIn(y, c) PROVE Good(SetTab(SetIn(y, c, v), g, t))
  <2>1. i \in InSession /\ i.type \in {"s2sin_unauthed", "s2sin"} BY <1>2, At DEF Good, LiveIn
  <2>2. v \in InSession /\ v.type = "s2s_destroyed" /\ v.ext = i.ext BY <2>1 DEF RestingIn, InSession
  <2>3. Local(c, y.out[c], i, y.up[c], y.down[c], Asked(y, c), y.got[c]) BY At DEF Good
  <2> HIDE DEF v
  <2>4. Local(c, y.out[c], v, y.up[c], y.down[c], Asked(y, c), y.got[c]) BY <2>1, <2>2, <2>3, InChange
  <2>5. g \in Host /\ g # c[1] /\ c # NoConn BY Conns, Hosts
  <2>6. y.tab[g] = c => i.outgoing BY <2>5 DEF Good, Sound, Routes, Usable
  <2>7. (t = NoConn /\ y.tab[g] = c) \/ (t = y.tab[g] /\ y.tab[g] # c) BY <2>6
  <2> HIDE DEF t
  <2> QED BY <2>2, <2>4, <2>7, PutInAndTab
<1> QED BY <1>1, <1>2

(* session_close of an outgoing session. *)
LEMMA CloseOutGood ==
  ASSUME NEW y, Good(y), NEW c \in Conn, NEW again \in BOOLEAN
  PROVE  Good(close_out(y, c, again))
<1> DEFINE x == Item("end", NoConn, TRUE)
           w == Up(y, c, <<x>>)
           z == destroy_out(w, c, again)
<1>1. x \in UpItem(c) /\ ~UpStep(x, y.out[c]) BY Items DEF UpStep, Item
<1>2. Good(w) BY <1>1, UpGood
<1>3. Good(z) BY <1>2, DestroyOutGood
<1>4. close_out(y, c, again) = IF ~y.out[c].conn THEN y ELSE [z EXCEPT !.cut = @ \union {c}, !.down[c] = <<>>]
  BY DEF close_out
<1> HIDE DEF z
<1>5. Good([z EXCEPT !.cut = @ \union {c}, !.down[c] = <<>>]) BY <1>3, CutGood, Zenon
<1> QED BY <1>4, <1>5, Zenon

(* session_close of an accepted session. *)
LEMMA CloseInGood ==
  ASSUME NEW y, Good(y), NEW c \in Conn, LiveIn(y, c)
  PROVE  Good(close_in(y, c))
<1> DEFINE x == Item("end", NoConn, TRUE)
           w == Down(y, c, <<x>>)
           z == destroy_in(w, c)
<1>0. c[2] > 0 => y.out[c].conn BY Attached DEF Good, LiveIn
<1>1. x \in DownItem /\ ~DownStep(x, y.out[c]) /\ x.t # "success" BY Items DEF DownStep, Item
<1> HIDE DEF x
<1>2. Good(w) BY <1>0, <1>1, DownGood
<1>3. Good(z) BY <1>2, DestroyInGood
<1>4. close_in(y, c) = [z EXCEPT !.cut = @ \union {c}, !.up[c] = <<>>] BY DEF close_in, x
<1> HIDE DEF z
<1> HIDE DEF w
<1> QED BY <1>3, <1>4, CutGood, ZenonT(60)

(* The clean close of an accepted session. *)
LEMMA CloseInCleanGood ==
  ASSUME NEW y, Good(y), NEW c \in Conn, LiveIn(y, c)
  PROVE  Good(close_in_clean(y, c))
<1> DEFINE x == Item("end", NoConn, TRUE)
           w == Down(y, c, <<x>>)
           v == [w.inc[c] EXCEPT !.closing = TRUE]
<1>0. c[2] > 0 => y.out[c].conn BY Attached DEF Good, LiveIn
<1>1. x \in DownItem /\ ~DownStep(x, y.out[c]) /\ x.t # "success" BY Items DEF DownStep, Item
<1> HIDE DEF x
<1>2. Good(w) BY <1>0, <1>1, DownGood
<1>3. close_in_clean(y, c) = SetIn(w, c, v) BY DEF close_in_clean, SetIn, x
<1> HIDE DEF w
<1>4. w.inc[c] \in InSession BY <1>2, At DEF Good
<1>5. /\ v \in InSession /\ v.type = w.inc[c].type /\ v.ext = w.inc[c].ext
      /\ Usable(w.inc[c]) => Usable(v)
  BY <1>4 DEF InSession, Usable
<1> HIDE DEF v
<1>6. Local(c, w.out[c], v, w.up[c], w.down[c], Asked(w, c), w.got[c]) BY <1>2, <1>5, At, InChange DEF Good
<1> QED BY <1>2, <1>3, <1>5, <1>6, PutIn
-----------------------------------------------------------------------------
(* Writing on the own session needs no connection. *)
LEMMA WriteOwn ==
  ASSUME NEW y, Sound(y), NEW c \in Conn, NEW q \in Seq(QueueItem)
  PROVE  LET z == Write(y, c[1], c, q) IN
         /\ Sound(z) /\ Frame(y, z, {"up", "down", "sent"})
         /\ z.sent = [y.sent EXCEPT ![c[1]] = @ \union Numbers(q)]
<1> SUFFICES ASSUME NEW h \in Host, h = c[1]
             PROVE  /\ Sound(Write(y, h, c, q)) /\ Frame(y, Write(y, h, c, q), {"up", "down", "sent"})
                    /\ Write(y, h, c, q).sent = [y.sent EXCEPT ![h] = @ \union Numbers(q)]
  BY Conns
<1>1. c[1] # h /\ c[2] > 0 => y.out[c].conn OBVIOUS
<1> QED BY ONLY Sound(y), h \in Host, c \in Conn, q \in Seq(QueueItem), <1>1, WriteSound

(* The queue is emptied. *)
LEMMA EmptySound ==
  ASSUME NEW y, Sound(y), NEW c \in Conn, Alive(y.out[c])
  PROVE  LET z == SetOut(y, c, [y.out[c] EXCEPT !.sendq = <<>>]) IN
         /\ Sound(z) /\ Frame(y, z, {"out"}) /\ Alive(z.out[c]) /\ z.out[c].sendq = <<>>
         /\ \A d \in Conn : d # c => z.out[d] = y.out[d]
<1> DEFINE v == [y.out[c] EXCEPT !.sendq = <<>>]
<1>1. y.out[c] \in OutSession /\ <<>> \in Seq(QueueItem) BY At
<1>2. v \in OutSession /\ v.type = y.out[c].type /\ v.ext = y.out[c].ext /\ v.conn = y.out[c].conn /\ v.sendq = <<>>
  BY <1>1 DEF OutFields, OutSession
<1> HIDE DEF v
<1>3. Alive(v) /\ Alive(v) = Alive(y.out[c]) BY <1>2 DEF Alive
<1>4. Local(c, v, y.inc[c], y.up[c], y.down[c], Asked(y, c), y.got[c])
  <2>1. Len(v.sendq) <= SendqSize BY <1>2, S2sAssumption
  <2>2. v.type # "none" BY <1>3 DEF Alive
  <2> QED BY <1>2, <1>3, <2>1, <2>2, At, OutChange
<1>5. /\ Sound(SetOut(y, c, v)) /\ Frame(y, SetOut(y, c, v), {"out"}) /\ SetOut(y, c, v).out[c] = v
      /\ \A d \in Conn : d # c => SetOut(y, c, v).out[d] = y.out[d]
  BY <1>2, <1>3, <1>4, SoundOut
<1> QED BY <1>2, <1>3, <1>5 DEF v

(* mark_connected: what was queued is written. *)
LEMMA MarkGood ==
  ASSUME NEW y, Good(y), NEW c \in Conn, Alive(y.out[c])
  PROVE  Good(mark_connected(y, c))
<1> DEFINE h == c[1]
           q == y.out[c].sendq
           w == Write(y, c[1], c, q)
           z == SetOut(w, c, [w.out[c] EXCEPT !.sendq = <<>>])
<1>1. mark_connected(y, c) = z BY DEF mark_connected, SetOut
<1>2. Sound(y) /\ h \in Host /\ q \in Seq(QueueItem) BY At, Conns DEF Good
<1> HIDE DEF q
<1>3. /\ Sound(w) /\ Frame(y, w, {"up", "down", "sent"})
      /\ w.sent = [y.sent EXCEPT ![c[1]] = @ \union Numbers(q)]
  BY <1>2, WriteOwn
<1> HIDE DEF w
<1>4. w.out = y.out /\ w.bounced = y.bounced /\ w.routed = y.routed BY <1>3 DEF Frame, NetField
<1>9. /\ Sound(z) /\ Frame(w, z, {"out"}) /\ Alive(z.out[c]) /\ z.out[c].sendq = <<>>
      /\ \A d \in Conn : d # c => z.out[d] = w.out[d]
  BY <1>3, <1>4, EmptySound
<1> HIDE DEF z
<1>10. z.sent = w.sent /\ z.bounced = y.bounced /\ z.routed = y.routed BY <1>4, <1>9 DEF Frame, NetField
<1>11. y.sent \in [Host -> SUBSET Nat] BY <1>2, TypedFields DEF Sound
<1>12. Queued(y, h) = Numbers(q) BY <1>2, QueuedIs DEF q
<1>13. Queued(z, h) = {} BY <1>2, <1>9, QueuedIs, NoNumbers
<1>14. Books(z, h, {})
  <2>1. Booked(y.sent[h], y.bounced[h], Numbers(q), {}, y.routed[h]) BY <1>2, <1>12 DEF Good, Books
  <2>2. Booked(y.sent[h] \union Numbers(q), y.bounced[h], {}, {}, y.routed[h]) BY <2>1, BookedMoves, Zenon
  <2>3. z.sent[h] = y.sent[h] \union Numbers(q) BY <1>2, <1>3, <1>10, <1>11
  <2> QED BY <1>10, <1>13, <2>2, <2>3 DEF Books
<1>15. ASSUME NEW g \in Host, g # h PROVE Books(z, g, {})
  <2>1. \A d \in Conn : d[1] = g => z.out[d] = y.out[d] BY <1>4, <1>9, <1>15
  <2>2. Queued(z, g) = Queued(y, g) BY <2>1 DEF Queued
  <2>3. z.sent[g] = y.sent[g] BY <1>3, <1>10, <1>11, <1>15
  <2> QED BY <1>10, <2>2, <2>3 DEF Good, Books
<1> QED BY <1>1, <1>9, <1>14, <1>15 DEF Good

(* make_authenticated of an outgoing session. *)
LEMMA AuthOutGood ==
  ASSUME NEW y, Good(y), NEW c \in Conn, Alive(y.out[c])
  PROVE  Good(make_authenticated_out(y, c))
<1> DEFINE o == y.out[c]
           v == [o EXCEPT !.type = "s2sout", !.authed = o.incoming]
           z == SetOut(y, c, v)
<1>1. make_authenticated_out(y, c) = IF o.ext = "succeeded" THEN z ELSE mark_connected(z, c)
  <2>1. IsNet(y) /\ y.out \in [Conn -> OutSession] BY TypedFields DEF Good, Sound, Typed
  <2>2. [y EXCEPT !.out[c].type = "s2sout", !.out[c].authed = y.out[c].incoming] = z
    BY <2>1 DEF SetOut, IsNet, NetField, OutFields, OutSession
  <2> HIDE DEF z
  <2> QED BY <2>2 DEF make_authenticated_out
<1>2. o \in OutSession BY At DEF Good
<1>3. v \in OutSession /\ v.type = "s2sout" /\ v.ext = o.ext /\ v.conn = o.conn /\ v.sendq = o.sendq
  BY <1>2 DEF OutFields, OutSession
<1> HIDE DEF v
<1>4. Alive(v) /\ Alive(v) = Alive(y.out[c]) BY <1>3 DEF Alive
<1>5. Local(c, v, y.inc[c], y.up[c], y.down[c], Asked(y, c), y.got[c])
  <2>1. Len(v.sendq) <= SendqSize BY <1>3, At DEF Local, Good
  <2> QED BY <1>3, <1>4, <2>1, At, OutChange DEF Good
<1>6. Good(z) /\ z.out[c] = v BY <1>3, <1>4, <1>5, PutOut
<1>7. Good(mark_connected(z, c)) BY <1>4, <1>6, MarkGood
<1> QED BY <1>1, <1>6, <1>7

(* make_authenticated of an accepted session, which ends the               *)
(* authentication step in play.                                            *)
LEMMA AuthInGood ==
  ASSUME NEW y, Good(y), NEW c \in Conn, c[2] > 0, FreeAt(y, c)
  PROVE  LET z == make_authenticated_in(y, c) IN
         Good(z) /\ Frame(y, z, {"inc", "tab"})
<1> DEFINE i == y.inc[c]
           g == Remote(c[1])
           v == [i EXCEPT !.type = "s2sin", !.authed = TRUE]
           t == IF i.outgoing /\ y.tab[g] = NoConn THEN c ELSE y.tab[g]
           z == SetTab(SetIn(y, c, v), g, t)
<1>1. make_authenticated_in(y, c) = IF ~LiveIn(y, c) THEN y ELSE z
  BY DEF make_authenticated_in, SetTab, SetIn
<1>2. ASSUME LiveIn(y, c) PROVE Good(z) /\ Frame(y, z, {"inc", "tab"})
  <2>1. i \in InSession /\ i.type \in {"s2sin_unauthed", "s2sin"} BY <1>2, At DEF Good, LiveIn
  <2>2. v \in InSession /\ v.type = "s2sin" /\ v.ext = i.ext /\ v.authed = TRUE /\ v.outgoing = i.outgoing
    BY <2>1 DEF InSession
  <2>3. Local(c, y.out[c], i, y.up[c], y.down[c], Asked(y, c), y.got[c]) BY At DEF Good
  <2>4. i.outgoing => Usable(v) BY <2>2 DEF Usable
  <2> HIDE DEF v
  <2>5. Local(c, y.out[c], v, y.up[c], y.down[c], Asked(y, c), y.got[c]) BY <2>1, <2>2, <2>3, InAuth DEF FreeAt
  <2>6. g \in Host /\ g # c[1] /\ c # NoConn BY Conns, Hosts
  <2>7. y.tab[g] = c => i.outgoing BY <2>6 DEF Good, Sound, Routes, Usable
  <2>8. (t = c /\ y.tab[g] = NoConn /\ Usable(v)) \/ (t = y.tab[g] /\ (y.tab[g] = c => Usable(v))) BY <2>4, <2>7
  <2> HIDE DEF t
  <2> QED BY <2>2, <2>5, <2>8, PutInAndTab
<1>3. Frame(y, y, {"inc", "tab"}) BY DEF Frame
<1> QED BY <1>1, <1>2, <1>3

(* The opener notes what does not matter to the acceptor. *)
LEMMA OutSame ==
  ASSUME NEW y, Good(y), NEW c \in Conn, Alive(y.out[c]), NEW v \in OutSession,
         v.type = y.out[c].type, v.ext = y.out[c].ext, v.conn = y.out[c].conn, v.sendq = y.out[c].sendq
  PROVE  LET z == SetOut(y, c, v) IN
         /\ Good(z) /\ Frame(y, z, {"out"}) /\ z.out[c] = v /\ (FreeAt(y, c) => FreeAt(z, c))
<1> DEFINE z == SetOut(y, c, v)
<1>1. /\ Alive(v) = Alive(y.out[c]) /\ Alive(v) /\ v.type # "none"
      /\ y.out[c].type = "s2sout" => v.type \in {"s2sout", "s2s_destroyed"}
  BY DEF Alive
<1>2. Local(c, y.out[c], y.inc[c], y.up[c], y.down[c], Asked(y, c), y.got[c]) BY At DEF Good
<1>3. Len(v.sendq) <= SendqSize BY <1>2 DEF Local
<1>4. /\ Local(c, v, y.inc[c], y.up[c], y.down[c], Asked(y, c), y.got[c])
      /\ FreeAt(y, c) => NoStep(v, y.inc[c], y.up[c], y.down[c], Asked(y, c))
  BY <1>1, <1>2, <1>3, OutChange DEF FreeAt
<1>5. Good(z) /\ Frame(y, z, {"out"}) /\ z.out[c] = v BY <1>1, <1>4, PutOut, ZenonT(60)
<1> HIDE DEF z
<1>6. z.inc = y.inc /\ z.up = y.up /\ z.down = y.down /\ z.req = y.req BY <1>5 DEF Frame, NetField
<1>7. FreeAt(y, c) => FreeAt(z, c) BY <1>4, <1>5, <1>6 DEF FreeAt, Asked
<1> QED BY <1>5, <1>7 DEF z

(* initiate_dialback, with no authentication step in play. *)
LEMMA InitiateGood ==
  ASSUME NEW y, Good(y), NEW c \in Conn, Alive(y.out[c]), c[2] > 0, FreeAt(y, c)
  PROVE  Good(initiate_dialback(y, c))
<1> DEFINE v == [y.out[c] EXCEPT !.key = TRUE]
           z == SetOut(y, c, v)
           x == Item("result", c, TRUE)
<1>1. initiate_dialback(y, c) = Up(z, c, <<x>>) BY DEF initiate_dialback, SetOut
<1>2. y.out[c] \in OutSession BY At DEF Good
<1>3. /\ v \in OutSession /\ v.type = y.out[c].type /\ v.ext = y.out[c].ext
      /\ v.conn = y.out[c].conn /\ v.sendq = y.out[c].sendq
  BY <1>2 DEF OutFields, OutSession
<1> HIDE DEF v
<1>4. Good(z) /\ FreeAt(z, c) BY <1>3, OutSame
<1>5. x \in UpItem(c) BY Items
<1> HIDE DEF x, z
<1> QED BY <1>1, <1>4, <1>5, UpGood

(* The request for a bidirectional stream. *)
LEMMA BidiGood ==
  ASSUME NEW y, Good(y), NEW c \in Conn, Alive(y.out[c])
  PROVE  LET z == request_bidi(y, c) IN
         /\ Good(z) /\ (FreeAt(y, c) => FreeAt(z, c))
         /\ z.out[c].type = y.out[c].type /\ z.out[c].conn = y.out[c].conn
<1> DEFINE v == [y.out[c] EXCEPT !.incoming = TRUE]
           w == SetOut(y, c, v)
           x == Item("bidi", NoConn, TRUE)
           z == Up(w, c, <<x>>)
<1>1. request_bidi(y, c) = IF Bidi /\ y.out[c].type = "s2sout_unauthed" THEN z ELSE y
  BY DEF request_bidi, SetOut
<1>2. y.out[c] \in OutSession BY At DEF Good
<1>3. /\ v \in OutSession /\ v.type = y.out[c].type /\ v.ext = y.out[c].ext
      /\ v.conn = y.out[c].conn /\ v.sendq = y.out[c].sendq
  BY <1>2 DEF OutFields, OutSession
<1> HIDE DEF v
<1>4. Good(w) /\ w.out[c] = v /\ (FreeAt(y, c) => FreeAt(w, c)) BY <1>3, OutSame
<1>5. x \in UpItem(c) /\ ~UpStep(x, w.out[c]) BY Items DEF UpStep, Item
<1> HIDE DEF x, w
<1>6. Good(z) /\ Frame(w, z, {"up"}) /\ (FreeAt(w, c) => FreeAt(z, c)) BY <1>4, <1>5, UpGood
<1>7. z.out = w.out BY <1>6 DEF Frame, NetField
<1> QED BY <1>1, <1>3, <1>4, <1>6, <1>7

(* With no step in play EXTERNAL has not succeeded. *)
LEMMA NotYet ==
  ASSUME NEW y, Good(y), NEW c \in Conn, c[2] > 0, FreeAt(y, c)
  PROVE  y.out[c].ext # "succeeded"
BY At DEF Good, FreeAt, NoStep, Accepted, Local, Phase

(* The opener's EXTERNAL state changes. *)
LEMMA ExtGood ==
  ASSUME NEW y, Good(y), NEW c \in Conn, Alive(y.out[c]), c[2] > 0, FreeAt(y, c), y.out[c].conn,
         NEW e \in {"attempting", "failed"}
  PROVE  LET z == SetOut(y, c, [y.out[c] EXCEPT !.ext = e]) IN
         Good(z) /\ FreeAt(z, c) /\ Alive(z.out[c])
<1> DEFINE o == y.out[c]
           v == [o EXCEPT !.ext = e]
           z == SetOut(y, c, v)
<1>1. o \in OutSession /\ Local(c, o, y.inc[c], y.up[c], y.down[c], Asked(y, c), y.got[c]) BY At DEF Good
<1>2. o.ext # "succeeded" BY NotYet
<1>3. v \in OutSession /\ v.type = o.type /\ v.sendq = o.sendq BY <1>1, <1>2 DEF OutFields, OutSession
<1>4. /\ Local(c, v, y.inc[c], y.up[c], y.down[c], Asked(y, c), y.got[c])
      /\ NoStep(v, y.inc[c], y.up[c], y.down[c], Asked(y, c))
  BY <1>1, <1>2, OutExt DEF FreeAt
<1>5. Alive(v) /\ Alive(v) = Alive(y.out[c]) BY <1>3 DEF Alive
<1> HIDE DEF v
<1>6. Good(z) /\ Frame(y, z, {"out"}) /\ z.out[c] = v
  BY ONLY Good(y), c \in Conn, <1>3, <1>4, <1>5, PutOut
<1> HIDE DEF z
<1>7. z.inc = y.inc /\ z.up = y.up /\ z.down = y.down /\ z.req = y.req BY <1>6 DEF Frame, NetField
<1>8. FreeAt(z, c) BY <1>4, <1>6, <1>7 DEF FreeAt, Asked
<1> QED BY <1>5, <1>6, <1>8 DEF z, v

(* EXTERNAL is tried. *)
LEMMA StartExternalGood ==
  ASSUME NEW y, Good(y), NEW c \in Conn, Alive(y.out[c]), c[2] > 0, FreeAt(y, c), y.out[c].conn
  PROVE  Good(start_external(y, c))
<1> DEFINE z == SetOut(y, c, [y.out[c] EXCEPT !.ext = "attempting"])
           x == Item("auth", NoConn, TRUE)
<1>1. start_external(y, c) = Up(z, c, <<x>>) BY DEF start_external, SetOut
<1>2. Good(z) /\ FreeAt(z, c) BY ExtGood
<1>3. x \in UpItem(c) BY Items
<1> HIDE DEF x, z
<1> QED BY <1>1, <1>2, <1>3, UpGood

(* <failure/>: dialback instead. *)
LEMMA FailureGood ==
  ASSUME NEW y, Good(y), NEW c \in Conn, Alive(y.out[c]), c[2] > 0, FreeAt(y, c), y.out[c].conn
  PROVE  Good(failure(y, c))
<1> DEFINE z == SetOut(y, c, [y.out[c] EXCEPT !.ext = "failed"])
<1>1. failure(y, c) = initiate_dialback(z, c) BY DEF failure, SetOut
<1>2. Good(z) /\ FreeAt(z, c) /\ Alive(z.out[c]) BY ExtGood
<1> HIDE DEF z
<1> QED BY <1>1, <1>2, InitiateGood

(* The features hooks. *)
LEMMA FeaturesGood ==
  ASSUME NEW y, Good(y), NEW c \in Conn, Alive(y.out[c]), c[2] > 0, y.out[c].conn,
         y.out[c].ext # "succeeded" => FreeAt(y, c), NEW offered \in BOOLEAN
  PROVE  Good(features(y, c, offered))
<1> DEFINE z == request_bidi(y, c)
<1>1. /\ Good(z) /\ (FreeAt(y, c) => FreeAt(z, c))
      /\ z.out[c].type = y.out[c].type /\ z.out[c].conn = y.out[c].conn
  BY BidiGood
<1>2. \/ y.out[c].type = "s2sout" /\ features(y, c, offered) = mark_connected(z, c)
      \/ y.out[c].type # "s2sout" /\ features(y, c, offered) = start_external(z, c)
      \/ y.out[c].type # "s2sout" /\ features(y, c, offered) = initiate_dialback(z, c)
  BY DEF features
<1> HIDE DEF z
<1>3. Alive(z.out[c]) BY <1>1 DEF Alive
<1>4. y.out[c].type # "s2sout" => FreeAt(y, c) BY At DEF Good, Local, Phase, Alive
<1> QED BY <1>1, <1>2, <1>3, <1>4, MarkGood, StartExternalGood, InitiateGood

(* <success/> in one step: the session is authenticated, then its stream   *)
(* opened again.                                                           *)
LEMMA SuccessIs ==
  ASSUME NEW y, Good(y), NEW c \in Conn
  PROVE  success(y, c) = Up(SetOut(y, c, [y.out[c] EXCEPT !.ext = "succeeded", !.reset = TRUE,
                                                          !.type = "s2sout", !.authed = y.out[c].incoming]),
                            c, <<Item("open", NoConn, TRUE)>>)
<1> DEFINE o == y.out[c]
           v == [o EXCEPT !.ext = "succeeded", !.reset = TRUE, !.type = "s2sout", !.authed = o.incoming]
           w == SetOut(y, c, v)
           x == Item("open", NoConn, TRUE)
<1>1. IsNet(y) /\ y.out \in [Conn -> OutSession] BY TypedFields DEF Good, Sound, Typed
<1> DEFINE y1 == [y EXCEPT !.out[c].ext = "succeeded", !.out[c].reset = TRUE]
           y2 == Up(y1, c, <<x>>)
           y3 == [y2 EXCEPT !.out[c].type = "s2sout", !.out[c].authed = y2.out[c].incoming]
<1>2. y1.out[c].ext = "succeeded" /\ y1.out[c].incoming = o.incoming /\ y1.cut = y.cut /\ y1.up = y.up
  BY <1>1 DEF IsNet, NetField, OutFields, OutSession
<1>3. [y1 EXCEPT !.out[c].type = "s2sout", !.out[c].authed = o.incoming] = w
  <2> DEFINE p == [o EXCEPT !.ext = "succeeded", !.reset = TRUE]
             q == [p EXCEPT !.type = "s2sout", !.authed = o.incoming]
             w1 == SetOut(y, c, p)
  <2>1. y.out \in [Conn -> OutFields] /\ o \in OutFields BY <1>1 DEF OutSession
  <2>2. p \in OutFields /\ q = v BY <2>1 DEF OutFields
  <2>3. y1 = w1 BY <1>1, <2>1 DEF SetOut, IsNet, NetField, OutFields
  <2> HIDE DEF p, y1, v
  <2>4. IsNet(w1) /\ w1.out = [y.out EXCEPT ![c] = p] BY <1>1 DEF SetOut, IsNet, NetField
  <2>5. SetOut(w1, c, q) = SetOut(y, c, q) BY <1>1 DEF SetOut, IsNet, NetField
  <2>6. [w1 EXCEPT !.out[c].type = "s2sout", !.out[c].authed = o.incoming] = SetOut(w1, c, q)
    <3>1. w1.out[c] = p BY <2>1, <2>4
    <3> HIDE DEF w1, o, q
    <3>2. w1.out \in [Conn -> OutFields] BY <2>1, <2>2, <2>4
    <3>3. q = [p EXCEPT !.type = "s2sout", !.authed = o.incoming] BY DEF q
    <3> QED BY ONLY <2>2, <2>4, <3>1, <3>2, <3>3, c \in Conn DEF SetOut, IsNet, NetField, OutFields
  <2> QED BY <2>2, <2>3, <2>5, <2>6
<1>4. w.cut = y.cut /\ w.up = y.up BY <1>1 DEF SetOut, IsNet, NetField
<1>5. y2.out = y1.out BY <1>1 DEF Up, IsNet, NetField
<1>6. success(y, c) = y3 BY <1>2, <1>5 DEF success, make_authenticated_out
<1>7. ASSUME c \in y.cut PROVE success(y, c) = Up(w, c, <<x>>)
  <2>1. y2 = y1 /\ Up(w, c, <<x>>) = w BY <1>2, <1>4, <1>7 DEF Up
  <2> QED BY <2>1, <1>2, <1>3, <1>6
<1>8. ASSUME c \notin y.cut PROVE success(y, c) = Up(w, c, <<x>>)
  <2> DEFINE u == y.up[c] \o <<x>>
  <2>1. y2 = [y1 EXCEPT !.up[c] = u] /\ Up(w, c, <<x>>) = [w EXCEPT !.up[c] = u] BY <1>2, <1>4, <1>8 DEF Up
  <2> HIDE DEF u, x
  <2>2. y3 = [[y1 EXCEPT !.up[c] = u] EXCEPT !.out[c].type = "s2sout", !.out[c].authed = o.incoming]
    BY <2>1, <1>2, <1>5
  <2>3. [[y1 EXCEPT !.up[c] = u] EXCEPT !.out[c].type = "s2sout", !.out[c].authed = o.incoming]
          = [[y1 EXCEPT !.out[c].type = "s2sout", !.out[c].authed = o.incoming] EXCEPT !.up[c] = u]
    BY <1>1, ZenonT(60) DEF IsNet, NetField
  <2> QED BY <2>1, <2>2, <2>3, <1>3, <1>6
<1>9. success(y, c) = Up(w, c, <<x>>) BY <1>7, <1>8
<1> QED BY <1>9

(* <success/>: the session is authenticated and its stream opened again. *)
LEMMA SuccessGood ==
  ASSUME NEW y, Good(y), NEW c \in Conn, Alive(y.out[c]), c[2] > 0, y.out[c].conn,
         y.inc[c].ext = "succeeded"
  PROVE  Good(success(y, c))
<1> DEFINE o == y.out[c]
           v == [o EXCEPT !.ext = "succeeded", !.reset = TRUE, !.type = "s2sout", !.authed = o.incoming]
           w == SetOut(y, c, v)
           x == Item("open", NoConn, TRUE)
<1>1. o \in OutSession /\ Local(c, o, y.inc[c], y.up[c], y.down[c], Asked(y, c), y.got[c]) BY At DEF Good
<1>2. success(y, c) = Up(w, c, <<x>>) BY SuccessIs
<1>3. v \in OutSession /\ v.type = "s2sout" /\ v.ext = "succeeded" /\ v.conn = o.conn /\ v.sendq = o.sendq
  BY <1>1 DEF OutFields, OutSession
<1> HIDE DEF v
<1>4. Alive(v) /\ Alive(v) = Alive(y.out[c]) BY <1>3 DEF Alive
<1>5. Local(c, v, y.inc[c], y.up[c], y.down[c], Asked(y, c), y.got[c]) BY <1>1, <1>3, OutSuccess
<1>6. Good(w) /\ w.out[c] = v
  <2>1. v \in OutSession /\ v.sendq = y.out[c].sendq /\ Alive(v) = Alive(y.out[c]) BY <1>3, <1>4
  <2> QED BY ONLY Good(y), c \in Conn, <1>5, <2>1, PutOut
<1>7. x \in UpItem(c) /\ ~UpStep(x, w.out[c]) BY <1>3, <1>6, Items DEF UpStep, Item
<1> HIDE DEF x, w
<1> QED BY <1>2, <1>6, <1>7, UpGood

(* The stream header ends the reset. *)
LEMMA ReopenedGood ==
  ASSUME NEW y, Good(y), NEW c \in Conn, Alive(y.out[c])
  PROVE  LET z == reopened(y, c) IN
         /\ Good(z) /\ Frame(y, z, {"out"}) /\ (FreeAt(y, c) => FreeAt(z, c))
         /\ z = SetOut(y, c, z.out[c]) /\ z.out[c] \in OutSession
         /\ z.out[c].type = y.out[c].type /\ z.out[c].ext = y.out[c].ext /\ z.out[c].conn = y.out[c].conn
         /\ z.out[c].sendq = y.out[c].sendq /\ z.out[c].incoming = y.out[c].incoming
         /\ z.out[c].authed = y.out[c].authed
<1> DEFINE v == [y.out[c] EXCEPT !.reset = FALSE]
           z == SetOut(y, c, v)
<1>1. reopened(y, c) = z BY DEF reopened, SetOut
<1>2. y.out[c] \in OutSession BY At DEF Good
<1>3. /\ v \in OutSession /\ v.type = y.out[c].type /\ v.ext = y.out[c].ext
      /\ v.conn = y.out[c].conn /\ v.sendq = y.out[c].sendq
      /\ v.incoming = y.out[c].incoming /\ v.authed = y.out[c].authed
  BY <1>2 DEF OutFields, OutSession
<1> HIDE DEF v
<1>4. Good(z) /\ z.out[c] = v /\ Frame(y, z, {"out"}) /\ (FreeAt(y, c) => FreeAt(z, c)) BY <1>3, OutSame
<1>5. z = SetOut(y, c, z.out[c]) BY <1>4
<1> HIDE DEF z
<1> QED BY <1>1, <1>3, <1>4, <1>5

-----------------------------------------------------------------------------
(* The acceptor agrees to a bidirectional stream. *)
LEMMA AcceptBidiGood ==
  ASSUME NEW y, Good(y), NEW c \in Conn
  PROVE  Good(accept_bidi(y, c))
<1> DEFINE i == y.inc[c]
           v == [i EXCEPT !.outgoing = @ \/ i.type = "s2sin_unauthed"]
<1>1. accept_bidi(y, c) = SetIn(y, c, v) BY DEF accept_bidi, SetIn
<1>2. i \in InSession /\ Local(c, y.out[c], i, y.up[c], y.down[c], Asked(y, c), y.got[c]) BY At DEF Good
<1>3. v \in InSession /\ v.type = i.type /\ v.ext = i.ext /\ (Usable(i) => Usable(v))
  BY <1>2 DEF InSession, Usable
<1> HIDE DEF v
<1>4. Local(c, y.out[c], v, y.up[c], y.down[c], Asked(y, c), y.got[c]) BY <1>2, <1>3, InChange
<1> QED BY <1>1, <1>3, <1>4, PutIn

(* streamopened at the acceptor: features are the answer to the opening of *)
(* the stream.                                                             *)
LEMMA StreamOpenedGood ==
  ASSUME NEW y, Good(y), NEW c \in Conn, LiveIn(y, c),
         c[2] > 0 /\ y.out[c].ext # "succeeded" => FreeAt(y, c)
  PROVE  Good(streamopened(y, c))
<1> DEFINE i == y.inc[c]
           offer == c[2] # 0 /\ c[1] \in y.certs /\ i.type = "s2sin_unauthed"
           v == [i EXCEPT !.ext = IF offer THEN "offered" ELSE @, !.notopen = FALSE]
           z == SetIn(y, c, v)
           x == Item("features", NoConn, offer)
<1>1. streamopened(y, c) = Down(z, c, <<x>>) BY DEF streamopened, SetIn
<1>2. i \in InSession /\ Local(c, y.out[c], i, y.up[c], y.down[c], Asked(y, c), y.got[c]) BY At DEF Good
<1>3. /\ v \in InSession /\ v.type = i.type /\ (Usable(i) => Usable(v))
      /\ v.ext = i.ext \/ (v.ext = "offered" /\ i.type = "s2sin_unauthed" /\ c[2] # 0)
  BY <1>2 DEF InSession, Usable
<1>4. offer \in BOOLEAN /\ x \in DownItem /\ x.t = "features" BY Items DEF Item
<1> HIDE DEF v, offer, x
<1>5. /\ Local(c, y.out[c], v, y.up[c], y.down[c], Asked(y, c), y.got[c])
      /\ FreeAt(y, c) => NoStep(y.out[c], v, y.up[c], y.down[c], Asked(y, c))
  BY <1>2, <1>3, InChange DEF FreeAt
<1>6. Good(z) /\ Frame(y, z, {"inc"}) /\ z.inc[c] = v BY <1>3, <1>5, PutIn
<1> HIDE DEF z
<1>7. z.out = y.out /\ z.up = y.up /\ z.down = y.down /\ z.req = y.req BY <1>6 DEF Frame, NetField
<1>8. FreeAt(y, c) => FreeAt(z, c) BY <1>5, <1>6, <1>7 DEF FreeAt, Asked
<1>9. c[2] > 0 => z.out[c].conn BY <1>7, Attached DEF Good, LiveIn
<1>10. z.out[c].ext = "succeeded" => ~DownStep(x, z.out[c]) BY <1>4 DEF DownStep
<1> QED BY <1>1, <1>4, <1>6, <1>7, <1>8, <1>9, <1>10, DownGood

(* The three changes that <success/> makes at the acceptor, in either      *)
(* order.                                                                  *)
LEMMA TabInDown ==
  ASSUME NEW y, IsNet(y), y.inc \in [Conn -> InSession], NEW c \in Conn, NEW e, NEW v, NEW d, NEW g, NEW t
  PROVE  SetTab(SetIn(SetDown(SetIn(y, c, e), c, d), c, v), g, t) = SetDown(SetTab(SetIn(y, c, v), g, t), c, d)
BY ZenonT(60) DEF SetTab, SetIn, SetDown, IsNet, NetField

(* EXTERNAL succeeds at the acceptor, in one step: the session is let in,  *)
(* then told so.                                                           *)
LEMMA AcceptIs ==
  ASSUME NEW y, Good(y), NEW c \in Conn, LiveIn(y, c)
  PROVE  LET i == y.inc[c]
             g == Remote(c[1])
             v == [i EXCEPT !.ext = "succeeded", !.type = "s2sin", !.authed = TRUE]
             t == IF i.outgoing /\ y.tab[g] = NoConn THEN c ELSE y.tab[g]
             x == Item("success", NoConn, TRUE)
         IN make_authenticated_in(Down([y EXCEPT !.inc[c].ext = "succeeded"], c, <<x>>), c)
              = Down(SetTab(SetIn(y, c, v), g, t), c, <<x>>)
<1> DEFINE i == y.inc[c]
           g == Remote(c[1])
           v == [i EXCEPT !.ext = "succeeded", !.type = "s2sin", !.authed = TRUE]
           t == IF i.outgoing /\ y.tab[g] = NoConn THEN c ELSE y.tab[g]
           z == SetTab(SetIn(y, c, v), g, t)
           x == Item("success", NoConn, TRUE)
           y1 == [y EXCEPT !.inc[c].ext = "succeeded"]
           y2 == Down(y1, c, <<x>>)
<1>f1. i \in InSession /\ i.type \in {"s2sin_unauthed", "s2sin"} BY At DEF Good, LiveIn
<1>f2. v.closing = i.closing BY <1>f1 DEF InSession
<1>f4. IsNet(y) /\ y.inc \in [Conn -> InSession] BY TypedFields DEF Good, Sound, Typed
<1>f5. g \in Host BY Conns, Hosts
<1> DEFINE e == [i EXCEPT !.ext = "succeeded"]
           d == y.down[c] \o <<x>>
           y3 == [y2 EXCEPT !.inc[c].type = "s2sin", !.inc[c].authed = TRUE,
                            !.tab[g] = IF y2.inc[c].outgoing /\ @ = NoConn THEN c ELSE @]
<1>1. y1 = SetIn(y, c, e) /\ e \in InSession BY <1>f1 DEF SetIn, InSession
<1>2. /\ IsNet(y1) /\ y1.inc \in [Conn -> InSession] /\ y1.inc[c] = e
      /\ y1.cut = y.cut /\ y1.tab = y.tab /\ y1.down = y.down
  BY <1>f4, <1>1 DEF SetIn, IsNet, NetField
<1>3. e.type = i.type /\ e.outgoing = i.outgoing /\ e.closing = i.closing BY <1>f1 DEF InSession
<1>4. [e EXCEPT !.type = "s2sin", !.authed = TRUE] = v BY <1>f1 DEF InSession
<1> HIDE DEF y1, e
<1>5. y2 = IF c \in y.cut \/ i.closing THEN y1 ELSE SetDown(y1, c, d)
  BY <1>2, <1>3 DEF Down, SetDown
<1>6. IsNet(SetDown(y1, c, d)) /\ SetDown(y1, c, d).inc = y1.inc /\ SetDown(y1, c, d).tab = y1.tab
  BY <1>2 DEF SetDown, IsNet, NetField
<1> HIDE DEF d, v
<1>7. IsNet(y2) /\ y2.inc = y1.inc /\ y2.tab = y1.tab BY <1>2, <1>5, <1>6
<1>8. y2.inc \in [Conn -> InSession] /\ y2.inc[c] = e BY <1>2, <1>7
<1> HIDE DEF y2
<1>9. make_authenticated_in(y2, c) = y3 BY <1>f1, <1>3, <1>8 DEF make_authenticated_in, LiveIn
<1>10. y2.inc[c].outgoing = i.outgoing /\ y2.tab[g] = y.tab[g] BY <1>2, <1>3, <1>7, <1>8
<1>11. y3 = [y2 EXCEPT !.inc[c].type = "s2sin", !.inc[c].authed = TRUE, !.tab[g] = t] BY <1>10
<1> HIDE DEF t
<1>12. [y2 EXCEPT !.inc[c].type = "s2sin", !.inc[c].authed = TRUE, !.tab[g] = t]
       = SetTab(SetIn(y2, c, [y2.inc[c] EXCEPT !.type = "s2sin", !.authed = TRUE]), g, t)
  BY ONLY <1>7, <1>8, c \in Conn DEF SetTab, SetIn, IsNet, NetField, InSession
<1>13. make_authenticated_in(y2, c) = SetTab(SetIn(y2, c, v), g, t) BY ONLY <1>4, <1>8, <1>9, <1>11, <1>12
<1>14. ASSUME c \in y.cut \/ i.closing PROVE make_authenticated_in(y2, c) = Down(z, c, <<x>>)
  <2>1. Down(z, c, <<x>>) = z
    <3>1. z.cut = y.cut /\ z.inc[c] = v BY <1>f4 DEF SetTab, SetIn, IsNet, NetField
    <3> QED BY <1>f2, <1>14, <3>1 DEF Down
  <2>2. SetIn(SetIn(y, c, e), c, v) = SetIn(y, c, v) BY ONLY <1>f4, c \in Conn DEF SetIn, IsNet, NetField
  <2> QED BY <1>1, <1>5, <1>13, <1>14, <2>1, <2>2
<1>15. ASSUME ~(c \in y.cut \/ i.closing) PROVE make_authenticated_in(y2, c) = Down(z, c, <<x>>)
  <2>1. Down(z, c, <<x>>) = SetDown(z, c, d)
    <3>1. z.cut = y.cut /\ z.inc[c] = v /\ z.down = y.down BY <1>f4 DEF SetTab, SetIn, IsNet, NetField
    <3> QED BY <1>f2, <1>15, <3>1 DEF Down, SetDown, d
  <2>2. SetTab(SetIn(SetDown(SetIn(y, c, e), c, d), c, v), g, t) = SetDown(SetTab(SetIn(y, c, v), g, t), c, d)
    BY <1>f4, TabInDown
  <2>3. y2 = SetDown(SetIn(y, c, e), c, d) BY ONLY <1>1, <1>5, <1>15
  <2> QED BY ONLY <1>13, <2>1, <2>2, <2>3
<1>16. make_authenticated_in(y2, c) = Down(z, c, <<x>>) BY <1>14, <1>15
<1> QED BY <1>16 DEF y1, y2, v, t

(* EXTERNAL succeeds at the acceptor. *)
LEMMA AcceptGood ==
  ASSUME NEW y, Good(y), NEW c \in Conn, LiveIn(y, c), c[2] > 0, FreeAt(y, c)
  PROVE  Good(make_authenticated_in(Down([y EXCEPT !.inc[c].ext = "succeeded"], c,
                                         <<Item("success", NoConn, TRUE)>>), c))
<1> DEFINE i == y.inc[c]
           g == Remote(c[1])
           v == [i EXCEPT !.ext = "succeeded", !.type = "s2sin", !.authed = TRUE]
           t == IF i.outgoing /\ y.tab[g] = NoConn THEN c ELSE y.tab[g]
           z == SetTab(SetIn(y, c, v), g, t)
           x == Item("success", NoConn, TRUE)
           y1 == [y EXCEPT !.inc[c].ext = "succeeded"]
           y2 == Down(y1, c, <<x>>)
<1>1. i \in InSession /\ i.type \in {"s2sin_unauthed", "s2sin"} BY At DEF Good, LiveIn
<1>2. /\ v \in InSession /\ v.type = "s2sin" /\ v.ext = "succeeded" /\ v.closing = i.closing
      /\ i.outgoing => Usable(v)
  BY <1>1 DEF InSession, Usable
<1>3. Local(c, y.out[c], i, y.up[c], y.down[c], Asked(y, c), y.got[c]) BY At DEF Good
<1>4. IsNet(y) /\ y.inc \in [Conn -> InSession] BY TypedFields DEF Good, Sound, Typed
<1>5. g \in Host /\ g # c[1] /\ c # NoConn BY Conns, Hosts
<1>6. make_authenticated_in(y2, c) = Down(z, c, <<x>>) BY AcceptIs
<1> HIDE DEF v
<1>7. Local(c, y.out[c], v, y.up[c], y.down[c], Asked(y, c), y.got[c]) BY <1>1, <1>2, <1>3, InAuth DEF FreeAt
<1>8. y.tab[g] = c => i.outgoing BY <1>5 DEF Good, Sound, Routes, Usable
<1>9. (t = c /\ y.tab[g] = NoConn /\ Usable(v)) \/ (t = y.tab[g] /\ (y.tab[g] = c => Usable(v))) BY <1>2, <1>8
<1> HIDE DEF t
<1>10. Good(z) /\ Frame(y, z, {"inc", "tab"}) /\ z.inc[c] = v BY <1>2, <1>7, <1>9, PutInAndTab
<1> HIDE DEF z
<1>11. z.out = y.out BY <1>10 DEF Frame, NetField
<1>12. z.out[c].conn BY <1>11, Attached DEF Good, LiveIn
<1>13. x \in DownItem /\ ~DownStep(x, z.out[c]) BY Items DEF DownStep, Item
<1> HIDE DEF x
<1>14. z.inc[c].ext = "succeeded" BY <1>2, <1>10
<1>15. Good(Down(z, c, <<x>>)) BY <1>10, <1>12, <1>13, <1>14, DownGood
<1> QED BY <1>6, <1>15 DEF x

(* Its stream is reset. *)
LEMMA ResetStreamGood ==
  ASSUME NEW y, Good(y), NEW c \in Conn
  PROVE  LET v == [y.inc[c] EXCEPT !.notopen = TRUE]
             z == reset_stream(y, c) IN
         /\ z = SetIn(y, c, v) /\ v \in InSession
         /\ v.type = y.inc[c].type /\ v.ext = y.inc[c].ext /\ v.outgoing = y.inc[c].outgoing
         /\ v.authed = y.inc[c].authed /\ v.closing = y.inc[c].closing
         /\ Good(z) /\ Frame(y, z, {"inc"}) /\ z.inc = [y.inc EXCEPT ![c] = v]
<1> DEFINE i == y.inc[c]
           v == [i EXCEPT !.notopen = TRUE]
           z == SetIn(y, c, v)
<1>0. Typed(y) BY DEF Good, Sound
<1>1. reset_stream(y, c) = z BY DEF reset_stream, SetIn
<1>2. i \in InSession /\ Local(c, y.out[c], i, y.up[c], y.down[c], Asked(y, c), y.got[c]) BY At DEF Good
<1>3. /\ v \in InSession /\ v.type = i.type /\ v.ext = i.ext /\ v.outgoing = i.outgoing
      /\ v.authed = i.authed /\ v.closing = i.closing
  BY <1>2 DEF InSession
<1> HIDE DEF v
<1>4. Local(c, y.out[c], v, y.up[c], y.down[c], Asked(y, c), y.got[c]) BY <1>2, <1>3, InChange
<1>5. Usable(i) => Usable(v) BY <1>3 DEF Usable
<1>6. Good(z) BY <1>3, <1>4, <1>5, PutIn
<1>7. Frame(y, z, {"inc"}) /\ z.inc = [y.inc EXCEPT ![c] = v] BY <1>0, <1>3, SetInFields
<1> HIDE DEF z
<1> QED BY <1>1, <1>3, <1>6, <1>7 DEF z, v

(* s2s_external_auth: accepted, refused, or never offered. *)
LEMMA ExternalGood ==
  ASSUME NEW y, Good(y), NEW c \in Conn, LiveIn(y, c), c[2] > 0 => FreeAt(y, c), NEW accept \in BOOLEAN
  PROVE  Good(s2s_external_auth(y, c, accept))
<1> DEFINE z == make_authenticated_in(Down([y EXCEPT !.inc[c].ext = "succeeded"], c,
                                           <<Item("success", NoConn, TRUE)>>), c)
           x == Item("failure", NoConn, TRUE)
<1>1. s2s_external_auth(y, c, accept) = IF y.inc[c].ext # "offered" THEN close_in(y, c)
                                        ELSE IF accept THEN reset_stream(z, c) ELSE Down(y, c, <<x>>)
  BY DEF s2s_external_auth
<1>2. Good(close_in(y, c)) BY CloseInGood
<1>3. y.inc[c].ext = "offered" => c[2] > 0 BY At, Conns DEF Good, Local, Claim
<1>8. y.inc[c].ext = "offered" => Good(z) BY <1>3, AcceptGood
<1>4. y.inc[c].ext = "offered" => Good(reset_stream(z, c)) BY <1>8, ResetStreamGood
<1>5. x \in DownItem /\ x.t # "success" BY Items DEF Item
<1> HIDE DEF x, z
<1>6. c[2] > 0 => y.out[c].conn BY Attached DEF Good, LiveIn
<1>7. Good(Down(y, c, <<x>>)) BY <1>5, <1>6, DownGood
<1> QED BY <1>1, <1>2, <1>4, <1>7

(* The acceptor's open questions change for c only. *)
LEMMA SoundReq ==
  ASSUME NEW y, Sound(y), NEW c \in Conn, NEW v \in SUBSET Conn,
         \A d \in Conn : d # c => (d \in v <=> d \in y.req[Remote(c[1])]),
         Local(c, y.out[c], y.inc[c], y.up[c], y.down[c], c \in v, y.got[c])
  PROVE  LET z == SetReq(y, Remote(c[1]), v) IN
         /\ Sound(z) /\ Frame(y, z, {"req"}) /\ Asked(z, c) = (c \in v)
<1> DEFINE g == Remote(c[1])
           z == SetReq(y, g, v)
<1>1. Typed(y) BY DEF Sound
<1>2. c[1] \in Host /\ g \in Host /\ g # c[1] BY Conns, Hosts
<1>3. Typed(z) /\ Frame(y, z, {"req"}) /\ z.req = [y.req EXCEPT ![g] = v] BY <1>1, <1>2, SetReqFields
<1> HIDE DEF z
<1>4. y.req \in [Host -> SUBSET Conn] BY TypedFields DEF Sound
<1>5. z.tab = y.tab /\ z.down = y.down /\ z.out = y.out /\ z.up = y.up /\ z.inc = y.inc /\ z.got = y.got
  BY <1>3 DEF Frame, NetField
<1>6. Asked(z, c) = (c \in v) BY <1>2, <1>3, <1>4 DEF Asked
<1>7. \A h \in Host : h # g => z.req[h] = y.req[h] BY <1>3, <1>4
<1>8. z.req[g] = v BY <1>2, <1>3, <1>4
<1>9. ASSUME NEW d \in Conn, NEW h \in Host, d # c PROVE (d \in z.req[h]) = (d \in y.req[h])
  <2>1. CASE h = g BY <1>8, <1>9, <2>1
  <2>2. CASE h # g BY <1>7, <2>2
  <2> QED BY <2>1, <2>2
<1>10. ASSUME NEW d \in Conn PROVE LocalAt(z, d)
  <2>1. CASE d = c
    <3>1. z.req[c[1]] = y.req[c[1]] BY <1>2, <1>7
    <3>2. c \notin z.req[c[1]] BY <3>1, At
    <3> QED BY <1>5, <1>6, <2>1, <3>2 DEF LocalAt
  <2>2. CASE d # c
    <3>1. d[1] \in Host /\ Remote(d[1]) \in Host BY Conns, Hosts
    <3>2. Asked(z, d) = Asked(y, d) /\ (d \in z.req[d[1]]) = (d \in y.req[d[1]]) BY <1>9, <2>2, <3>1 DEF Asked
    <3>3. LocalAt(y, d) BY DEF Sound, Locals
    <3> QED BY <1>5, <3>2, <3>3 DEF LocalAt
  <2> QED BY <2>1, <2>2
<1>11. Routes(z) BY <1>5 DEF Sound, Routes
<1>12. /\ Sound(z) /\ Frame(y, z, {"req"}) /\ Asked(z, c) = (c \in v)
  BY <1>3, <1>6, <1>10, <1>11 DEF Sound, Locals
<1> QED BY <1>12 DEF z

(* The same with the stanzas. *)
LEMMA PutReq ==
  ASSUME NEW y, Good(y), NEW c \in Conn, NEW v \in SUBSET Conn,
         \A d \in Conn : d # c => (d \in v <=> d \in y.req[Remote(c[1])]),
         Local(c, y.out[c], y.inc[c], y.up[c], y.down[c], c \in v, y.got[c])
  PROVE  LET z == SetReq(y, Remote(c[1]), v) IN
         /\ Good(z) /\ Frame(y, z, {"req"}) /\ Asked(z, c) = (c \in v)
<1> DEFINE z == SetReq(y, Remote(c[1]), v)
<1>1. Sound(z) /\ Frame(y, z, {"req"}) /\ Asked(z, c) = (c \in v) BY SoundReq DEF Good
<1> HIDE DEF z
<1>2. z.out = y.out /\ z.sent = y.sent /\ z.bounced = y.bounced /\ z.routed = y.routed BY <1>1 DEF Frame, NetField
<1>3. Good(z) BY <1>1, <1>2, GoodFrame
<1> QED BY <1>1, <1>3 DEF z

(* The question to the authoritative server takes over from the db:result. *)
LEMMA AskGood ==
  ASSUME NEW y, Good(y), NEW c \in Conn, c[2] > 0 => FreeAt(y, c) /\ y.out[c].conn
  PROVE  LET z == SetReq(y, Remote(c[1]), y.req[Remote(c[1])] \union {c}) IN
         Good(z) /\ Frame(y, z, {"req"})
<1> DEFINE v == y.req[Remote(c[1])] \union {c}
<1>1. y.req \in [Host -> SUBSET Conn] BY TypedFields DEF Good, Sound
<1>2. c[1] \in Host /\ Remote(c[1]) \in Host BY Conns, Hosts
<1>3. /\ v \in SUBSET Conn /\ (c \in v) = TRUE
      /\ \A d \in Conn : d # c => (d \in v <=> d \in y.req[Remote(c[1])])
  BY <1>1, <1>2
<1>4. Local(c, y.out[c], y.inc[c], y.up[c], y.down[c], TRUE, y.got[c])
  BY At, Asking DEF Good, FreeAt
<1> HIDE DEF v
<1>5. Local(c, y.out[c], y.inc[c], y.up[c], y.down[c], c \in v, y.got[c]) BY <1>3, <1>4
<1>6. LET z == SetReq(y, Remote(c[1]), v) IN Good(z) /\ Frame(y, z, {"req"}) BY <1>3, <1>5, PutReq
<1> QED BY <1>6 DEF v

(* The answer takes the question away: no step is in play. *)
LEMMA AnswerGood ==
  ASSUME NEW y, Good(y), NEW c \in Conn, Asked(y, c)
  PROVE  LET z == SetReq(y, Remote(c[1]), y.req[Remote(c[1])] \ {c}) IN
         Good(z) /\ Frame(y, z, {"req"}) /\ (c[2] > 0 => FreeAt(z, c))
<1> DEFINE v == y.req[Remote(c[1])] \ {c}
           z == SetReq(y, Remote(c[1]), v)
<1>1. y.req \in [Host -> SUBSET Conn] BY TypedFields DEF Good, Sound
<1>2. c[1] \in Host /\ Remote(c[1]) \in Host BY Conns, Hosts
<1>3. /\ v \in SUBSET Conn /\ (c \in v) = FALSE
      /\ \A d \in Conn : d # c => (d \in v <=> d \in y.req[Remote(c[1])])
  BY <1>1, <1>2
<1>4. /\ Local(c, y.out[c], y.inc[c], y.up[c], y.down[c], FALSE, y.got[c])
      /\ c[2] > 0 => NoStep(y.out[c], y.inc[c], y.up[c], y.down[c], FALSE)
  BY At, Asking DEF Good
<1> HIDE DEF v
<1>5. Local(c, y.out[c], y.inc[c], y.up[c], y.down[c], c \in v, y.got[c]) BY <1>3, <1>4
<1>6. Good(z) /\ Frame(y, z, {"req"}) /\ Asked(z, c) = (c \in v) BY <1>3, <1>5, PutReq
<1> HIDE DEF z
<1>7. z.out = y.out /\ z.up = y.up /\ z.down = y.down /\ z.inc = y.inc BY <1>6 DEF Frame, NetField
<1>8. Asked(z, c) = FALSE BY <1>3, <1>6
<1>9. c[2] > 0 => FreeAt(z, c) BY <1>4, <1>7, <1>8 DEF FreeAt
<1> QED BY <1>6, <1>9 DEF z, v

(* db:result at the acceptor, which only comes before it let the opener    *)
(* in: the question is asked, by the route to the authoritative server.    *)
LEMMA RequestGood ==
  ASSUME NEW y, Good(y), NEW c \in Conn, LiveIn(y, c), c[2] > 0 => FreeAt(y, c),
         NEW x \in UpItem(c), x.t = "result"
  PROVE  Good(dialback_request(y, c, x))
<1> DEFINE g == Remote(c[1])
           i == y.inc[c]
           w == SetReq(y, g, y.req[g] \union {c})
           v == [i EXCEPT !.authed = FALSE]
           z == SetIn(w, c, v)
           m == Item("verify", c, x.ok)
<1>1. g \in Host /\ c[2] \in Nat BY Conns, Hosts
<1>2. c[2] > 0 => y.out[c].conn BY Attached DEF Good, LiveIn
<1>3. Good(w) /\ Frame(y, w, {"req"}) BY <1>2, AskGood
<1>4. dialback_request(y, c, x) = route(z, g, m)
  BY TypedFields DEF dialback_request, SetIn, SetReq, Good, Sound, Typed, IsNet, NetField
<1>5. i \in InSession /\ ~Usable(i)
  <2>1. i \in InSession /\ Local(c, y.out[c], i, y.up[c], y.down[c], Asked(y, c), y.got[c]) BY At DEF Good
  <2>2. CASE c[2] > 0 BY <2>1, <2>2 DEF FreeAt, NoStep, Accepted, Usable
  <2>3. CASE c[2] = 0 BY <2>1, <2>3 DEF Local, Claim, Usable
  <2> QED BY <1>1, <2>1, <2>2, <2>3
<1>6. v \in InSession /\ v.type = i.type /\ v.ext = i.ext BY <1>5 DEF InSession
<1> HIDE DEF w, v
<1>7. w.inc = y.inc BY <1>3 DEF Frame, NetField
<1>8. Local(c, w.out[c], i, w.up[c], w.down[c], Asked(w, c), w.got[c]) BY <1>3, <1>7, At DEF Good
<1>9. Local(c, w.out[c], v, w.up[c], w.down[c], Asked(w, c), w.got[c]) BY <1>6, <1>8, InChange
<1>10. Good(z) BY <1>3, <1>5, <1>6, <1>7, <1>9, PutIn
<1>11. m \in QueueItem /\ m.t = "verify"
  BY <1>1 DEF QueueItem, ItemType, Unforged, Item, UpItem
<1> HIDE DEF z, m
<1>12. Good(route(z, g, m)) BY <1>1, <1>10, <1>11, RouteVerify
<1> QED BY <1>4, <1>12

(* db:verify at the authoritative server. *)
LEMMA VerifyGood ==
  ASSUME NEW y, Good(y), NEW c \in Conn, LiveIn(y, c), NEW x \in UpItem(c), x.t = "verify"
  PROVE  Good(verify_dialback(y, c, x))
<1> DEFINE m == Item("verified", x.c, x.ok)
<1>1. m \in DownItem /\ m.t = "verified" BY DEF UpItem, DownItem, ItemType, Unforged, Item
<1>2. c[2] > 0 => y.out[c].conn BY Attached DEF Good, LiveIn
<1>3. verify_dialback(y, c, x) = Down(y, c, <<m>>) BY DEF verify_dialback
<1> HIDE DEF m
<1>4. ~DownStep(m, y.out[c]) BY <1>1 DEF DownStep
<1>5. Good(Down(y, c, <<m>>)) BY <1>1, <1>2, <1>4, DownGood
<1> QED BY <1>3, <1>5

(* The answer: it is about an open question, and never good for somebody   *)
(* else.                                                                   *)
LEMMA VerifiedGood ==
  ASSUME NEW y, Good(y), NEW h \in Host, NEW x \in DownItem, x.t \in {"verified", "verify"}
  PROVE  Good(dialback_verified(y, h, x))
<1> DEFINE c == x.c
           w == SetReq(y, Remote(c[1]), y.req[Remote(c[1])] \ {c})
           z == IF x.ok THEN make_authenticated_in(w, c) ELSE w
           m == Item("dbresult", c, x.ok)
<1> SUFFICES ASSUME c \in y.req[h] PROVE Good(dialback_verified(y, h, x)) BY DEF dialback_verified
<1>1. c \in Conn /\ x.ok \in BOOLEAN /\ (c[2] = 0 => ~x.ok) BY DEF DownItem, ItemType, Unforged
<1> HIDE DEF c
<1>2. c[1] \in Host /\ c[2] \in Nat BY <1>1, Conns
<1>3. c[1] # h BY <1>1, At DEF Good
<1>4. h = Remote(c[1]) BY <1>2, <1>3, Hosts
<1>5. Asked(y, c) BY <1>4 DEF Asked
<1>6. Good(w) /\ Frame(y, w, {"req"}) /\ (c[2] > 0 => FreeAt(w, c)) BY <1>1, <1>5, AnswerGood
<1>7. dialback_verified(y, h, x) = IF LiveIn(z, c) THEN Down(z, c, <<m>>) ELSE z
  BY <1>4 DEF dialback_verified, SetReq, c
<1> HIDE DEF w
<1>8. Good(z)
  <2>1. CASE x.ok
    <3>1. c[2] > 0 BY <1>1, <1>2, <2>1
    <3>2. Good(make_authenticated_in(w, c)) BY <1>1, <1>6, <3>1, AuthInGood
    <3> QED BY <2>1, <3>2
  <2>2. CASE ~x.ok BY <1>6, <2>2
  <2> QED BY <2>1, <2>2
<1> HIDE DEF z
<1>9. m \in DownItem /\ m.t = "dbresult" BY <1>1, Items DEF Item
<1> HIDE DEF m
<1>10. ASSUME LiveIn(z, c) PROVE Good(Down(z, c, <<m>>))
  <2>1. c[2] > 0 => z.out[c].conn BY <1>1, <1>8, <1>10, Attached DEF Good, LiveIn
  <2>2. ~DownStep(m, z.out[c]) BY <1>9 DEF DownStep
  <2> QED BY <1>1, <1>8, <1>9, <2>1, <2>2, DownGood
<1> QED BY <1>7, <1>8, <1>10

(* db:result at the opener. *)
LEMMA ResultGood ==
  ASSUME NEW y, Good(y), NEW c \in Conn, Alive(y.out[c]), NEW x, NEW again \in BOOLEAN
  PROVE  Good(dialback_result(y, c, x, again))
<1>1. Good(close_out(y, c, again)) BY CloseOutGood
<1>2. Good(make_authenticated_out(y, c)) BY AuthOutGood
<1> QED BY <1>1, <1>2 DEF dialback_result

(* The stanzas taken on c. *)
SetGot(y, c, v) == [y EXCEPT !.got[c] = v]

(* A real connection's stanzas may be taken. *)
LEMMA GotGood ==
  ASSUME NEW y, Good(y), NEW c \in Conn, c[2] # 0, NEW v \in [Host -> Seq(Nat)]
  PROVE  Good(SetGot(y, c, v))
<1> DEFINE z == SetGot(y, c, v)
<1>1. Typed(y) /\ y.got \in [Conn -> [Host -> Seq(Nat)]] BY TypedFields DEF Good, Sound
<1>2. IsNet(z) /\ Frame(y, z, {"got"}) /\ z.got = [y.got EXCEPT ![c] = v]
  BY <1>1 DEF Typed, Frame, IsNet, NetField, SetGot
<1> HIDE DEF z
<1>3. z.got \in [Conn -> [Host -> Seq(Nat)]] BY <1>1, <1>2
<1>4. z.got \in FieldSet.got BY ONLY <1>3, Zenon DEF FieldSet
<1>5. Typed(z)
  <2>1. \A f \in {"got"} : z[f] \in FieldSet[f] BY <1>4
  <2>2. Typed(y) /\ IsNet(z) /\ Frame(y, z, {"got"}) BY <1>1, <1>2
  <2> QED BY ONLY <2>1, <2>2, Retype, Zenon
<1>6. z.tab = y.tab /\ z.down = y.down /\ z.out = y.out /\ z.up = y.up /\ z.inc = y.inc /\ z.req = y.req
  BY <1>2 DEF Frame, NetField
<1>7. z.sent = y.sent /\ z.bounced = y.bounced /\ z.routed = y.routed BY <1>2 DEF Frame, NetField
<1>8. ASSUME NEW d \in Conn PROVE LocalAt(z, d)
  <2>1. LocalAt(y, d) BY DEF Good, Sound, Locals
  <2>2. CASE d = c
    <3>1. Local(c, y.out[c], y.inc[c], y.up[c], y.down[c], Asked(y, c), z.got[c]) BY <2>1, <2>2, Gotten DEF LocalAt
    <3> QED BY <1>6, <2>1, <2>2, <3>1 DEF LocalAt, Asked
  <2>3. CASE d # c
    <3>1. z.got[d] = y.got[d] BY <1>1, <1>2, <2>3
    <3> QED BY <1>6, <2>1, <3>1 DEF LocalAt, Asked
  <2> QED BY <2>2, <2>3
<1>9. Sound(z) BY <1>5, <1>6, <1>8 DEF Good, Sound, Locals, Routes
<1>10. Good(z) BY <1>6, <1>7, <1>9, GoodFrame
<1> QED BY <1>10 DEF z

(* core_process_stanza: taken, dropped, or the stream is closed. *)
LEMMA ReceiveGood ==
  ASSUME NEW y, Good(y), NEW r \in Host, NEW c \in Conn, NEW s, NEW closed, Good(closed), NEW n \in Nat,
         s.type \in {"s2sin", "s2sout"} => c[2] # 0
  PROVE  Good(Receive(y, r, c, s, closed, n))
<1> DEFINE v == [y.got[c] EXCEPT ![r] = Append(@, n)]
           b == y.dropped \/ c[2] > 0
<1>1. y.got \in [Conn -> [Host -> Seq(Nat)]] /\ y.dropped \in BOOLEAN BY TypedFields DEF Good, Sound
<1>2. v \in [Host -> Seq(Nat)] /\ b \in BOOLEAN BY <1>1
<1>3. Receive(y, r, c, s, closed, n) \in {SetGot(y, c, v), SetDropped(closed, TRUE), SetDropped(y, b)}
  BY DEF Receive, SetGot, SetDropped
<1>4. s.type \in {"s2sin", "s2sout"} => Good(SetGot(y, c, v)) BY <1>2, GotGood
<1>5. Good(SetDropped(closed, TRUE)) /\ Good(SetDropped(y, b)) BY <1>2, SetFlags
<1>6. Receive(y, r, c, s, closed, n) = SetGot(y, c, v) => Good(SetGot(y, c, v)) \/ Good(Receive(y, r, c, s, closed, n))
  <2>1. CASE s.type \in {"s2sin", "s2sout"} BY <1>4, <2>1
  <2>2. CASE s.type \notin {"s2sin", "s2sout"}
    <3>1. Receive(y, r, c, s, closed, n) = SetDropped(y, b) BY <2>2 DEF Receive, SetDropped
    <3> QED BY <3>1, <1>5
  <2> QED BY <2>1, <2>2
<1> QED BY <1>3, <1>5, <1>6
-----------------------------------------------------------------------------
(* Who only claims a domain has no outgoing session and is not let in. *)
LEMMA Opener ==
  ASSUME NEW y, Good(y), NEW c \in Conn
  PROVE  /\ c[2] \in Nat
         /\ Alive(y.out[c]) => c[2] > 0
         /\ y.inc[c].type = "s2sin" => c[2] > 0
         /\ LiveOut(y, c) = Alive(y.out[c])
<1>1. c[2] \in Nat BY Conns
<1>2. c[2] = 0 => ~Alive(y.out[c]) /\ y.inc[c].type # "s2sin" BY At DEF Good, Local, Claim, Alive
<1> QED BY <1>1, <1>2 DEF LiveOut, Alive

(* Each action keeps the invariant: the acceptor reads, *)
LEMMA RecvInGood ==
  ASSUME Good(net), NEW c \in Conn, RecvIn(c)
  PROVE  Good(net')
<1> DEFINE x == Head(net.up[c])
           v == Tail(net.up[c])
           y == SetUp(net, c, v)
<1>1. net.up[c] # <<>> /\ LiveIn(net, c) BY DEF RecvIn
<1>2. Local(c, net.out[c], net.inc[c], net.up[c], net.down[c], Asked(net, c), net.got[c]) BY At DEF Good
<1>3. /\ x \in UpItem(c)
      /\ Local(c, net.out[c], net.inc[c], v, net.down[c], Asked(net, c), net.got[c])
      /\ c[2] > 0 /\ UpStep(x, net.out[c]) => NoStep(net.out[c], net.inc[c], v, net.down[c], Asked(net, c))
  BY <1>1, <1>2, UpTail
<1>4. PICK accept \in BOOLEAN :
        net' = CASE x.t = "open" -> streamopened(y, c)
                 [] x.t = "bidi" -> accept_bidi(y, c)
                 [] x.t = "auth" -> s2s_external_auth(y, c, accept)
                 [] x.t = "result" -> dialback_request(y, c, x)
                 [] x.t = "verify" -> verify_dialback(y, c, x)
                 [] x.t = "msg" -> Receive(y, Remote(c[1]), c, y.inc[c], close_in(y, c), x.n)
                 [] x.t = "end" -> close_in(y, c)
  BY DEF RecvIn, SetUp
<1> HIDE DEF x, v
<1>5. Good(y) /\ Frame(net, y, {"up"}) /\ y.up[c] = v BY <1>3, PutUp
<1> HIDE DEF y
<1>6. y.out = net.out /\ y.inc = net.inc /\ y.down = net.down /\ y.req = net.req BY <1>5 DEF Frame, NetField
<1>7. LiveIn(y, c) BY <1>1, <1>6 DEF LiveIn
<1>8. c[2] > 0 /\ UpStep(x, y.out[c]) => FreeAt(y, c) BY <1>3, <1>5, <1>6 DEF FreeAt, Asked
<1>9. x \in ItemType /\ x.t \in {"open", "bidi", "auth", "result", "verify", "msg", "end"} BY <1>3 DEF UpItem
<1>10. CASE x.t = "open"
  <2>1. c[2] > 0 /\ y.out[c].ext # "succeeded" => FreeAt(y, c) BY <1>8, <1>10 DEF UpStep
  <2> QED BY <1>4, <1>5, <1>7, <1>10, <2>1, StreamOpenedGood
<1>11. CASE x.t = "bidi" BY <1>4, <1>5, <1>11, AcceptBidiGood
<1>12. CASE x.t = "auth"
  <2>1. c[2] > 0 => FreeAt(y, c) BY <1>8, <1>12 DEF UpStep
  <2> QED BY <1>4, <1>5, <1>7, <1>12, <2>1, ExternalGood
<1>13. CASE x.t = "result"
  <2>1. c[2] > 0 => FreeAt(y, c) BY <1>8, <1>13 DEF UpStep
  <2> QED BY <1>3, <1>4, <1>5, <1>7, <1>13, <2>1, RequestGood
<1>14. CASE x.t = "verify" BY <1>3, <1>4, <1>5, <1>7, <1>14, VerifyGood
<1>15. Good(close_in(y, c)) BY <1>5, <1>7, CloseInGood
<1>16. CASE x.t = "msg"
  <2>1. Remote(c[1]) \in Host BY Conns, Hosts
  <2>2. x.n \in Nat BY <1>9 DEF ItemType
  <2>3. y.inc[c].type \in {"s2sin", "s2sout"} => c[2] # 0 BY <1>5, <1>7, Opener DEF LiveIn
  <2>4. Good(Receive(y, Remote(c[1]), c, y.inc[c], close_in(y, c), x.n))
    BY <1>5, <1>15, <2>1, <2>2, <2>3, ReceiveGood
  <2> QED BY <1>4, <1>16, <2>4
<1>17. CASE x.t = "end" BY <1>4, <1>15, <1>17
<1> QED BY <1>9, <1>10, <1>11, <1>12, <1>13, <1>14, <1>16, <1>17

(* What an item in a stream being reset leaves. *)
Early(y, c, x) == [t |-> x.t, ext |-> y.out[c].ext, incoming |-> y.out[c].incoming]

(* It closes the session. *)
LEMMA NoStreamIs ==
  ASSUME NEW y, Good(y), NEW c \in Conn, y.out[c].reset, NEW x \in DownItem, NEW again \in BOOLEAN
  PROVE  LET w == close_out(y, c, again)
             z == no_stream(y, c, x, again) IN
         /\ Good(w) /\ Good(z) /\ Frame(w, z, {"early"}) /\ z.early = w.early \union {Early(y, c, x)}
         /\ y.out[c].ext = "succeeded"
<1> DEFINE w == close_out(y, c, again)
           e == Early(y, c, x)
           v == w.early \union {e}
           z == SetEarly(w, v)
<1>1. no_stream(y, c, x, again) = z BY DEF no_stream, SetEarly, Early
<1>2. Good(w) BY CloseOutGood
<1>3. y.out[c] \in OutSession BY At DEF Good
<1>4. y.out[c].ext = "succeeded" BY <1>3 DEF OutSession
<1>5. e \in EarlyItem BY <1>3 DEF Early, EarlyItem, OutFields, OutSession, DownItem
<1> HIDE DEF w, e
<1>6. w.early \subseteq EarlyItem BY <1>2, TypedFields DEF Good, Sound
<1>7. v \in SUBSET EarlyItem BY <1>5, <1>6
<1>8. Good(z) /\ Frame(w, z, {"early"}) /\ z.early = v BY <1>2, <1>7, SetFlags
<1> HIDE DEF z
<1> QED BY <1>1, <1>2, <1>4, <1>8 DEF w, e

LEMMA NoStreamGood ==
  ASSUME NEW y, Good(y), NEW c \in Conn, y.out[c].reset, NEW x \in DownItem, NEW again \in BOOLEAN
  PROVE  Good(no_stream(y, c, x, again))
BY NoStreamIs

(* the opener reads, *)
LEMMA RecvOutGood ==
  ASSUME Good(net), NEW c \in Conn, RecvOut(c)
  PROVE  Good(net')
<1> DEFINE x == Head(net.down[c])
           v == Tail(net.down[c])
           y == SetDown(net, c, v)
<1>1. net.down[c] # <<>> /\ Alive(net.out[c]) /\ c[2] > 0 BY Opener DEF RecvOut
<1>2. /\ Local(c, net.out[c], net.inc[c], net.up[c], net.down[c], Asked(net, c), net.got[c])
      /\ net.down[c] \in Seq(DownItem)
  BY At DEF Good
<1>3. /\ x \in DownItem /\ v \in Seq(DownItem)
      /\ Local(c, net.out[c], net.inc[c], net.up[c], v, Asked(net, c), net.got[c])
      /\ DownStep(x, net.out[c]) => NoStep(net.out[c], net.inc[c], net.up[c], v, Asked(net, c))
      /\ net.out[c].conn /\ (x.t = "success" => net.inc[c].ext = "succeeded")
  BY <1>1, <1>2, DownTail
<1>4. PICK again \in BOOLEAN :
        net' = IF y.out[c].reset /\ x.t \notin {"features", "end"} THEN no_stream(y, c, x, again)
               ELSE CASE x.t = "features" -> features(reopened(y, c), c, x.ok)
                    [] x.t = "success" -> success(y, c)
                    [] x.t = "failure" -> failure(y, c)
                    [] x.t = "dbresult" -> dialback_result(y, c, x, again)
                    [] x.t \in {"verified", "verify"} -> dialback_verified(y, c[1], x)
                    [] x.t = "msg" -> Receive(y, c[1], c, y.out[c], close_out(y, c, again), x.n)
                    [] x.t = "end" -> close_out(y, c, again)
  BY DEF RecvOut, SetDown
<1> HIDE DEF x, v
<1>5. Good(y) /\ Frame(net, y, {"down"}) /\ y.down[c] = v BY <1>3, PutDown
<1> HIDE DEF y
<1>6. y.out = net.out /\ y.inc = net.inc /\ y.up = net.up /\ y.req = net.req BY <1>5 DEF Frame, NetField
<1>7. Alive(y.out[c]) /\ y.out[c].conn BY <1>1, <1>3, <1>6
<1>8. DownStep(x, y.out[c]) => FreeAt(y, c) BY <1>3, <1>5, <1>6 DEF FreeAt, Asked
<1>9. /\ x \in ItemType
      /\ x.t \in {"features", "success", "failure", "dbresult", "verified", "verify", "msg", "end"}
  BY <1>3 DEF DownItem
<1>18. ASSUME y.out[c].reset, x.t \notin {"features", "end"} PROVE Good(net')
  <2>1. net' = no_stream(y, c, x, again) BY <1>4, <1>18
  <2> QED BY <1>3, <1>5, <1>18, <2>1, NoStreamGood
<1> SUFFICES ASSUME ~(y.out[c].reset /\ x.t \notin {"features", "end"}) PROVE Good(net') BY <1>18
<1>10. CASE x.t = "features"
  <2> DEFINE z == reopened(y, c)
  <2>1. y.out[c].ext # "succeeded" => FreeAt(y, c) BY <1>8, <1>10 DEF DownStep
  <2>2. x.ok \in BOOLEAN BY <1>9 DEF ItemType
  <2>4. /\ Good(z) /\ z.out[c].type = y.out[c].type /\ z.out[c].conn = y.out[c].conn
        /\ z.out[c].ext = y.out[c].ext /\ (FreeAt(y, c) => FreeAt(z, c))
    BY <1>5, <1>7, ReopenedGood
  <2> HIDE DEF z
  <2>5. Alive(z.out[c]) BY <1>7, <2>4 DEF Alive
  <2>3. Good(features(z, c, x.ok)) BY <1>1, <1>7, <2>1, <2>2, <2>4, <2>5, FeaturesGood
  <2> QED BY <1>4, <1>10, <2>3 DEF z
<1>11. CASE x.t = "success"
  <2>1. y.inc[c].ext = "succeeded" BY <1>3, <1>6, <1>11
  <2> QED BY <1>1, <1>4, <1>5, <1>7, <1>11, <2>1, SuccessGood
<1>12. CASE x.t = "failure"
  <2>1. FreeAt(y, c) BY <1>8, <1>12 DEF DownStep
  <2> QED BY <1>1, <1>4, <1>5, <1>7, <1>12, <2>1, FailureGood
<1>13. CASE x.t = "dbresult" BY <1>4, <1>5, <1>7, <1>13, ResultGood
<1>14. CASE x.t \in {"verified", "verify"}
  <2>1. c[1] \in Host BY Conns
  <2>2. Good(dialback_verified(y, c[1], x)) BY <1>3, <1>5, <1>14, <2>1, VerifiedGood
  <2> QED BY <1>4, <1>14, <2>2
<1>15. Good(close_out(y, c, again)) BY <1>5, CloseOutGood
<1>16. CASE x.t = "msg"
  <2>1. c[1] \in Host BY Conns
  <2>2. x.n \in Nat BY <1>9 DEF ItemType
  <2>3. y.out[c].type \in {"s2sin", "s2sout"} => c[2] # 0 BY <1>1, Opener
  <2>4. Good(Receive(y, c[1], c, y.out[c], close_out(y, c, again), x.n))
    BY <1>5, <1>15, <2>1, <2>2, <2>3, ReceiveGood
  <2> QED BY <1>4, <1>16, <2>4
<1>17. CASE x.t = "end" BY <1>4, <1>15, <1>17
<1> QED BY <1>9, <1>10, <1>11, <1>12, <1>13, <1>14, <1>16, <1>17

(* the connection is made, *)
LEMMA ConnectGood ==
  ASSUME Good(net), NEW c \in Conn, Connect(c)
  PROVE  Good(net')
<1> DEFINE o == net.out[c]
           v == [o EXCEPT !.conn = TRUE]
           u == <<Item("open", NoConn, TRUE)>>
           a == Asked(net, c)
           y1 == SetOut(net, c, v)
           y2 == SetIn(y1, c, NewIn)
           y3 == SetUp(y2, c, u)
<1>1. Alive(o) /\ c[2] > 0 /\ ~o.conn BY Opener DEF Connect
<1>2. o \in OutSession /\ net.inc[c] \in InSession /\ Local(c, o, net.inc[c], net.up[c], net.down[c], a, net.got[c])
  BY At DEF Good
<1>3. net' = y3
  BY TypedFields DEF Connect, SetOut, SetIn, SetUp, Good, Sound, Typed, IsNet, NetField
<1>4. /\ v \in OutSession /\ v.type = o.type /\ v.ext = o.ext /\ v.conn /\ v.sendq = o.sendq
      /\ Alive(v) = Alive(o)
  BY <1>2 DEF OutFields, OutSession, Alive
<1>5. /\ NewIn \in InSession /\ NewIn.type = "s2sin_unauthed" /\ NewIn.ext = "nil" /\ ~Accepted(NewIn)
      /\ ~Usable(net.inc[c])
  <2>1. net.inc[c].type = "none" BY <1>1, <1>2 DEF Local, Phase
  <2> QED BY <2>1 DEF NewIn, InSession, Accepted, Usable
<1>6. u \in Seq(UpItem(c)) /\ DOMAIN u = {1}
  <2> DEFINE S == UpItem(c)
             x == Item("open", NoConn, TRUE)
  <2>1. x \in S BY Items
  <2> HIDE DEF S, x
  <2>2. <<x>> \in Seq(S) /\ DOMAIN <<x>> = {1} BY <2>1
  <2> QED BY <2>2 DEF S, x, u
<1> HIDE DEF v, u, y3
<1>7. Local(c, v, net.inc[c], net.up[c], net.down[c], a, net.got[c])
  <2>1. \A x : UpStep(x, v) = UpStep(x, o) /\ DownStep(x, v) = DownStep(x, o)
    BY <1>4 DEF UpStep, DownStep
  <2>2. OneStep(o, net.inc[c], net.up[c], net.down[c], a) /\ Phase(o, net.inc[c], net.down[c], a)
    BY <1>1, <1>2 DEF Local
  <2>3. OneStep(v, net.inc[c], net.up[c], net.down[c], a) BY <2>1, <2>2 DEF OneStep
  <2>4. Phase(v, net.inc[c], net.down[c], a) BY <1>4, <2>2 DEF Phase
  <2>5. v.type # "none" BY <1>1, <1>4 DEF Alive
  <2> QED BY <1>1, <1>2, <1>4, <2>3, <2>4, <2>5 DEF Local
<1>8. Local(c, v, NewIn, net.up[c], net.down[c], a, net.got[c])
  <2>1. net.down[c] = <<>> /\ ~a /\ o.ext = "nil" BY <1>1, <1>2 DEF Local, Phase
  <2>2. Phase(v, NewIn, net.down[c], a) BY <1>4, <1>5, <2>1 DEF Phase, Accepted
  <2>3. OneStep(v, net.inc[c], net.up[c], net.down[c], a) BY <1>1, <1>7 DEF Local
  <2>4. OneStep(v, NewIn, net.up[c], net.down[c], a) BY <1>5, <2>1, <2>3 DEF OneStep
  <2> QED BY <1>1, <1>7, <2>2, <2>4 DEF Local
<1>9. Local(c, v, NewIn, u, net.down[c], a, net.got[c])
  <2>1. net.down[c] = <<>> /\ ~a BY <1>1, <1>2 DEF Local, Phase
  <2>2. DOMAIN net.down[c] = {} BY <2>1
  <2>3. OneStep(v, NewIn, u, net.down[c], a) BY <1>5, <1>6, <2>1, <2>2 DEF OneStep
  <2> QED BY <1>1, <1>6, <1>8, <2>3 DEF Local
<1>10. Good(y1) /\ Frame(net, y1, {"out"}) /\ y1.out[c] = v BY <1>4, <1>7, PutOut
<1> HIDE DEF y1, a
<1>11. /\ y1.inc = net.inc /\ y1.up = net.up /\ y1.down = net.down /\ y1.got = net.got /\ Asked(y1, c) = a
  BY <1>10 DEF Frame, NetField, Asked, a
<1>12. Good(y2) /\ Frame(y1, y2, {"inc"}) /\ y2.inc[c] = NewIn BY <1>5, <1>8, <1>10, <1>11, PutIn
<1> HIDE DEF y2
<1>13. /\ y2.out = y1.out /\ y2.down = y1.down /\ y2.got = y1.got /\ Asked(y2, c) = Asked(y1, c)
  BY <1>12 DEF Frame, NetField, Asked
<1>14. Good(y3) BY <1>9, <1>10, <1>11, <1>12, <1>13, PutUp DEF y3
<1> QED BY <1>3, <1>14

(* somebody else connects. *)
LEMMA ForgeGood ==
  ASSUME Good(net), NEW c \in Conn, Forge(c)
  PROVE  Good(net')
<1> DEFINE u == <<Item("open", NoConn, TRUE), Item("result", c, FALSE), Msg(0)>>
           y2 == SetIn(net, c, NewIn)
           y3 == SetUp(y2, c, u)
<1>1. c[2] = 0 /\ net.inc[c].type = "none" BY DEF Forge
<1>2. Local(c, net.out[c], net.inc[c], net.up[c], net.down[c], Asked(net, c), net.got[c]) BY At DEF Good
<1>3. net' = y3
  BY TypedFields DEF Forge, SetIn, SetUp, Good, Sound, Typed, IsNet, NetField
<1>4. NewIn \in InSession /\ NewIn.type = "s2sin_unauthed" /\ NewIn.ext = "nil" /\ ~Usable(net.inc[c])
  BY <1>1 DEF NewIn, InSession, Usable
<1>5. u \in Seq(UpItem(c))
  <2> DEFINE S == UpItem(c)
             x1 == Item("open", NoConn, TRUE)
             x2 == Item("result", c, FALSE)
             x3 == Msg(0)
  <2>1. x1 \in S /\ x3 \in S BY Items
  <2>2. x2 \in S BY DEF Item, UpItem, ItemType, Unforged
  <2> HIDE DEF S, x1, x2, x3
  <2>3. <<x1, x2, x3>> \in Seq(S) BY <2>1, <2>2
  <2> QED BY <2>3 DEF S, x1, x2, x3, u
<1> HIDE DEF u, y3
<1>6. Local(c, net.out[c], NewIn, net.up[c], net.down[c], Asked(net, c), net.got[c]) BY <1>1, <1>2, <1>4 DEF Local, Claim
<1>7. Local(c, net.out[c], NewIn, u, net.down[c], Asked(net, c), net.got[c]) BY <1>1, <1>5, <1>6 DEF Local
<1>8. Good(y2) /\ Frame(net, y2, {"inc"}) /\ y2.inc[c] = NewIn BY <1>4, <1>6, PutIn
<1> HIDE DEF y2
<1>9. /\ y2.out = net.out /\ y2.down = net.down /\ y2.got = net.got /\ Asked(y2, c) = Asked(net, c)
  BY <1>8 DEF Frame, NetField, Asked
<1>10. Good(y3) BY <1>7, <1>8, <1>9, PutUp DEF y3
<1> QED BY <1>3, <1>10

(* At the start nothing is connected, routed or sent. *)
LEMMA InitGood ==
  ASSUME S2sInit
  PROVE  Good(net)
<1> DEFINE o == [NewOut(Msg(0)) EXCEPT !.type = "none", !.sendq = <<>>]
           i == [NewIn EXCEPT !.type = "none"]
<1>1. /\ net.certs \subseteq External /\ net.tab = [h \in Host |-> NoConn]
      /\ net.out = [c \in Conn |-> o] /\ net.inc = [c \in Conn |-> i]
      /\ net.up = [c \in Conn |-> <<>>] /\ net.down = [c \in Conn |-> <<>>] /\ net.cut = {}
      /\ net.req = [h \in Host |-> {}] /\ net.routed = [h \in Host |-> 0]
      /\ net.sent = [h \in Host |-> {}] /\ net.bounced = [h \in Host |-> {}]
      /\ net.dropped = FALSE /\ net.early = {} /\ net.overflow = FALSE
      /\ net.got = [c \in Conn |-> [h \in Host |-> <<>>]]
  BY DEF S2sInit
<1>2. IsNet(net) BY DEF S2sInit, IsNet, NetField
<1>3. /\ o \in OutSession /\ o.type = "none" /\ o.conn = FALSE /\ o.ext = "nil" /\ o.sendq = <<>> /\ ~Alive(o)
      /\ i \in InSession /\ i.type = "none" /\ i.ext = "nil" /\ ~Accepted(i)
  <2> DEFINE o1 == NewOut(Msg(0))
             i1 == NewIn
  <2>1. o1.type = "s2sout_unauthed" /\ o1.conn = FALSE /\ o1.ext = "nil" BY DEF NewOut
  <2>2. i1.type = "s2sin_unauthed" /\ i1.ext = "nil" /\ i1 \in InSession BY DEF NewIn, InSession
  <2>3. o1 \in OutSession
    <3>1. Msg(0) \in QueueItem BY Items
    <3>2. <<Msg(0)>> \in Seq(QueueItem) BY <3>1
    <3> QED BY <3>2 DEF NewOut, OutFields, OutSession
  <2>4. <<>> \in Seq(QueueItem) OBVIOUS
  <2> HIDE DEF o1, i1
  <2>5. o = [o1 EXCEPT !.type = "none", !.sendq = <<>>] /\ i = [i1 EXCEPT !.type = "none"] BY DEF o1, i1
  <2> HIDE DEF o, i
  <2>6. o \in OutSession /\ o.type = "none" /\ o.conn = FALSE /\ o.ext = "nil" /\ o.sendq = <<>>
    BY <2>1, <2>3, <2>4, <2>5 DEF OutFields, OutSession
  <2>7. i \in InSession /\ i.type = "none" /\ i.ext = "nil" BY <2>2, <2>5 DEF InSession
  <2> QED BY <2>6, <2>7 DEF Accepted, Alive
<1> HIDE DEF o, i
<1>4. /\ net.certs \subseteq Host /\ net.tab \in [Host -> Conn \union {NoConn}]
      /\ net.out \in [Conn -> OutSession] /\ net.inc \in [Conn -> InSession]
      /\ net.up \in [Conn -> Seq(ItemType)] /\ net.down \in [Conn -> Seq(DownItem)]
      /\ net.cut \subseteq Conn /\ net.req \in [Host -> SUBSET Conn]
      /\ net.routed \in [Host -> Nat] /\ net.sent \in [Host -> SUBSET Nat]
      /\ net.bounced \in [Host -> SUBSET Nat]
      /\ net.dropped \in BOOLEAN /\ net.early \subseteq EarlyItem /\ net.overflow \in BOOLEAN
      /\ net.got \in [Conn -> [Host -> Seq(Nat)]]
  <2>1. net.certs \subseteq Host BY <1>1, S2sAssumption
  <2>2. net.tab \in [Host -> Conn \union {NoConn}] /\ net.req \in [Host -> SUBSET Conn] /\ net.cut \subseteq Conn BY <1>1
  <2>3. net.out \in [Conn -> OutSession] /\ net.inc \in [Conn -> InSession] BY <1>1, <1>3
  <2>4. /\ net.up \in [Conn -> Seq(ItemType)] /\ net.down \in [Conn -> Seq(DownItem)]
        /\ net.got \in [Conn -> [Host -> Seq(Nat)]]
    BY <1>1
  <2>5. net.routed \in [Host -> Nat] BY <1>1
  <2>6. net.sent \in [Host -> SUBSET Nat] /\ net.bounced \in [Host -> SUBSET Nat] BY <1>1
  <2>7. net.dropped \in BOOLEAN /\ net.early \subseteq EarlyItem /\ net.overflow \in BOOLEAN BY <1>1
  <2> QED BY <2>1, <2>2, <2>3, <2>4, <2>5, <2>6, <2>7
<1>5. Typed(net)
  <2>1. \A f \in NetField : net[f] \in FieldSet[f] BY <1>4 DEF FieldSet, NetField
  <2> QED BY <1>2, <2>1 DEF Typed
<1>6. ASSUME NEW c \in Conn PROVE LocalAt(net, c)
  <2>1. c[1] \in Host /\ Remote(c[1]) \in Host BY Conns, Hosts
  <2>2. Asked(net, c) = FALSE /\ c \notin net.req[c[1]] BY <1>1, <2>1 DEF Asked
  <2>3. net.out[c] = o /\ net.inc[c] = i /\ net.up[c] = <<>> /\ net.down[c] = <<>> /\ net.got[c] = [h \in Host |-> <<>>]
    BY <1>1
  <2>4. Len(<<>>) = 0 /\ 0 <= SendqSize /\ <<>> \in Seq(UpItem(c)) /\ DOMAIN <<>> = {} BY S2sAssumption
  <2>5. OneStep(o, i, <<>>, <<>>, FALSE) /\ Phase(o, i, <<>>, FALSE) BY <1>3, <2>4 DEF OneStep, Phase
  <2>6. Claim(o, i, net.got[c]) BY <1>3, <2>3 DEF Claim
  <2>7. Local(c, o, i, <<>>, <<>>, FALSE, net.got[c]) BY <1>3, <2>4, <2>5, <2>6 DEF Local
  <2> QED BY <2>2, <2>3, <2>7 DEF LocalAt
<1>7. Routes(net) BY <1>1, <1>3 DEF Routes
<1>8. ASSUME NEW h \in Host PROVE Books(net, h, {})
  <2>1. \A c \in Conn : Numbers(net.out[c].sendq) = {} BY <1>1, <1>3, NoNumbers
  <2>2. Queued(net, h) = {} BY <2>1 DEF Queued
  <2>3. net.sent[h] = {} /\ net.bounced[h] = {} /\ net.routed[h] = 0 BY <1>1
  <2>4. 1..0 = {} OBVIOUS
  <2> QED BY <2>2, <2>3, <2>4 DEF Books, Booked
<1> QED BY <1>5, <1>6, <1>7, <1>8 DEF Good, Sound, Locals

(* What is in a stream goes with the connection. *)
LEMMA ClearDownGood ==
  ASSUME NEW y, Good(y), NEW c \in Conn
  PROVE  Good([y EXCEPT !.down[c] = <<>>]) /\ Good([y EXCEPT !.up[c] = <<>>])
BY ClearGood DEF SetUp, SetDown

(* Every step keeps the invariant. *)
LEMMA NextGood ==
  ASSUME Good(net), S2sNext
  PROVE  Good(net')
<1>1. ASSUME NEW h \in Host, UserSends(h) PROVE Good(net') BY <1>1, SendGood DEF UserSends
<1> SUFFICES ASSUME NEW c \in Conn, NEW again \in BOOLEAN,
                    \/ RecvIn(c) \/ RecvOut(c) \/ Connect(c) \/ Forge(c)
                    \/ TimeoutIn(c) \/ Break(c) \/ DisconnectIn(c) \/ CloseIn(c) \/ CloseTimeout(c)
                    \/ ConnectFails(c, again) \/ TimeoutOut(c, again)
                    \/ DisconnectOut(c, again) \/ CloseOut(c, again)
             PROVE  Good(net')
  <2>1. TRUE \in BOOLEAN OBVIOUS
  <2> QED BY <1>1, <2>1 DEF S2sNext
<1>2. CASE RecvIn(c) BY <1>2, RecvInGood
<1>3. CASE RecvOut(c) BY <1>3, RecvOutGood
<1>4. CASE Connect(c) BY <1>4, ConnectGood
<1>5. CASE Forge(c) BY <1>5, ForgeGood
<1>6. CASE TimeoutIn(c)
  <2>1. LiveIn(net, c) /\ net' = close_in(net, c) BY <1>6 DEF TimeoutIn, Failure, LiveIn
  <2> QED BY <2>1, CloseInGood
<1>7. CASE Break(c)
  <2>1. net' = [net EXCEPT !.cut = @ \union {c}] BY <1>7 DEF Break, Failure
  <2> QED BY <2>1, CutGood
<1>8. CASE DisconnectIn(c)
  <2> DEFINE y == destroy_in(net, c)
  <2>1. net' = [y EXCEPT !.up[c] = <<>>] BY <1>8 DEF DisconnectIn
  <2>2. Good(y) BY DestroyInGood
  <2> HIDE DEF y
  <2> QED BY <2>1, <2>2, ClearDownGood
<1>9. CASE CloseIn(c)
  <2>1. LiveIn(net, c) /\ net' \in {close_in(net, c), close_in_clean(net, c)} BY <1>9 DEF CloseIn, Failure
  <2> QED BY <2>1, CloseInGood, CloseInCleanGood
<1>10. CASE CloseTimeout(c)
  <2>1. LiveIn(net, c) /\ net' = close_in(net, c) BY <1>10 DEF CloseTimeout
  <2> QED BY <2>1, CloseInGood
<1>11. CASE ConnectFails(c, again)
  <2>1. net' = destroy_out(net, c, again) BY <1>11 DEF ConnectFails, Failure
  <2> QED BY <2>1, DestroyOutGood
<1>12. CASE TimeoutOut(c, again)
  <2>1. net' = close_out(net, c, again) BY <1>12 DEF TimeoutOut, Failure
  <2> QED BY <2>1, CloseOutGood
<1>13. CASE DisconnectOut(c, again)
  <2> DEFINE y == destroy_out(net, c, again)
  <2>1. net' = [y EXCEPT !.down[c] = <<>>] BY <1>13 DEF DisconnectOut
  <2>2. Good(y) BY DestroyOutGood
  <2> HIDE DEF y
  <2> QED BY <2>1, <2>2, ClearDownGood
<1>14. CASE CloseOut(c, again)
  <2>1. net' = close_out(net, c, again) BY <1>14 DEF CloseOut, Failure
  <2> QED BY <2>1, CloseOutGood
<1> QED BY <1>2, <1>3, <1>4, <1>5, <1>6, <1>7, <1>8, <1>9, <1>10, <1>11, <1>12, <1>13, <1>14

(* The invariant holds in every state of two servers with any number of    *)
(* connections, stanzas and failures, any queue size and any certificates. *)
THEOREM AlwaysGood == S2sSpec => []Good(net)
<1>1. S2sInit => Good(net) BY InitGood
<1>2. Good(net) /\ [S2sNext]_s2sVars => Good(net)'
  <2>1. ASSUME Good(net), S2sNext PROVE Good(net)' BY <2>1, NextGood
  <2>2. ASSUME Good(net), UNCHANGED s2sVars PROVE Good(net)'
    <3>1. net' = net BY <2>2 DEF s2sVars
    <3> QED BY <2>2, <3>1
  <2> QED BY <2>1, <2>2
<1> QED BY <1>1, <1>2, PTL DEF S2sSpec

(* The invariant implies the types. *)
LEMMA GoodTypeOK == Good(net) => S2sTypeOK
<1> SUFFICES ASSUME Good(net) PROVE S2sTypeOK OBVIOUS
<1>1. net.tab \in [Host -> Conn \union {NoConn}] /\ net.cut \subseteq Conn /\ net.req \in [Host -> SUBSET Conn]
  BY TypedFields DEF Good, Sound
<1>2. ASSUME NEW c \in Conn
      PROVE  /\ net.out[c].type \in {"none", "s2sout_unauthed", "s2sout", "s2s_destroyed"}
             /\ net.inc[c].type \in {"none", "s2sin_unauthed", "s2sin", "s2s_destroyed"}
             /\ Len(net.out[c].sendq) <= SendqSize
             /\ \A i \in DOMAIN net.up[c] : net.up[c][i] \in ItemType
             /\ \A i \in DOMAIN net.down[c] : net.down[c][i] \in ItemType
  <2>1. /\ net.out[c] \in OutSession /\ net.inc[c] \in InSession /\ net.up[c] \in Seq(ItemType)
        /\ net.down[c] \in Seq(DownItem)
        /\ Local(c, net.out[c], net.inc[c], net.up[c], net.down[c], Asked(net, c), net.got[c])
    BY At DEF Good
  <2>2. Len(net.out[c].sendq) <= SendqSize BY <2>1 DEF Local
  <2>3. DownItem \subseteq ItemType BY DEF DownItem
  <2>4. \A i \in DOMAIN net.down[c] : net.down[c][i] \in ItemType BY <2>1, <2>3
  <2>5. \A i \in DOMAIN net.up[c] : net.up[c][i] \in ItemType BY <2>1
  <2> QED BY <2>1, <2>2, <2>4, <2>5 DEF OutFields, OutSession, InSession
<1> QED BY <1>1, <1>2 DEF S2sTypeOK

(* hosts[from].s2sout[to] names the one live outgoing session, or an       *)
(* accepted session that is authenticated, and never a dead one: routing a *)
(* stanza, destroying a session and making an accepted one the route never *)
(* disagree, whatever fails between them.                                  *)
THEOREM OneRouteHolds == S2sSpec => []OneRoute
<1>1. ASSUME Good(net) PROVE OneRoute
  <2>1. S2sTypeOK BY <1>1, GoodTypeOK
  <2>2. Routes(net) BY <1>1 DEF Good, Sound
  <2>3. \A c \in Conn : LiveOut(net, c) = Alive(net.out[c]) BY <1>1, Opener
  <2>4. ASSUME NEW h \in Host, net.tab[h] # NoConn
        PROVE  LET c == net.tab[h] IN
               IF c[1] = h THEN LiveOut(net, c) ELSE net.inc[c].type = "s2sin" /\ net.inc[c].authed
    <3>1. net.tab[h] \in Conn BY <1>1, <2>4, RouteIs DEF Good
    <3> QED BY <2>2, <2>3, <2>4, <3>1 DEF Routes, Usable
  <2> QED BY <2>1, <2>2, <2>3, <2>4 DEF OneRoute, Routes
<1> QED BY <1>1, AlwaysGood, PTL

(* No stanza for the other server is lost or answered twice: each is held  *)
(* by a live session, was written to a connection or was bounced, although *)
(* a session may be destroyed with a queue, the queue may be full, and the *)
(* handler of a bounce may send again.                                     *)
THEOREM SentOrBouncedHolds == S2sSpec => []SentOrBounced
<1>1. ASSUME Good(net) PROVE SentOrBounced
  <2> SUFFICES ASSUME NEW h \in Host
               PROVE  /\ net.sent[h] \intersect net.bounced[h] = {}
                      /\ \A n \in 1..net.routed[h] :
                           \/ n \in net.sent[h] \union net.bounced[h]
                           \/ \E c \in Conn : LiveOut(net, c) /\ c[1] = h /\ n \in Numbers(net.out[c].sendq)
    BY DEF SentOrBounced
  <2>1. Booked(net.sent[h], net.bounced[h], Queued(net, h), {}, net.routed[h]) BY <1>1 DEF Good, Books
  <2>2. ASSUME NEW n \in Queued(net, h)
        PROVE  \E c \in Conn : LiveOut(net, c) /\ c[1] = h /\ n \in Numbers(net.out[c].sendq)
    <3>1. PICK c \in Conn : c[1] = h /\ n \in Numbers(net.out[c].sendq) BY <2>2 DEF Queued
    <3>2. net.out[c].sendq # <<>> BY <3>1, NoNumbers
    <3>3. Alive(net.out[c]) BY <1>1, <3>2, At DEF Good, Local
    <3> QED BY <1>1, <3>1, <3>3, Opener
  <2>3. net.sent[h] \intersect net.bounced[h] = {} BY <2>1 DEF Booked
  <2>4. \A n \in 1..net.routed[h] : n \in net.sent[h] \union net.bounced[h] \/ n \in Queued(net, h)
    BY <2>1 DEF Booked
  <2> QED BY <2>2, <2>3, <2>4
<1> QED BY <1>1, AlwaysGood, PTL

(* Whoever connects in the name of a domain is not authenticated as that   *)
(* domain and no stanza is accepted from them, however the dialback of     *)
(* other connections goes on meanwhile.                                    *)
THEOREM OnlyVouchedHolds == S2sSpec => []OnlyVouched
<1>1. ASSUME Good(net) PROVE OnlyVouched
  <2> SUFFICES ASSUME NEW h \in Host
               PROVE  net.inc[<<h, 0>>].type # "s2sin" /\ net.got[<<h, 0>>] = [g \in Host |-> <<>>]
    BY DEF OnlyVouched
  <2> DEFINE c == <<h, 0>>
  <2>1. c \in Conn /\ c[2] = 0 BY S2sAssumption DEF Conn
  <2> HIDE DEF c
  <2>2. net.inc[c].type # "s2sin" /\ net.got[c] = [g \in Host |-> <<>>] BY <1>1, <2>1, At DEF Good, Local, Claim
  <2> QED BY <2>2 DEF c
<1> QED BY <1>1, AlwaysGood, PTL

-----------------------------------------------------------------------------
(* The order of stanzas.  An item that tells the opener it was let in. *)
Pass(x) == x.t = "success" \/ (x.t = "dbresult" /\ x.ok)
HasPass(s) == \E k \in DOMAIN s : Pass(s[k])
HasMsg(s) == \E k \in DOMAIN s : s[k].t = "msg"
HasBidi(s) == \E k \in DOMAIN s : s[k].t = "bidi"

(* The acceptor takes stanzas, or nothing any more. *)
Letting(i) == i.type = "s2s_destroyed" \/ (i.type = "s2sin" /\ i.authed)

(* The opener knows that it was let in, or is being told (p). *)
Told(o, p) == p \/ o.type \in {"s2sout", "s2s_destroyed"}

(* Neither end of a connection (cut or not, k) sends stanzas before the    *)
(* other is ready: the opener knows it was let in only if it was, and what *)
(* the acceptor writes comes behind the item that says so.                 *)
Ready(o, i, u, d, k, p) ==
  /\ ~o.conn => u = <<>> /\ o.type # "s2sout" /\ ~o.key /\ ~i.outgoing
  /\ o.type = "s2sout" \/ HasMsg(u) \/ HasPass(d) \/ p => Letting(i)
  /\ i.type = "s2sin" /\ ~k /\ ~i.closing => Told(o, p) \/ HasPass(d)
  /\ \A m \in DOMAIN d : d[m].t = "msg" => Told(o, p) \/ \E j \in DOMAIN d : j < m /\ Pass(d[j])
  /\ HasMsg(d) => i.type \in {"s2sin", "s2s_destroyed"}
  /\ i.outgoing \/ HasMsg(d) \/ HasBidi(u) => o.incoming
  /\ o.type = "s2sout" => o.authed = o.incoming

MsgInc(s) == \A i, j \in DOMAIN s : i < j /\ s[i].t = "msg" /\ s[j].t = "msg" => s[i].n < s[j].n

(* The stanzas taken (g), in the stream (u) and queued (q) are in order,   *)
(* and all of the r sent so far.                                           *)
Line(g, u, q, r) ==
  /\ Increasing(g) /\ MsgInc(u) /\ MsgInc(q)
  /\ \A k \in DOMAIN g : g[k] <= r /\ \A n \in Numbers(u) \union Numbers(q) : g[k] < n
  /\ \A m \in Numbers(u) : m <= r /\ \A n \in Numbers(q) : m < n
  /\ \A n \in Numbers(q) : n <= r

(* Both directions of connection c; the opener's queue is only overtaken   *)
(* after EXTERNAL.                                                         *)
InLine(c, o, u, d, g, r, s) ==
  /\ o.ext # "succeeded" => Line(g[Remote(c[1])], u, o.sendq, r) /\ (o.type = "s2sout" => o.sendq = <<>>)
  /\ Line(g[c[1]], d, <<>>, s)

(* The stanzas of a concatenation. *)
LEMMA NumbersCat ==
  ASSUME NEW u \in Seq(ItemType), NEW v \in Seq(ItemType)
  PROVE  /\ u \o v \in Seq(ItemType)
         /\ Numbers(u \o v) = Numbers(u) \union Numbers(v)
         /\ HasMsg(u \o v) <=> HasMsg(u) \/ HasMsg(v)
         /\ HasBidi(u \o v) <=> HasBidi(u) \/ HasBidi(v)
         /\ HasPass(u \o v) <=> HasPass(u) \/ HasPass(v)
<1> DEFINE w == u \o v
<1>1. w \in Seq(ItemType) OBVIOUS
<1>2. \A k \in DOMAIN w : \/ k \in DOMAIN u /\ w[k] = u[k]
                          \/ k - Len(u) \in DOMAIN v /\ w[k] = v[k - Len(u)]
  BY CatDomain
<1>3. /\ \A k \in DOMAIN u : k \in DOMAIN w /\ w[k] = u[k]
      /\ \A k \in DOMAIN v : k + Len(u) \in DOMAIN w /\ w[k + Len(u)] = v[k]
  OBVIOUS
<1> HIDE DEF w
<1>4. Numbers(w) = Numbers(u) \union Numbers(v)
  <2>1. \A n : n \in Numbers(w) => n \in Numbers(u) \/ n \in Numbers(v) BY <1>2 DEF Numbers
  <2>2. \A n : n \in Numbers(u) \/ n \in Numbers(v) => n \in Numbers(w) BY <1>3 DEF Numbers
  <2> QED BY <2>1, <2>2
<1>5. HasMsg(w) <=> HasMsg(u) \/ HasMsg(v) BY <1>2, <1>3 DEF HasMsg
<1>6. HasBidi(w) <=> HasBidi(u) \/ HasBidi(v) BY <1>2, <1>3 DEF HasBidi
<1>7. HasPass(w) <=> HasPass(u) \/ HasPass(v)
  <2> HIDE DEF Pass
  <2> QED BY <1>2, <1>3 DEF HasPass
<1> QED BY <1>1, <1>4, <1>5, <1>6, <1>7 DEF w

(* What is in the stanzas of a sequence. *)
LEMMA InNumbers ==
  ASSUME NEW u \in Seq(ItemType)
  PROVE  /\ Numbers(u) \subseteq Nat
         /\ \A k \in DOMAIN u : u[k].t = "msg" => u[k].n \in Numbers(u)
         /\ \A n \in Numbers(u) : \E k \in DOMAIN u : u[k].t = "msg" /\ u[k].n = n
         /\ ~HasMsg(u) => Numbers(u) = {}
<1>1. Numbers(u) \subseteq Nat BY NumbersOf
<1> QED BY <1>1 DEF Numbers, HasMsg

(* Stanzas in order behind stanzas in order, all later. *)
LEMMA IncCat ==
  ASSUME NEW u \in Seq(ItemType), NEW v \in Seq(ItemType), MsgInc(u), MsgInc(v),
         \A m \in Numbers(u), n \in Numbers(v) : m < n
  PROVE  MsgInc(u \o v)
<1> DEFINE w == u \o v
<1>1. \A k \in DOMAIN w : \/ k \in DOMAIN u /\ w[k] = u[k]
                          \/ k \notin DOMAIN u /\ k - Len(u) \in DOMAIN v /\ w[k] = v[k - Len(u)]
  BY CatDomain
<1>2. DOMAIN u = 1..Len(u) /\ Len(u) \in Nat /\ DOMAIN v \subseteq Nat /\ DOMAIN w \subseteq Int OBVIOUS
<1> HIDE DEF w
<1>3. ASSUME NEW i \in DOMAIN w, NEW j \in DOMAIN w, i < j, w[i].t = "msg", w[j].t = "msg"
      PROVE  w[i].n < w[j].n
  <2>1. CASE j \in DOMAIN u /\ w[j] = u[j]
    <3>1. i \in DOMAIN u BY <1>1, <1>2, <1>3, <2>1
    <3>2. w[i] = u[i] BY <1>1, <3>1
    <3> QED BY <1>3, <2>1, <3>1, <3>2 DEF MsgInc
  <2>2. CASE j \notin DOMAIN u /\ j - Len(u) \in DOMAIN v /\ w[j] = v[j - Len(u)]
    <3>1. CASE i \in DOMAIN u /\ w[i] = u[i]
      <4>1. w[i].n \in Numbers(u) /\ w[j].n \in Numbers(v) BY <1>3, <2>2, <3>1, InNumbers
      <4> QED BY <4>1
    <3>2. CASE i - Len(u) \in DOMAIN v /\ w[i] = v[i - Len(u)]
      <4>1. i - Len(u) < j - Len(u) BY <1>2, <1>3
      <4> QED BY <1>3, <2>2, <3>2, <4>1 DEF MsgInc
    <3> QED BY <1>1, <3>1, <3>2
  <2> QED BY <1>1, <2>1, <2>2
<1> QED BY <1>3 DEF MsgInc, w

(* The queue moves to the stream, *)
LEMMA LineMove ==
  ASSUME NEW g \in Seq(Nat), NEW u \in Seq(ItemType), NEW q \in Seq(ItemType), NEW r \in Nat, Line(g, u, q, r)
  PROVE  Line(g, u \o q, <<>>, r)
<1>1. Numbers(u \o q) = Numbers(u) \union Numbers(q) /\ Numbers(<<>>) = {} BY NumbersCat, NoNumbers
<1>2. MsgInc(u \o q) BY IncCat DEF Line
<1>3. MsgInc(<<>>) BY DEF MsgInc
<1> QED BY <1>1, <1>2, <1>3 DEF Line

(* a new item joins the queue, *)
LEMMA LineQueue ==
  ASSUME NEW g \in Seq(Nat), NEW u \in Seq(ItemType), NEW q \in Seq(ItemType), NEW r \in Nat, Line(g, u, q, r),
         NEW x \in ItemType, NEW r2 \in Nat, r <= r2, x.t = "msg" => r < x.n /\ x.n <= r2
  PROVE  Line(g, u, q \o <<x>>, r2)
<1> DEFINE v == <<x>>
<1>1. v \in Seq(ItemType) /\ DOMAIN v = {1} OBVIOUS
<1>2. Numbers(v) = IF x.t = "msg" THEN {x.n} ELSE {} BY OneNumber
<1>3. MsgInc(v) BY <1>1 DEF MsgInc
<1> HIDE DEF v
<1>4. Numbers(u) \subseteq Nat /\ Numbers(q) \subseteq Nat BY NumbersOf
<1>5. x.n \in Nat BY DEF ItemType
<1>6. \A m \in Numbers(q), n \in Numbers(v) : m < n BY <1>2, <1>4, <1>5 DEF Line
<1>7. MsgInc(q \o v) BY <1>1, <1>3, <1>6, IncCat DEF Line
<1>8. Numbers(q \o v) = Numbers(q) \union Numbers(v) BY <1>1, NumbersCat
<1>9. \A k \in DOMAIN g : g[k] \in Nat OBVIOUS
<1> DEFINE w == q \o v
<1> HIDE DEF w
<1>a. MsgInc(w) /\ Numbers(w) = Numbers(q) \union Numbers(v) BY <1>7, <1>8 DEF w
<1>b. Line(g, u, w, r2) BY <1>2, <1>4, <1>5, <1>9, <1>a DEF Line
<1> QED BY <1>b DEF w, v

(* items that are no stanzas are written, *)
LEMMA LineCalm ==
  ASSUME NEW g \in Seq(Nat), NEW u \in Seq(ItemType), NEW q \in Seq(ItemType), NEW r \in Nat, Line(g, u, q, r),
         NEW v \in Seq(ItemType), ~HasMsg(v)
  PROVE  Line(g, u \o v, q, r)
<1>1. Numbers(v) = {} BY InNumbers
<1>2. MsgInc(v) BY DEF MsgInc, HasMsg
<1>3. MsgInc(u \o v) BY <1>1, <1>2, IncCat DEF Line
<1>a. Numbers(u \o v) = Numbers(u) \union Numbers(v) BY NumbersCat
<1>4. Numbers(u \o v) = Numbers(u) BY <1>1, <1>a, Zenon
<1> QED BY <1>3, <1>4 DEF Line

(* the first item is read and, if it is a stanza, taken, *)
LEMMA LineTake ==
  ASSUME NEW g \in Seq(Nat), NEW u \in Seq(ItemType), NEW q \in Seq(ItemType), NEW r \in Nat, Line(g, u, q, r),
         u # <<>>
  PROVE  /\ Line(g, Tail(u), q, r)
         /\ Head(u).t = "msg" => Line(Append(g, Head(u).n), Tail(u), q, r)
<1> DEFINE t == Tail(u)
           x == Head(u)
<1>1. /\ t \in Seq(ItemType) /\ x \in ItemType /\ x = u[1] /\ 1 \in DOMAIN u
      /\ \A k \in DOMAIN t : k + 1 \in DOMAIN u /\ k + 1 # 1 /\ t[k] = u[k + 1] /\ k \in Int
  BY TailDomain
<1>0. \A k \in DOMAIN t : k + 1 > 1 OBVIOUS
<1> HIDE DEF t, x
<1>2. MsgInc(t)
  <2> SUFFICES ASSUME NEW i \in DOMAIN t, NEW j \in DOMAIN t, i < j, t[i].t = "msg", t[j].t = "msg"
               PROVE  t[i].n < t[j].n
    BY DEF MsgInc
  <2>1. i + 1 < j + 1 BY <1>1
  <2> QED BY <1>1, <2>1 DEF MsgInc, Line
<1>3. Numbers(t) \subseteq Numbers(u) BY <1>1 DEF Numbers
<1>4. Line(g, t, q, r) BY <1>2, <1>3 DEF Line
<1>5. ASSUME x.t = "msg" PROVE Line(Append(g, x.n), t, q, r)
  <2>1. x.n \in Numbers(u) BY <1>1, <1>5, InNumbers
  <2>2. \A m \in Numbers(t) : x.n < m
    <3> SUFFICES ASSUME NEW m \in Numbers(t) PROVE x.n < m OBVIOUS
    <3>1. PICK k \in DOMAIN t : t[k].t = "msg" /\ t[k].n = m BY <1>1, InNumbers
    <3>2. k + 1 \in DOMAIN u /\ 1 < k + 1 /\ t[k] = u[k + 1] BY <1>0, <1>1
    <3>3. MsgInc(u) BY DEF Line
    <3> QED BY <1>1, <1>5, <3>1, <3>2, <3>3 DEF MsgInc
  <2> DEFINE a == Append(g, x.n)
  <2>3. x.n \in Nat BY <1>1 DEF ItemType
  <2>4. /\ a \in Seq(Nat) /\ DOMAIN g = 1..Len(g) /\ Len(g) \in Nat /\ DOMAIN a = 1..(Len(g) + 1)
        /\ a[Len(g) + 1] = x.n /\ \A k \in DOMAIN g : a[k] = g[k]
    BY <2>3
  <2> HIDE DEF a
  <2>5. \A k \in DOMAIN a : k \in DOMAIN g \/ k = Len(g) + 1 BY <2>4
  <2>6. Increasing(a)
    <3> SUFFICES ASSUME NEW i \in DOMAIN a, NEW j \in DOMAIN a, i < j PROVE a[i] < a[j] BY DEF Increasing
    <3>1. i \in DOMAIN g BY <2>4
    <3>2. CASE j \in DOMAIN g BY <2>4, <3>1, <3>2 DEF Line, Increasing
    <3>3. CASE j = Len(g) + 1 BY <2>1, <2>4, <3>1, <3>3 DEF Line
    <3> QED BY <2>5, <3>2, <3>3
  <2>7. \A k \in DOMAIN a : a[k] <= r /\ \A n \in Numbers(t) \union Numbers(q) : a[k] < n
    BY <1>3, <2>1, <2>2, <2>4, <2>5 DEF Line
  <2> QED BY <1>4, <2>6, <2>7 DEF Line, a
<1> QED BY <1>4, <1>5 DEF t, x

(* items are lost, or more stanzas sent elsewhere. *)
LEMMA LineLess ==
  ASSUME NEW g \in Seq(Nat), NEW u \in Seq(ItemType), NEW q \in Seq(ItemType), NEW r \in Nat, Line(g, u, q, r)
  PROVE  /\ Line(g, <<>>, q, r) /\ Line(g, u, <<>>, r) /\ Line(g, <<>>, <<>>, r)
         /\ \A r2 \in Nat : r <= r2 => Line(g, u, q, r2)
<1>1. MsgInc(<<>>) /\ Numbers(<<>>) = {} BY NoNumbers DEF MsgInc
<1>2. Numbers(u) \subseteq Nat /\ Numbers(q) \subseteq Nat /\ \A k \in DOMAIN g : g[k] \in Nat BY NumbersOf
<1> QED BY <1>1, <1>2 DEF Line

(* Writing to the acceptor, *)
LEMMA ReadyUp ==
  ASSUME NEW o, NEW i, NEW u \in Seq(ItemType), NEW d, NEW k, NEW p, Ready(o, i, u, d, k, p),
         NEW v \in Seq(ItemType), o.conn, HasMsg(v) => Letting(i), HasBidi(v) => o.incoming
  PROVE  Ready(o, i, u \o v, d, k, p)
BY NumbersCat DEF Ready

(* writing to the opener what is no stanza, *)
LEMMA ReadyDown ==
  ASSUME NEW o, NEW i, NEW u, NEW d \in Seq(ItemType), NEW k, NEW p, Ready(o, i, u, d, k, p),
         NEW v \in Seq(ItemType), ~HasMsg(v), HasPass(v) => Letting(i)
  PROVE  Ready(o, i, u, d \o v, k, p)
<1>1. /\ HasMsg(d \o v) <=> HasMsg(d)
      /\ HasPass(d \o v) <=> HasPass(d) \/ HasPass(v)
  BY NumbersCat
<1>2. ASSUME NEW m \in DOMAIN (d \o v), (d \o v)[m].t = "msg", ~Told(o, p)
      PROVE  \E j \in DOMAIN (d \o v) : j < m /\ Pass((d \o v)[j])
  <2>1. m \in DOMAIN d /\ (d \o v)[m] = d[m] BY <1>2, CatDomain DEF HasMsg
  <2>2. PICK j \in DOMAIN d : j < m /\ Pass(d[j]) BY <1>2, <2>1 DEF Ready
  <2>3. j \in DOMAIN (d \o v) /\ (d \o v)[j] = d[j] OBVIOUS
  <2> QED BY <2>2, <2>3
<1> DEFINE w == d \o v
<1> HIDE DEF w
<1>3. Ready(o, i, u, w, k, p) BY <1>1, <1>2 DEF Ready, w
<1> QED BY <1>3 DEF w

(* and a stanza, when the route is the accepted session. *)
LEMMA ReadyDownMsg ==
  ASSUME NEW o, NEW i, NEW u, NEW d \in Seq(ItemType), NEW k, NEW p, Ready(o, i, u, d, k, p),
         NEW x \in ItemType, x.t = "msg", i.type = "s2sin", i.outgoing, ~k, ~i.closing
  PROVE  Ready(o, i, u, d \o <<x>>, k, p)
<1> DEFINE v == <<x>>
<1>0. v \in Seq(ItemType) /\ DOMAIN v = {1} /\ v[1] = x OBVIOUS
<1>a. HasMsg(v) /\ ~HasPass(v) BY <1>0 DEF HasMsg, HasPass, Pass
<1>1. /\ HasMsg(d \o v)
      /\ HasPass(d \o v) <=> HasPass(d)
  BY <1>0, <1>a, NumbersCat
<1> DEFINE w == d \o v
<1>2. /\ \A j \in DOMAIN d : j \in DOMAIN w /\ w[j] = d[j] /\ j < Len(d) + 1
      /\ \A m \in DOMAIN w : m \in DOMAIN d \/ m = Len(d) + 1
  BY <1>0
<1> HIDE DEF w, v
<1>3. Told(o, p) \/ HasPass(d) BY DEF Ready
<1>4. ASSUME NEW m \in DOMAIN w, w[m].t = "msg", ~Told(o, p)
      PROVE  \E j \in DOMAIN w : j < m /\ Pass(w[j])
  <2>1. CASE m \in DOMAIN d
    <3>1. PICK j \in DOMAIN d : j < m /\ Pass(d[j]) BY <1>2, <1>4, <2>1 DEF Ready
    <3> QED BY <1>2, <3>1
  <2>2. CASE m = Len(d) + 1
    <3>1. PICK j \in DOMAIN d : Pass(d[j]) BY <1>3, <1>4 DEF HasPass
    <3> QED BY <1>2, <2>2, <3>1
  <2> QED BY <1>2, <2>1, <2>2
<1>5. Ready(o, i, u, w, k, p) BY <1>1, <1>4 DEF Ready, w
<1> QED BY <1>5 DEF w, v

(* The acceptor reads, *)
LEMMA ReadyUpTail ==
  ASSUME NEW o, NEW i, NEW u \in Seq(ItemType), NEW d, NEW k, NEW p, Ready(o, i, u, d, k, p), u # <<>>
  PROVE  /\ Ready(o, i, Tail(u), d, k, p)
         /\ Head(u).t = "msg" => Letting(i)
         /\ Head(u).t = "bidi" => o.incoming
<1> DEFINE t == Tail(u)
           x == Head(u)
<1>1. /\ x = u[1] /\ 1 \in DOMAIN u
      /\ \A m \in DOMAIN t : m + 1 \in DOMAIN u /\ t[m] = u[m + 1]
  BY TailDomain
<1> HIDE DEF t, x
<1>2. (HasMsg(t) => HasMsg(u)) /\ (HasBidi(t) => HasBidi(u)) BY <1>1 DEF HasMsg, HasBidi
<1>3. (x.t = "msg" => HasMsg(u)) /\ (x.t = "bidi" => HasBidi(u)) BY <1>1 DEF HasMsg, HasBidi
<1>4. o.conn BY DEF Ready
<1>5. Ready(o, i, t, d, k, p) BY <1>2, <1>4 DEF Ready
<1> QED BY <1>3, <1>5 DEF Ready, t, x

(* the opener reads, *)
LEMMA ReadyDownTail ==
  ASSUME NEW o, NEW i, NEW u, NEW d \in Seq(ItemType), NEW k, Ready(o, i, u, d, k, FALSE), d # <<>>
  PROVE  /\ Ready(o, i, u, Tail(d), k, Pass(Head(d)))
         /\ Head(d).t = "msg" => o.type \in {"s2sout", "s2s_destroyed"} /\ o.incoming
<1> DEFINE t == Tail(d)
           x == Head(d)
           p == Pass(x)
<1>1. /\ x = d[1] /\ 1 \in DOMAIN d /\ DOMAIN d \subseteq Nat
      /\ \A m \in DOMAIN t : m + 1 \in DOMAIN d /\ t[m] = d[m + 1] /\ m \in Int
      /\ \A m \in DOMAIN d : m = 1 \/ (m - 1 \in DOMAIN t /\ t[m - 1] = d[m])
      /\ \A m \in DOMAIN d : m >= 1
  OBVIOUS
<1> HIDE DEF t, x
<1>2. HasMsg(t) => HasMsg(d) BY <1>1 DEF HasMsg
<1>3. HasPass(d) <=> p \/ HasPass(t)
  <2> HIDE DEF Pass
  <2> QED BY <1>1 DEF HasPass
<1>4. x.t = "msg" => HasMsg(d) BY <1>1 DEF HasMsg
<1>5. ASSUME x.t = "msg" PROVE o.type \in {"s2sout", "s2s_destroyed"}
  BY <1>1, <1>5 DEF Ready, Told
<1>6. ASSUME NEW m \in DOMAIN t, t[m].t = "msg", ~Told(o, p) PROVE \E j \in DOMAIN t : j < m /\ Pass(t[j])
  <2>1. m + 1 \in DOMAIN d /\ d[m + 1].t = "msg" BY <1>1, <1>6
  <2>2. PICK j \in DOMAIN d : j < m + 1 /\ Pass(d[j]) BY <1>6, <2>1 DEF Ready, Told
  <2>3. j # 1
    <3> HIDE DEF p
    <3>1. ~p BY ONLY <1>6 DEF Told
    <3>2. d[1] = x BY ONLY <1>1
    <3> QED BY ONLY <2>2, <3>1, <3>2 DEF p
  <2>4. j - 1 \in DOMAIN t /\ t[j - 1] = d[j] /\ j - 1 < m
    <3>1. j \in DOMAIN d /\ j < m + 1 BY ONLY <2>2
    <3>2. j \in Int /\ m \in Int BY ONLY m \in DOMAIN t, <1>1, <3>1
    <3> QED BY ONLY <1>1, <2>3, <3>1, <3>2
  <2> QED BY <2>2, <2>4
<1> HIDE DEF p
<1>7. Ready(o, i, u, t, k, p) BY <1>2, <1>3, <1>6 DEF Ready, Told
<1> QED BY <1>4, <1>5, <1>7 DEF Ready, t, x, p

(* and what is in a stream goes with the connection. *)
LEMMA ReadyLess ==
  ASSUME NEW o, NEW i, NEW u, NEW d, NEW k, NEW p \in BOOLEAN, Ready(o, i, u, d, k, p)
  PROVE  /\ Ready(o, i, <<>>, d, k, p)
         /\ Ready(o, i, u, <<>>, TRUE, p)
         /\ Ready(o, i, u, d, TRUE, p)
         /\ o.type \in {"s2sout", "s2s_destroyed"} => Ready(o, i, u, d, k, FALSE)
<1>1. ~HasMsg(<<>>) /\ ~HasBidi(<<>>) /\ ~HasPass(<<>>) /\ DOMAIN <<>> = {} BY DEF HasMsg, HasBidi, HasPass
<1> QED BY <1>1 DEF Ready, Told
-----------------------------------------------------------------------------
(* The order on connection c in state y, when each host has sent the       *)
(* stanzas up to L.                                                        *)
OrdAt(y, c, L, p) ==
  /\ Ready(y.out[c], y.inc[c], y.up[c], y.down[c], c \in y.cut, p)
  /\ InLine(c, y.out[c], y.up[c], y.down[c], y.got[c], L[c[1]], L[Remote(c[1])])

(* The order on all; the opener of e is being told that it was let in. *)
Ord(y, L, e) ==
  /\ ~y.dropped /\ \A x \in y.early : x.ext = "succeeded" /\ (x.t = "msg" => x.incoming)
  /\ \A c \in Conn : c[2] > 0 => OrdAt(y, c, L, c = e)

(* z differs from y at connection c only. *)
Only(y, z, c) ==
  /\ z.dropped = y.dropped /\ z.early = y.early /\ z.routed = y.routed
  /\ \A d \in Conn : d # c =>
       /\ z.out[d] = y.out[d] /\ z.inc[d] = y.inc[d] /\ z.up[d] = y.up[d] /\ z.down[d] = y.down[d]
       /\ z.got[d] = y.got[d] /\ (d \in z.cut <=> d \in y.cut)

(* Then the others keep their order. *)
LEMMA OrdOnly ==
  ASSUME NEW y, NEW L, NEW c \in Conn, NEW e \in {c, NoConn}, Ord(y, L, e), NEW z, Only(y, z, c),
         NEW f \in {c, NoConn}, c[2] > 0 => OrdAt(z, c, L, c = f)
  PROVE  Ord(z, L, f)
<1>1. ~z.dropped /\ \A x \in z.early : x.ext = "succeeded" /\ (x.t = "msg" => x.incoming) BY DEF Ord, Only
<1>2. ASSUME NEW d \in Conn, d[2] > 0, d # c PROVE OrdAt(z, d, L, d = f)
  <2>1. (d = e) = FALSE /\ (d = f) = FALSE BY <1>2, Conns
  <2>2. OrdAt(y, d, L, FALSE) BY <1>2, <2>1 DEF Ord
  <2>3. (d \in z.cut) = (d \in y.cut) BY <1>2 DEF Only
  <2>4. OrdAt(z, d, L, FALSE) BY <1>2, <2>2, <2>3 DEF Only, OrdAt
  <2> QED BY <2>1, <2>4
<1> QED BY <1>1, <1>2 DEF Ord

(* Two such steps make one. *)
LEMMA OnlyTwice ==
  ASSUME NEW y, NEW w, NEW z, NEW c, Only(y, w, c), Only(w, z, c)
  PROVE  Only(y, z, c)
BY DEF Only

(* What each kind of change leaves. *)
LEMMA FrameOnly ==
  ASSUME NEW y, NEW z, NEW c \in Conn,
         \/ Frame(y, z, {"up"}) /\ \A d \in Conn : d # c => z.up[d] = y.up[d]
         \/ Frame(y, z, {"down"}) /\ \A d \in Conn : d # c => z.down[d] = y.down[d]
         \/ Frame(y, z, {"out", "tab"}) /\ \A d \in Conn : d # c => z.out[d] = y.out[d]
         \/ Frame(y, z, {"inc", "tab"}) /\ \A d \in Conn : d # c => z.inc[d] = y.inc[d]
         \/ Frame(y, z, {"cut"}) /\ z.cut = y.cut \union {c}
         \/ Frame(y, z, {"req", "sent", "bounced", "overflow", "tab"})
  PROVE  Only(y, z, c)
BY DEF Frame, NetField, Only

(* Writing to the acceptor, *)
LEMMA UpIs ==
  ASSUME NEW y, Typed(y), NEW c \in Conn, NEW v \in Seq(ItemType)
  PROVE  LET z == Up(y, c, v) IN
         /\ Only(y, z, c) /\ Frame(y, z, {"up"})
         /\ z.up[c] = IF c \in y.cut THEN y.up[c] ELSE y.up[c] \o v
<1> DEFINE u == y.up[c] \o v
           w == SetUp(y, c, u)
<1>1. Up(y, c, v) = IF c \in y.cut THEN y ELSE w BY DEF Up, SetUp
<1>2. y.up \in [Conn -> Seq(ItemType)] BY TypedFields
<1>3. u \in Seq(ItemType) BY <1>2
<1> HIDE DEF u
<1>4. Frame(y, w, {"up"}) /\ w.up = [y.up EXCEPT ![c] = u] BY <1>3, SetUpFields
<1> HIDE DEF w
<1>5. w.up[c] = u /\ \A d \in Conn : d # c => w.up[d] = y.up[d] BY <1>2, <1>4
<1>6. Only(y, w, c) BY <1>4, <1>5, FrameOnly
<1>7. Only(y, y, c) /\ Frame(y, y, {"up"}) BY DEF Only, Frame
<1> QED BY <1>1, <1>4, <1>5, <1>6, <1>7 DEF u

(* and to the opener. *)
LEMMA DownIs ==
  ASSUME NEW y, Typed(y), NEW c \in Conn, NEW v \in Seq(DownItem)
  PROVE  LET z == Down(y, c, v) IN
         /\ Only(y, z, c) /\ Frame(y, z, {"down"})
         /\ z.down[c] = IF c \in y.cut \/ y.inc[c].closing THEN y.down[c] ELSE y.down[c] \o v
<1> DEFINE u == y.down[c] \o v
           w == SetDown(y, c, u)
<1>1. Down(y, c, v) = IF c \in y.cut \/ y.inc[c].closing THEN y ELSE w BY DEF Down, SetDown
<1>2. y.down \in [Conn -> Seq(DownItem)] BY TypedFields
<1>3. u \in Seq(DownItem) BY <1>2
<1> HIDE DEF u
<1>4. Frame(y, w, {"down"}) /\ w.down = [y.down EXCEPT ![c] = u] BY <1>3, SetDownFields
<1> HIDE DEF w
<1>5. w.down[c] = u /\ \A d \in Conn : d # c => w.down[d] = y.down[d] BY <1>2, <1>4
<1>6. Only(y, w, c) BY <1>4, <1>5, FrameOnly
<1>7. Only(y, y, c) /\ Frame(y, y, {"down"}) BY DEF Only, Frame
<1> QED BY <1>1, <1>4, <1>5, <1>6, <1>7 DEF u

(* A session at either end replaced. *)
LEMMA OutIs ==
  ASSUME NEW y, Typed(y), NEW c \in Conn, NEW v \in OutSession
  PROVE  LET z == SetOut(y, c, v) IN Only(y, z, c) /\ Frame(y, z, {"out"}) /\ z.out[c] = v /\ Typed(z)
<1> DEFINE z == SetOut(y, c, v)
<1>1. Typed(z) /\ Frame(y, z, {"out"}) /\ z.out = [y.out EXCEPT ![c] = v] BY SetOutFields
<1> HIDE DEF z
<1>2. y.out \in [Conn -> OutSession] BY TypedFields
<1>3. z.out[c] = v /\ \A d \in Conn : d # c => z.out[d] = y.out[d] BY <1>1, <1>2
<1>4. Frame(y, z, {"out", "tab"}) BY <1>1 DEF Frame
<1> QED BY <1>1, <1>3, <1>4, FrameOnly DEF z

(* The acceptor's. *)
LEMMA InIs ==
  ASSUME NEW y, Typed(y), NEW c \in Conn, NEW v \in InSession
  PROVE  LET z == SetIn(y, c, v) IN Only(y, z, c) /\ Frame(y, z, {"inc"}) /\ z.inc[c] = v /\ Typed(z)
<1> DEFINE z == SetIn(y, c, v)
<1>1. Typed(z) /\ Frame(y, z, {"inc"}) /\ z.inc = [y.inc EXCEPT ![c] = v] BY SetInFields
<1> HIDE DEF z
<1>2. y.inc \in [Conn -> InSession] BY TypedFields
<1>3. z.inc[c] = v /\ \A d \in Conn : d # c => z.inc[d] = y.inc[d] BY <1>1, <1>2
<1>4. Frame(y, z, {"inc", "tab"}) BY <1>1 DEF Frame
<1> QED BY <1>1, <1>3, <1>4, FrameOnly DEF z

(* The types of what the order is about. *)
LEMMA OrdTypes ==
  ASSUME NEW y, Typed(y), NEW c \in Conn
  PROVE  /\ y.up[c] \in Seq(ItemType) /\ y.down[c] \in Seq(DownItem) /\ y.down[c] \in Seq(ItemType)
         /\ y.out[c] \in OutSession /\ y.inc[c] \in InSession
         /\ y.out[c].sendq \in Seq(ItemType) /\ y.out[c].sendq \in Seq(QueueItem)
         /\ y.got[c] \in [Host -> Seq(Nat)] /\ y.got[c][c[1]] \in Seq(Nat) /\ y.got[c][Remote(c[1])] \in Seq(Nat)
         /\ c[1] \in Host /\ Remote(c[1]) \in Host /\ c[1] # Remote(c[1])
         /\ y.routed \in [Host -> Nat]
<1>1. c[1] \in Host /\ Remote(c[1]) \in Host /\ c[1] # Remote(c[1]) BY Conns, Hosts
<1>2. /\ y.up[c] \in Seq(ItemType) /\ y.down[c] \in Seq(DownItem) /\ y.got[c] \in [Host -> Seq(Nat)]
      /\ y.out[c] \in OutSession /\ y.inc[c] \in InSession /\ y.routed \in [Host -> Nat]
  BY TypedFields
<1>3. DownItem \subseteq ItemType /\ QueueItem \subseteq ItemType BY DEF DownItem, QueueItem
<1>4. y.down[c] \in Seq(ItemType) BY <1>2, <1>3
<1>5. y.out[c].sendq \in Seq(QueueItem) BY <1>2 DEF OutFields, OutSession
<1>6. y.out[c].sendq \in Seq(ItemType) BY <1>3, <1>5
<1> QED BY <1>1, <1>2, <1>4, <1>5, <1>6

-----------------------------------------------------------------------------
(* A single item. *)
LEMMA OneItem ==
  ASSUME NEW x \in ItemType
  PROVE  /\ <<x>> \in Seq(ItemType) /\ <<>> \o <<x>> = <<x>>
         /\ HasMsg(<<x>>) <=> x.t = "msg"
         /\ HasBidi(<<x>>) <=> x.t = "bidi"
         /\ HasPass(<<x>>) <=> Pass(x)
<1>1. <<x>> \in Seq(ItemType) /\ <<>> \o <<x>> = <<x>> /\ DOMAIN <<x>> = {1} /\ <<x>>[1] = x OBVIOUS
<1> QED BY <1>1 DEF HasMsg, HasBidi, HasPass

(* The two hosts send stanzas up to L2, not less than L. *)
Later(L, L2) == L \in [Host -> Nat] /\ L2 \in [Host -> Nat] /\ \A h \in Host : L[h] <= L2[h]

(* More may be sent elsewhere. *)
LEMMA OrdMore ==
  ASSUME NEW y, Typed(y), NEW L, NEW L2, Later(L, L2), NEW e, Ord(y, L, e)
  PROVE  Ord(y, L2, e)
<1> SUFFICES ASSUME NEW c \in Conn, c[2] > 0 PROVE OrdAt(y, c, L2, c = e) BY DEF Ord
<1>1. OrdAt(y, c, L, c = e) BY DEF Ord
<1>2. <<>> \in Seq(ItemType) OBVIOUS
<1>3. /\ L[c[1]] \in Nat /\ L2[c[1]] \in Nat /\ L[c[1]] <= L2[c[1]]
      /\ L[Remote(c[1])] \in Nat /\ L2[Remote(c[1])] \in Nat /\ L[Remote(c[1])] <= L2[Remote(c[1])]
  BY OrdTypes DEF Later
<1>4. /\ Line(y.got[c][c[1]], y.down[c], <<>>, L[Remote(c[1])]) => Line(y.got[c][c[1]], y.down[c], <<>>, L2[Remote(c[1])])
      /\ Line(y.got[c][Remote(c[1])], y.up[c], y.out[c].sendq, L[c[1]])
           => Line(y.got[c][Remote(c[1])], y.up[c], y.out[c].sendq, L2[c[1]])
  BY <1>2, <1>3, OrdTypes, LineLess
<1> QED BY <1>1, <1>4 DEF OrdAt, InLine

(* A stanza, later than all, or another item, to be sent by h. *)
Fresh(x, h, L, L2) == x.t = "msg" => L[h] < x.n /\ x.n <= L2[h]

(* The item waits. *)
LEMMA EnqueueOrd ==
  ASSUME NEW y, Sound(y), NEW c \in Conn, y.out[c].type = "s2sout_unauthed", NEW x \in QueueItem,
         NEW L, NEW L2, Later(L, L2), Ord(y, L, NoConn), Fresh(x, c[1], L, L2)
  PROVE  Ord(Enqueue(y, c, x), L2, NoConn) /\ Enqueue(y, c, x).routed = y.routed
<1> DEFINE o == y.out[c]
           q == Append(o.sendq, x)
           v == [o EXCEPT !.sendq = q]
           z == SetOut(y, c, v)
<1>1. Enqueue(y, c, x) = z BY DEF SetOut, Enqueue
<1>0. Typed(y) BY DEF Sound
<1>2. x \in ItemType BY Items
<1>3. q \in Seq(QueueItem) /\ q = o.sendq \o <<x>>
  <2> DEFINE s == o.sendq
             S == QueueItem
  <2>1. s \in Seq(S) /\ x \in S BY <1>0, OrdTypes
  <2> HIDE DEF s, S
  <2>2. Append(s, x) \in Seq(S) /\ Append(s, x) = s \o <<x>> BY <2>1
  <2> QED BY <2>2 DEF s, S
<1>4. o \in OutSession BY <1>0, OrdTypes
<1> HIDE DEF q
<1>5. /\ v \in OutSession /\ v.type = o.type /\ v.ext = o.ext /\ v.conn = o.conn /\ v.sendq = q
      /\ v.key = o.key /\ v.incoming = o.incoming /\ v.authed = o.authed
  BY <1>3, <1>4 DEF OutFields, OutSession
<1> HIDE DEF v
<1>6. Only(y, z, c) /\ Frame(y, z, {"out"}) /\ z.out[c] = v BY <1>0, <1>5, OutIs
<1> HIDE DEF z
<1>7. z.inc = y.inc /\ z.up = y.up /\ z.down = y.down /\ z.cut = y.cut /\ z.got = y.got BY <1>6 DEF Frame, NetField
<1>8. Ord(y, L2, NoConn) BY <1>0, OrdMore
<1>9. ASSUME c[2] > 0 PROVE OrdAt(z, c, L2, c = NoConn)
  <2>1. OrdAt(y, c, L, c = NoConn) /\ OrdAt(y, c, L2, c = NoConn) BY <1>8, <1>9 DEF Ord
  <2>2. Ready(v, y.inc[c], y.up[c], y.down[c], c \in y.cut, c = NoConn) BY <1>5, <2>1 DEF OrdAt, Ready, Told
  <2>3. L[c[1]] \in Nat /\ L2[c[1]] \in Nat /\ L[c[1]] <= L2[c[1]] BY <1>0, OrdTypes DEF Later
  <2>4. ASSUME o.ext # "succeeded" PROVE Line(y.got[c][Remote(c[1])], y.up[c], q, L2[c[1]])
    BY <1>0, <1>2, <1>3, <2>1, <2>3, <2>4, OrdTypes, LineQueue DEF OrdAt, InLine, Fresh
  <2> QED BY <1>5, <1>6, <1>7, <2>1, <2>2, <2>4 DEF OrdAt, InLine
<1>10. Ord(z, L2, NoConn) BY <1>6, <1>8, <1>9, OrdOnly
<1> QED BY <1>1, <1>6, <1>10 DEF Only

(* It is written on the own session, *)
LEMMA WriteUpOrd ==
  ASSUME NEW y, Sound(y), NEW c \in Conn, NEW x \in QueueItem, NEW L, NEW L2, Later(L, L2),
         Ord(y, L, NoConn), Fresh(x, c[1], L, L2),
         y.out[c].type = "s2sout" \/ (x.t = "verify" /\ y.out[c].key), NEW h \in Host, h = c[1]
  PROVE  Ord(Write(y, h, c, <<x>>), L2, NoConn) /\ Write(y, h, c, <<x>>).routed = y.routed
<1> DEFINE w == Wrote(y, h, <<x>>)
           z == Up(w, c, <<x>>)
           o == y.out[c]
<1>0. Typed(y) BY DEF Sound
<1>1. x \in ItemType /\ x.t \in {"msg", "verify"} BY Items DEF QueueItem
<1>2. <<x>> \in Seq(ItemType) /\ (HasMsg(<<x>>) <=> x.t = "msg") /\ ~HasBidi(<<x>>) BY <1>1, OneItem
<1>3. Write(y, h, c, <<x>>) = z BY DEF Write, Wrote
<1>4. Sound(w) /\ Frame(y, w, {"sent"}) BY <1>2, SentFields
<1> HIDE DEF w
<1>5. Typed(w) BY <1>4 DEF Sound
<1>6. /\ Only(w, z, c) /\ Frame(w, z, {"up"})
      /\ z.up[c] = IF c \in w.cut THEN w.up[c] ELSE w.up[c] \o <<x>>
  BY <1>2, <1>5, UpIs
<1> HIDE DEF z
<1>7. Only(y, z, c)
  <2>1. Frame(y, w, {"req", "sent", "bounced", "overflow", "tab"}) BY <1>4 DEF Frame
  <2>2. Only(y, w, c) BY <2>1, FrameOnly
  <2> QED BY <1>6, <2>2, OnlyTwice
<1>8. /\ z.out = y.out /\ z.inc = y.inc /\ z.down = y.down /\ z.cut = y.cut /\ z.got = y.got
      /\ z.up[c] = IF c \in y.cut THEN y.up[c] ELSE y.up[c] \o <<x>>
  BY <1>4, <1>6 DEF Frame, NetField
<1>9. Ord(y, L2, NoConn) BY <1>0, OrdMore
<1>10. ASSUME c[2] > 0, c \notin y.cut PROVE OrdAt(z, c, L2, c = NoConn)
  <2> DEFINE u == y.up[c] \o <<x>>
             g == y.got[c][Remote(c[1])]
  <2>1. OrdAt(y, c, L, c = NoConn) /\ OrdAt(y, c, L2, c = NoConn) BY <1>9, <1>10 DEF Ord
  <2>2. Ready(o, y.inc[c], u, y.down[c], c \in y.cut, c = NoConn)
    <3>1. Ready(o, y.inc[c], y.up[c], y.down[c], c \in y.cut, c = NoConn) BY <2>1 DEF OrdAt
    <3>2. o.conn /\ (x.t = "msg" => Letting(y.inc[c])) BY <3>1 DEF Ready
    <3> QED BY <1>0, <1>2, <3>1, <3>2, OrdTypes, ReadyUp
  <2>3. L[c[1]] \in Nat /\ L2[c[1]] \in Nat /\ L[c[1]] <= L2[c[1]] BY <1>0, OrdTypes DEF Later
  <2>4. ASSUME o.ext # "succeeded", x.t = "msg" PROVE Line(g, u, o.sendq, L2[c[1]])
    <3>1. o.sendq = <<>> /\ Line(g, y.up[c], <<>>, L[c[1]]) BY <2>1, <2>4 DEF OrdAt, InLine
    <3>2. Line(g, y.up[c], <<>> \o <<x>>, L2[c[1]])
      BY <1>0, <1>1, <2>3, <2>4, <3>1, OrdTypes, LineQueue DEF Fresh
    <3>3. Line(g, y.up[c], <<x>>, L2[c[1]]) BY <1>1, <3>2, OneItem
    <3> QED BY <1>0, <1>2, <2>3, <3>1, <3>3, OrdTypes, LineMove
  <2>5. ASSUME o.ext # "succeeded", x.t # "msg" PROVE Line(g, u, o.sendq, L2[c[1]])
    BY <1>0, <1>2, <2>1, <2>3, <2>5, OrdTypes, LineCalm DEF OrdAt, InLine
  <2>6. z.up[c] = u BY <1>8, <1>10
  <2> HIDE DEF u
  <2> QED BY <1>8, <2>1, <2>2, <2>4, <2>5, <2>6 DEF OrdAt, InLine
<1>11. ASSUME c[2] > 0, c \in y.cut PROVE OrdAt(z, c, L2, c = NoConn)
  BY <1>8, <1>9, <1>11 DEF Ord, OrdAt
<1>12. Ord(z, L2, NoConn) BY <1>7, <1>9, <1>10, <1>11, OrdOnly
<1> QED BY <1>3, <1>7, <1>12 DEF Only

(* or on the accepted one that is the route. *)
LEMMA WriteDownOrd ==
  ASSUME NEW y, Sound(y), NEW c \in Conn, NEW x \in QueueItem, NEW L, NEW L2, Later(L, L2),
         Ord(y, L, NoConn), NEW h \in Host, h # c[1], Fresh(x, h, L, L2), Usable(y.inc[c]),
         ~y.inc[c].closing
  PROVE  Ord(Write(y, h, c, <<x>>), L2, NoConn) /\ Write(y, h, c, <<x>>).routed = y.routed
<1> DEFINE w == Wrote(y, h, <<x>>)
           z == Down(w, c, <<x>>)
           o == y.out[c]
<1>0. Typed(y) BY DEF Sound
<1>1. x \in ItemType /\ x \in DownItem /\ x.t \in {"msg", "verify"} BY Items DEF QueueItem
<1>2. /\ <<x>> \in Seq(ItemType) /\ <<x>> \in Seq(DownItem)
      /\ (HasMsg(<<x>>) <=> x.t = "msg") /\ ~HasPass(<<x>>)
  BY <1>1, OneItem DEF Pass
<1>3. Write(y, h, c, <<x>>) = z BY DEF Write, Wrote
<1>4. Sound(w) /\ Frame(y, w, {"sent"}) BY <1>2, SentFields
<1> HIDE DEF w
<1>5. Typed(w) BY <1>4 DEF Sound
<1>6. /\ Only(w, z, c) /\ Frame(w, z, {"down"})
      /\ z.down[c] = IF c \in w.cut \/ w.inc[c].closing THEN w.down[c] ELSE w.down[c] \o <<x>>
  BY <1>2, <1>5, DownIs
<1> HIDE DEF z
<1>7. Only(y, z, c)
  <2>1. Frame(y, w, {"req", "sent", "bounced", "overflow", "tab"}) BY <1>4 DEF Frame
  <2>2. Only(y, w, c) BY <2>1, FrameOnly
  <2> QED BY <1>6, <2>2, OnlyTwice
<1>8. /\ z.out = y.out /\ z.inc = y.inc /\ z.up = y.up /\ z.cut = y.cut /\ z.got = y.got
      /\ z.down[c] = IF c \in y.cut THEN y.down[c] ELSE y.down[c] \o <<x>>
  BY <1>4, <1>6 DEF Frame, NetField
<1>9. Ord(y, L2, NoConn) BY <1>0, OrdMore
<1>h. h = Remote(c[1]) BY <1>0, OrdTypes, Hosts
<1>10. ASSUME c[2] > 0, c \notin y.cut PROVE OrdAt(z, c, L2, c = NoConn)
  <2> DEFINE d == y.down[c] \o <<x>>
             g == y.got[c][c[1]]
  <2>1. OrdAt(y, c, L, c = NoConn) /\ OrdAt(y, c, L2, c = NoConn) BY <1>9, <1>10 DEF Ord
  <2>2. Ready(o, y.inc[c], y.up[c], d, c \in y.cut, c = NoConn)
    <3>1. Ready(o, y.inc[c], y.up[c], y.down[c], c \in y.cut, c = NoConn) BY <2>1 DEF OrdAt
    <3>2. CASE x.t = "msg"
      BY <1>0, <1>1, <1>10, <3>1, <3>2, OrdTypes, ReadyDownMsg DEF Usable
    <3>3. CASE x.t # "msg"
      BY <1>0, <1>2, <3>1, <3>3, OrdTypes, ReadyDown
    <3> QED BY <3>2, <3>3
  <2>3. L[h] \in Nat /\ L2[h] \in Nat /\ L[h] <= L2[h] BY DEF Later
  <2>4. Line(g, y.down[c], <<>>, L[h]) /\ Line(g, y.down[c], <<>>, L2[h]) BY <1>h, <2>1 DEF OrdAt, InLine
  <2>0. <<>> \in Seq(ItemType) OBVIOUS
  <2>5. ASSUME x.t = "msg" PROVE Line(g, d, <<>>, L2[h])
    <3>2. Line(g, y.down[c], <<>> \o <<x>>, L2[h])
      BY <1>0, <1>1, <2>0, <2>3, <2>4, <2>5, OrdTypes, LineQueue DEF Fresh
    <3>3. Line(g, y.down[c], <<x>>, L2[h]) BY <1>1, <3>2, OneItem
    <3> QED BY <1>0, <1>2, <2>3, <3>3, OrdTypes, LineMove
  <2>6. ASSUME x.t # "msg" PROVE Line(g, d, <<>>, L2[h])
    BY <1>0, <1>2, <2>0, <2>3, <2>4, <2>6, OrdTypes, LineCalm
  <2>7. z.down[c] = d BY <1>8, <1>10
  <2> HIDE DEF d
  <2> QED BY <1>8, <1>h, <2>1, <2>2, <2>5, <2>6, <2>7 DEF OrdAt, InLine
<1>11. ASSUME c[2] > 0, c \in y.cut PROVE OrdAt(z, c, L2, c = NoConn)
  BY <1>8, <1>9, <1>11 DEF Ord, OrdAt
<1>12. Ord(z, L2, NoConn) BY <1>7, <1>9, <1>10, <1>11, OrdOnly
<1> QED BY <1>3, <1>7, <1>12 DEF Only

(* What changes neither sessions nor streams keeps the order. *)
LEMMA OrdSame ==
  ASSUME NEW y, NEW z, NEW L, NEW e, Ord(y, L, e), Frame(y, z, {"req", "sent", "bounced", "overflow", "tab", "routed", "certs"})
  PROVE  Ord(z, L, e)
<1>1. /\ z.out = y.out /\ z.inc = y.inc /\ z.up = y.up /\ z.down = y.down /\ z.cut = y.cut /\ z.got = y.got
      /\ z.dropped = y.dropped /\ z.early = y.early
  BY DEF Frame, NetField
<1> QED BY <1>1 DEF Ord, OrdAt

(* A new session is opened with the item in its queue. *)
LEMMA OpenedOrd ==
  ASSUME NEW y, Sound(y), NEW h \in Host, NEW x \in QueueItem, NEW c \in Unused(y, h),
         \A d \in Conn : d[1] = h => ~Alive(y.out[d]),
         NEW L, NEW L2, Later(L, L2), Ord(y, L, NoConn), Fresh(x, h, L, L2)
  PROVE  Ord(Opened(y, h, c, x), L2, NoConn) /\ Opened(y, h, c, x).routed = y.routed
<1> DEFINE z == Opened(y, h, c, x)
           o == NewOut(x)
           i == y.inc[c]
           g == y.got[c][Remote(c[1])]
<1>0. Typed(y) BY DEF Sound
<1>1. c \in Conn /\ c[1] = h /\ c[2] > 0 /\ y.out[c].type = "none" BY DEF Unused
<1>2. /\ Frame(y, z, {"out", "tab"}) /\ z.out[c] = o
      /\ \A d \in Conn : d # c => z.out[d] = y.out[d]
  BY OpenedSound
<1>3. Only(y, z, c) BY <1>1, <1>2, FrameOnly
<1> HIDE DEF z
<1>4. z.inc = y.inc /\ z.up = y.up /\ z.down = y.down /\ z.cut = y.cut /\ z.got = y.got BY <1>2 DEF Frame, NetField
<1>5. Ord(y, L2, NoConn) BY <1>0, OrdMore
<1>6. OrdAt(y, c, L, c = NoConn) /\ OrdAt(y, c, L2, c = NoConn) BY <1>1, <1>5 DEF Ord
<1>7. (c = NoConn) = FALSE BY <1>1, Conns
<1>8. /\ ~y.out[c].conn /\ i.type = "none" /\ y.down[c] = <<>> /\ y.out[c].ext = "nil" /\ y.out[c].sendq = <<>>
  BY <1>1, At DEF Local, Phase, Alive
<1>9. y.up[c] = <<>> /\ ~i.outgoing BY <1>6, <1>8 DEF OrdAt, Ready
<1>10. /\ o.type = "s2sout_unauthed" /\ o.conn = FALSE /\ o.key = FALSE /\ o.ext = "nil" /\ o.sendq = <<x>>
  BY DEF NewOut
<1>11. ~HasMsg(<<>>) /\ ~HasBidi(<<>>) /\ ~HasPass(<<>>) /\ DOMAIN <<>> = {} BY DEF HasMsg, HasBidi, HasPass
<1> HIDE DEF o
<1>12. Ready(o, i, <<>>, <<>>, c \in y.cut, c = NoConn) BY <1>7, <1>8, <1>9, <1>10, <1>11 DEF Ready
<1>13. Line(g, <<>>, <<x>>, L2[c[1]])
  <2>1. Line(g, <<>>, <<>>, L[c[1]]) BY <1>6, <1>8, <1>9 DEF OrdAt, InLine
  <2>2. x \in ItemType /\ <<>> \in Seq(ItemType) BY Items
  <2>3. L[c[1]] \in Nat /\ L2[c[1]] \in Nat /\ L[c[1]] <= L2[c[1]] BY <1>1 DEF Later
  <2>4. Line(g, <<>>, <<>> \o <<x>>, L2[c[1]])
    BY <1>0, <1>1, <2>1, <2>2, <2>3, OrdTypes, LineQueue DEF Fresh
  <2> QED BY <2>2, <2>4, OneItem
<1>14. OrdAt(z, c, L2, c = NoConn)
  BY <1>2, <1>4, <1>6, <1>8, <1>9, <1>10, <1>12, <1>13 DEF OrdAt, InLine
<1>15. Ord(z, L2, NoConn) BY <1>1, <1>3, <1>5, <1>14, OrdOnly
<1> QED BY <1>3, <1>15 DEF Only, z

(* Bouncing an item changes neither sessions nor streams. *)
LEMMA BounceOrd ==
  ASSUME NEW y, Sound(y), NEW h \in Host, NEW q \in Seq(ItemType), NEW L, Ord(y, L, NoConn)
  PROVE  /\ Ord(bounce_sendq(y, h, q), L, NoConn) /\ bounce_sendq(y, h, q).routed = y.routed
         /\ Ord(SetOverflow(bounce_sendq(y, h, q)), L, NoConn)
         /\ SetOverflow(bounce_sendq(y, h, q)).routed = y.routed
<1> DEFINE w == bounce_sendq(y, h, q)
<1>1. Sound(w) /\ Frame(y, w, {"bounced"}) BY BounceFields
<1> HIDE DEF w
<1>2. Frame(w, SetOverflow(w), {"overflow"}) BY <1>1 DEF SetOverflow, Sound, Typed, IsNet, Frame, NetField
<1> DEFINE z == SetOverflow(w)
<1> HIDE DEF z
<1>3. /\ Frame(y, w, {"req", "sent", "bounced", "overflow", "tab", "routed", "certs"})
      /\ Frame(y, z, {"req", "sent", "bounced", "overflow", "tab", "routed", "certs"})
      /\ w.routed = y.routed /\ z.routed = y.routed
  BY <1>1, <1>2 DEF Frame, NetField, z
<1>4. Ord(w, L, NoConn) /\ Ord(z, L, NoConn) BY <1>3, OrdSame
<1> QED BY <1>3, <1>4 DEF w, z

(* route_to_existing_session, *)
LEMMA ExistingOrd ==
  ASSUME NEW y, Sound(y), NEW h \in Host, y.tab[h] # NoConn, NEW x \in QueueItem,
         NEW L, NEW L2, Later(L, L2), Ord(y, L, NoConn), Fresh(x, h, L, L2),
         y.tab[h][1] # h => ~y.inc[y.tab[h]].closing
  PROVE  LET z == route_to_existing_session(y, h, x) IN Ord(z, L2, NoConn) /\ z.routed = y.routed
<1> DEFINE c == y.tab[h]
           p == c[1] = h /\ y.out[c].type = "s2sout_unauthed" /\ (x.t # "verify" \/ ~y.out[c].key)
<1>1. /\ c \in Conn
      /\ c[1] = h => Alive(y.out[c])
      /\ c[1] # h => Usable(y.inc[c])
  BY RouteIs
<1>2. x.t \in {"msg", "verify"} /\ x \in ItemType BY Items DEF QueueItem
<1> HIDE DEF c
<1>3. route_to_existing_session(y, h, x) =
        IF p THEN IF Len(y.out[c].sendq) < SendqSize THEN Enqueue(y, c, x) ELSE Refuse(y, h, x)
             ELSE Write(y, h, c, <<x>>)
  BY Zenon DEF route_to_existing_session, c, Enqueue
<1>4. ASSUME p PROVE Ord(Enqueue(y, c, x), L2, NoConn) /\ Enqueue(y, c, x).routed = y.routed
  BY <1>1, <1>4, EnqueueOrd
<1>5. Ord(Refuse(y, h, x), L2, NoConn) /\ Refuse(y, h, x).routed = y.routed
  <2> DEFINE q == <<x>>
             b == SetOverflow(bounce_sendq(y, h, q))
  <2>1. q \in Seq(ItemType) BY <1>2, OneItem
  <2>2. Refuse(y, h, x) = b BY DEF Refuse, SetOverflow
  <2>3. Ord(y, L2, NoConn) BY OrdMore DEF Sound
  <2> HIDE DEF q
  <2>4. Ord(b, L2, NoConn) /\ b.routed = y.routed BY ONLY <2>1, <2>3, Sound(y), h \in Host, BounceOrd
  <2> QED BY ONLY <2>2, <2>4
<1>6. ASSUME ~p PROVE Ord(Write(y, h, c, <<x>>), L2, NoConn) /\ Write(y, h, c, <<x>>).routed = y.routed
  <2>1. CASE c[1] = h
    <3>1. y.out[c].type = "s2sout" \/ (x.t = "verify" /\ y.out[c].key) BY <1>1, <1>6, <2>1 DEF Alive
    <3> QED BY <1>1, <2>1, <3>1, WriteUpOrd
  <2>2. CASE c[1] # h
    <3>1. ~y.inc[c].closing BY <2>2 DEF c
    <3> QED BY <1>1, <2>2, <3>1, WriteDownOrd
  <2> QED BY <2>1, <2>2
<1> HIDE DEF p
<1> QED BY <1>3, <1>4, <1>5, <1>6

(* route_to_new_session, *)
LEMMA NewOrd ==
  ASSUME NEW y, Sound(y), NEW h \in Host, NEW x \in QueueItem, \A d \in Conn : d[1] = h => ~Alive(y.out[d]),
         NEW L, NEW L2, Later(L, L2), Ord(y, L, NoConn), Fresh(x, h, L, L2)
  PROVE  LET z == route_to_new_session(y, h, x) IN Ord(z, L2, NoConn) /\ z.routed = y.routed
<1> DEFINE c == First(y, h)
           w == SetTab(y, h, NoConn)
           z == Opened(y, h, c, x)
           b == bounce_sendq(w, h, <<x>>)
<1>1. route_to_new_session(y, h, x) = IF Unused(y, h) = {} THEN b ELSE z
  BY DEF route_to_new_session, Unused, First, Opened, SetTab
<1>2. Ord(b, L2, NoConn) /\ b.routed = y.routed
  <2>1. Sound(w) /\ Frame(y, w, {"tab"}) BY NoRoute
  <2> HIDE DEF w
  <2>2. Frame(y, w, {"req", "sent", "bounced", "overflow", "tab", "routed", "certs"}) /\ w.routed = y.routed
    BY <2>1 DEF Frame, NetField
  <2>3. Ord(w, L2, NoConn) BY <2>2, OrdMore, OrdSame DEF Sound
  <2>4. <<x>> \in Seq(ItemType) BY Items
  <2> QED BY <2>1, <2>2, <2>3, <2>4, BounceOrd
<1>3. ASSUME Unused(y, h) # {} PROVE Ord(z, L2, NoConn) /\ z.routed = y.routed
  <2>1. c \in Unused(y, h) BY <1>3, FirstUnused
  <2> HIDE DEF c
  <2> QED BY <2>1, OpenedOrd
<1> HIDE DEF z, b
<1> QED BY <1>1, <1>2, <1>3

(* and so the route/remote event. *)
LEMMA RouteOrd ==
  ASSUME NEW y, Sound(y), NEW h \in Host, NEW x \in QueueItem,
         NEW L, NEW L2, Later(L, L2), Ord(y, L, NoConn), Fresh(x, h, L, L2)
  PROVE  LET z == route(y, h, x) IN Ord(z, L2, NoConn) /\ z.routed = y.routed
<1> DEFINE c == y.tab[h]
<1>1. CASE c = NoConn
  <2>1. \A d \in Conn : d[1] = h => ~Alive(y.out[d]) BY <1>1, Conns DEF Sound, Routes
  <2>2. route(y, h, x) = route_to_new_session(y, h, x) BY <1>1 DEF route
  <2> QED BY <2>1, <2>2, NewOrd
<1>2. CASE c # NoConn /\ c[1] # h /\ y.inc[c].closing
  <2>1. \A d \in Conn : d[1] = h => ~Alive(y.out[d]) BY <1>2, RouteIs
  <2>2. route(y, h, x) = route_to_new_session(y, h, x) BY <1>2 DEF route
  <2> QED BY <2>1, <2>2, NewOrd
<1>3. CASE c # NoConn /\ ~(c[1] # h /\ y.inc[c].closing)
  <2>1. route(y, h, x) = route_to_existing_session(y, h, x) BY <1>3 DEF route
  <2> QED BY <1>3, <2>1, ExistingOrd
<1> QED BY <1>1, <1>2, <1>3

(* The order with the stanzas sent so far. *)
Lined(y, e) == Good(y) /\ Ord(y, y.routed, e)

(* A db:verify does not touch it. *)
LEMMA VerifyOrd ==
  ASSUME NEW y, Lined(y, NoConn), NEW h \in Host, NEW x \in QueueItem, x.t = "verify"
  PROVE  Lined(route(y, h, x), NoConn)
<1>1. y.routed \in [Host -> Nat] BY TypedFields DEF Lined, Good, Sound
<1>2. Later(y.routed, y.routed) /\ Fresh(x, h, y.routed, y.routed) BY <1>1 DEF Later, Fresh
<1> DEFINE z == route(y, h, x)
<1>3. Ord(z, y.routed, NoConn) /\ z.routed = y.routed BY <1>2, RouteOrd DEF Lined, Good
<1>4. Good(z) BY RouteVerify DEF Lined
<1> QED BY <1>3, <1>4 DEF Lined

(* A user's stanza is the latest. *)
LEMMA SendOrd ==
  ASSUME NEW y, Lined(y, NoConn), NEW h \in Host
  PROVE  Lined(SendStanza(y, h), NoConn)
<1> DEFINE n == y.routed[h] + 1
           w == SetRouted(y, h, n)
           x == Msg(n)
           z == route(w, h, x)
<1>1. SendStanza(y, h) = z BY DEF SendStanza, SetRouted
<1>2. y.routed \in [Host -> Nat] /\ Typed(y) /\ Sound(y) BY TypedFields DEF Lined, Good, Sound
<1>3. n \in Nat /\ n = y.routed[h] + 1 BY <1>2
<1> HIDE DEF n
<1>4. Typed(w) /\ Frame(y, w, {"routed"}) /\ w.routed = [y.routed EXCEPT ![h] = n] BY <1>2, <1>3, SetRoutedFields
<1> HIDE DEF w
<1>5. Frame(y, w, {"cut", "routed", "sent", "bounced", "dropped", "early", "overflow"}) BY <1>4 DEF Frame
<1>6. Sound(w) BY <1>2, <1>4, <1>5, SameFields
<1>7. x \in QueueItem /\ x.t = "msg" /\ x.n = n BY <1>3, Items DEF Msg
<1> HIDE DEF x
<1>8. Later(y.routed, w.routed) /\ Fresh(x, h, y.routed, w.routed) BY <1>2, <1>3, <1>4, <1>7 DEF Later, Fresh
<1>9. Frame(y, w, {"req", "sent", "bounced", "overflow", "tab", "routed", "certs"}) BY <1>4 DEF Frame
<1>10. Ord(w, y.routed, NoConn) BY <1>9, OrdSame DEF Lined
<1>11. Ord(z, w.routed, NoConn) /\ z.routed = w.routed BY <1>6, <1>7, <1>8, <1>10, RouteOrd
<1>12. Good(z) BY <1>1, SendGood DEF Lined
<1> QED BY <1>1, <1>11, <1>12 DEF Lined

-----------------------------------------------------------------------------
(* A change of one connection that keeps its order keeps them all. *)
LEMMA LinedOnly ==
  ASSUME NEW y, NEW c \in Conn, NEW e \in {c, NoConn}, Lined(y, e), NEW z, Good(z), Only(y, z, c),
         NEW f \in {c, NoConn},
         c[2] > 0 /\ OrdAt(y, c, y.routed, c = e) => OrdAt(z, c, y.routed, c = f)
  PROVE  Lined(z, f)
<1>1. c[2] > 0 => OrdAt(z, c, y.routed, c = f) BY DEF Lined, Ord
<1>2. Ord(z, y.routed, f) BY <1>1, OrdOnly DEF Lined
<1>3. z.routed = y.routed BY DEF Only
<1> QED BY <1>2, <1>3 DEF Lined

(* Writing to the acceptor what is no stanza, *)
LEMMA UpOrd ==
  ASSUME NEW y, NEW c \in Conn, NEW e \in {c, NoConn}, Lined(y, e), NEW x \in UpItem(c),
         Good(Up(y, c, <<x>>)), x.t # "msg", x.t = "bidi" => y.out[c].incoming, y.out[c].conn
  PROVE  Lined(Up(y, c, <<x>>), e)
<1> DEFINE z == Up(y, c, <<x>>)
           u == y.up[c] \o <<x>>
<1>0. Typed(y) BY DEF Lined, Good, Sound
<1>1. x \in ItemType BY DEF UpItem
<1>2. <<x>> \in Seq(ItemType) /\ ~HasMsg(<<x>>) /\ (HasBidi(<<x>>) => y.out[c].incoming) BY <1>1, OneItem
<1>3. Only(y, z, c) /\ Frame(y, z, {"up"}) /\ z.up[c] = IF c \in y.cut THEN y.up[c] ELSE u BY <1>0, <1>2, UpIs
<1>4. Good(z) OBVIOUS
<1> HIDE DEF z
<1>5. z.out = y.out /\ z.inc = y.inc /\ z.down = y.down /\ z.cut = y.cut /\ z.got = y.got BY <1>3 DEF Frame, NetField
<1>6. ASSUME OrdAt(y, c, y.routed, c = e) PROVE OrdAt(z, c, y.routed, c = e)
  <2>1. CASE c \in y.cut BY <1>3, <1>5, <1>6, <2>1 DEF OrdAt
  <2>2. CASE c \notin y.cut
    <3>1. Ready(y.out[c], y.inc[c], u, y.down[c], c \in y.cut, c = e)
      BY <1>0, <1>2, <1>6, OrdTypes, ReadyUp DEF OrdAt
    <3>2. y.routed[c[1]] \in Nat BY <1>0, OrdTypes
    <3>3. y.out[c].ext # "succeeded" => Line(y.got[c][Remote(c[1])], u, y.out[c].sendq, y.routed[c[1]])
      BY <1>0, <1>2, <1>6, <3>2, OrdTypes, LineCalm DEF OrdAt, InLine
    <3>4. z.up[c] = u BY <1>3, <2>2
    <3> HIDE DEF u
    <3> QED BY <1>5, <1>6, <3>1, <3>3, <3>4 DEF OrdAt, InLine
  <2> QED BY <2>1, <2>2
<1>7. Lined(z, e) BY <1>3, <1>4, <1>6, LinedOnly
<1> QED BY <1>7 DEF z

(* and to the opener. *)
LEMMA DownOrd ==
  ASSUME NEW y, NEW c \in Conn, NEW e \in {c, NoConn}, Lined(y, e), NEW x \in DownItem,
         Good(Down(y, c, <<x>>)), x.t # "msg", ~Pass(x)
  PROVE  Lined(Down(y, c, <<x>>), e)
<1> DEFINE z == Down(y, c, <<x>>)
           d == y.down[c] \o <<x>>
           k == c \in y.cut \/ y.inc[c].closing
<1>0. Typed(y) BY DEF Lined, Good, Sound
<1>1. x \in ItemType BY DEF DownItem
<1>2. <<x>> \in Seq(ItemType) /\ <<x>> \in Seq(DownItem) /\ ~HasMsg(<<x>>) /\ ~HasPass(<<x>>) BY <1>1, OneItem
<1>3. Only(y, z, c) /\ Frame(y, z, {"down"}) /\ z.down[c] = IF k THEN y.down[c] ELSE d BY <1>0, <1>2, DownIs
<1>4. Good(z) OBVIOUS
<1> HIDE DEF z
<1>5. z.out = y.out /\ z.inc = y.inc /\ z.up = y.up /\ z.cut = y.cut /\ z.got = y.got BY <1>3 DEF Frame, NetField
<1>6. ASSUME OrdAt(y, c, y.routed, c = e) PROVE OrdAt(z, c, y.routed, c = e)
  <2>1. CASE k BY <1>3, <1>5, <1>6, <2>1 DEF OrdAt
  <2>2. CASE ~k
    <3>1. Ready(y.out[c], y.inc[c], y.up[c], d, c \in y.cut, c = e)
      BY <1>0, <1>2, <1>6, OrdTypes, ReadyDown DEF OrdAt
    <3>2. y.routed[Remote(c[1])] \in Nat /\ <<>> \in Seq(ItemType) BY <1>0, OrdTypes
    <3>3. Line(y.got[c][c[1]], d, <<>>, y.routed[Remote(c[1])])
      BY <1>0, <1>2, <1>6, <3>2, OrdTypes, LineCalm DEF OrdAt, InLine
    <3>4. z.down[c] = d BY <1>3, <2>2
    <3> HIDE DEF d
    <3> QED BY <1>5, <1>6, <3>1, <3>3, <3>4 DEF OrdAt, InLine
  <2> QED BY <2>1, <2>2
<1>7. Lined(z, e) BY <1>3, <1>4, <1>6, LinedOnly
<1> QED BY <1>7 DEF z

(* A new state of the opener's session, *)
LEMMA OutOrd ==
  ASSUME NEW y, NEW c \in Conn, NEW e \in {c, NoConn}, Lined(y, e), NEW v \in OutSession,
         Good(SetOut(y, c, v)),
         ASSUME OrdAt(y, c, y.routed, c = e)
         PROVE  /\ Ready(v, y.inc[c], y.up[c], y.down[c], c \in y.cut, c = e)
                /\ InLine(c, v, y.up[c], y.down[c], y.got[c], y.routed[c[1]], y.routed[Remote(c[1])])
  PROVE  Lined(SetOut(y, c, v), e)
<1> DEFINE z == SetOut(y, c, v)
<1>0. Typed(y) BY DEF Lined, Good, Sound
<1>1. Only(y, z, c) /\ Frame(y, z, {"out"}) /\ z.out[c] = v BY <1>0, OutIs
<1>2. Good(z) OBVIOUS
<1> HIDE DEF z
<1>3. z.up = y.up /\ z.inc = y.inc /\ z.down = y.down /\ z.cut = y.cut /\ z.got = y.got BY <1>1 DEF Frame, NetField
<1>4. OrdAt(y, c, y.routed, c = e) => OrdAt(z, c, y.routed, c = e) BY <1>1, <1>3 DEF OrdAt
<1>5. Lined(z, e) BY <1>1, <1>2, <1>4, LinedOnly
<1> QED BY <1>5 DEF z

(* of the acceptor's, *)
LEMMA InOrd ==
  ASSUME NEW y, NEW c \in Conn, NEW e \in {c, NoConn}, Lined(y, e), NEW v \in InSession, NEW z, Good(z),
         Frame(y, z, {"inc", "tab"}), z.inc = [y.inc EXCEPT ![c] = v],
         c[2] > 0 /\ Ready(y.out[c], y.inc[c], y.up[c], y.down[c], c \in y.cut, c = e)
           => Ready(y.out[c], v, y.up[c], y.down[c], c \in y.cut, c = e)
  PROVE  Lined(z, e)
<1>0. y.inc \in [Conn -> InSession] BY TypedFields DEF Lined, Good, Sound
<1>1. z.inc[c] = v /\ \A d \in Conn : d # c => z.inc[d] = y.inc[d] BY <1>0
<1>2. Only(y, z, c) BY <1>1, FrameOnly
<1>3. z.up = y.up /\ z.out = y.out /\ z.down = y.down /\ z.cut = y.cut /\ z.got = y.got BY DEF Frame, NetField
<1>4. c[2] > 0 /\ OrdAt(y, c, y.routed, c = e) => OrdAt(z, c, y.routed, c = e) BY <1>1, <1>3 DEF OrdAt
<1> QED BY <1>2, <1>4, LinedOnly

(* and of that and the route. *)
LEMMA InTabIs ==
  ASSUME NEW y, Typed(y), NEW c \in Conn, NEW v \in InSession, NEW g, NEW t
  PROVE  LET z == SetTab(SetIn(y, c, v), g, t) IN
         Frame(y, z, {"inc", "tab"}) /\ z.inc = [y.inc EXCEPT ![c] = v]
BY DEF Typed, Frame, IsNet, NetField, SetIn, SetTab

(* destroy_session of an accepted session, *)
LEMMA DestroyInOrd ==
  ASSUME NEW y, NEW c \in Conn, Lined(y, NoConn)
  PROVE  Lined(destroy_in(y, c), NoConn)
<1> DEFINE i == y.inc[c]
           g == Remote(c[1])
           v == RestingIn(i)
           t == IF i.outgoing /\ y.tab[g] = c THEN NoConn ELSE y.tab[g]
           z == SetTab(SetIn(y, c, v), g, t)
<1>1. destroy_in(y, c) = IF ~LiveIn(y, c) THEN y ELSE z BY DEF destroy_in, SetTab, SetIn
<1>2. ASSUME LiveIn(y, c) PROVE Lined(z, NoConn)
  <2>0. Typed(y) BY DEF Lined, Good, Sound
  <2>1. i \in InSession BY <2>0, OrdTypes
  <2>2. v \in InSession /\ v.type = "s2s_destroyed" /\ v.outgoing = i.outgoing BY <2>1 DEF RestingIn, InSession
  <2> HIDE DEF v, t
  <2>3. Frame(y, z, {"inc", "tab"}) /\ z.inc = [y.inc EXCEPT ![c] = v] BY <2>0, <2>2, InTabIs
  <2>4. Good(z) BY <1>1, <1>2, DestroyInGood DEF Lined
  <2> HIDE DEF z
  <2>5. ASSUME Ready(y.out[c], i, y.up[c], y.down[c], c \in y.cut, c = NoConn)
        PROVE  Ready(y.out[c], v, y.up[c], y.down[c], c \in y.cut, c = NoConn)
    BY <2>2, <2>5 DEF Ready, Letting
  <2> QED BY <2>2, <2>3, <2>4, <2>5, InOrd
<1> QED BY <1>1, <1>2

(* and the loss of a connection. *)
LEMMA CutOrd ==
  ASSUME NEW y, NEW c \in Conn, Lined(y, NoConn)
  PROVE  /\ Lined([y EXCEPT !.cut = @ \union {c}, !.down[c] = <<>>], NoConn)
         /\ Lined([y EXCEPT !.cut = @ \union {c}, !.up[c] = <<>>], NoConn)
         /\ Lined([y EXCEPT !.cut = @ \union {c}], NoConn)
         /\ Lined([y EXCEPT !.up[c] = <<>>], NoConn)
         /\ c \in y.cut => Lined([y EXCEPT !.down[c] = <<>>], NoConn)
<1>0. Typed(y) /\ IsNet(y) /\ Good(y) BY DEF Lined, Good, Sound, Typed
<1>1. y.up \in [Conn -> Seq(ItemType)] /\ y.down \in [Conn -> Seq(DownItem)] /\ y.cut \subseteq Conn BY <1>0, TypedFields
<1>2. <<>> \in Seq(ItemType) /\ (c = NoConn) \in BOOLEAN OBVIOUS
<1>3. y.routed[c[1]] \in Nat /\ y.routed[Remote(c[1])] \in Nat BY <1>0, OrdTypes
<1>4. ASSUME NEW z, Good(z), Frame(y, z, {"cut", "up", "down"}), Only(y, z, c),
             \/ z.up[c] = y.up[c] /\ z.down[c] = <<>> /\ c \in z.cut
             \/ z.up[c] = <<>> /\ z.down[c] = y.down[c] /\ c \in z.cut
             \/ z.up[c] = y.up[c] /\ z.down[c] = y.down[c] /\ c \in z.cut
             \/ z.up[c] = <<>> /\ z.down[c] = y.down[c] /\ z.cut = y.cut
      PROVE  Lined(z, NoConn)
  <2>1. z.out = y.out /\ z.inc = y.inc /\ z.got = y.got BY <1>4 DEF Frame, NetField
  <2>2. ASSUME OrdAt(y, c, y.routed, c = NoConn) PROVE OrdAt(z, c, y.routed, c = NoConn)
    <3> DEFINE o == y.out[c]
               i == y.inc[c]
               k == c \in y.cut
               p == c = NoConn
    <3>1. Ready(o, i, y.up[c], y.down[c], k, p) BY <2>2 DEF OrdAt
    <3>2. /\ Ready(o, i, <<>>, y.down[c], k, p) /\ Ready(o, i, y.up[c], <<>>, TRUE, p)
          /\ Ready(o, i, y.up[c], y.down[c], TRUE, p)
      BY <1>2, <3>1, ReadyLess
    <3>3. Ready(o, i, <<>>, y.down[c], TRUE, p) BY <1>2, <3>2, ReadyLess
    <3>4. c \in z.cut => (c \in z.cut) = TRUE OBVIOUS
    <3>5. Ready(o, i, z.up[c], z.down[c], c \in z.cut, p) BY <1>4, <3>2, <3>3, <3>4
    <3>6. Line(y.got[c][c[1]], <<>>, <<>>, y.routed[Remote(c[1])])
      BY <1>0, <1>2, <1>3, <2>2, OrdTypes, LineLess DEF OrdAt, InLine
    <3>7. o.ext # "succeeded" => Line(y.got[c][Remote(c[1])], <<>>, o.sendq, y.routed[c[1]])
      BY <1>0, <1>3, <2>2, OrdTypes, LineLess DEF OrdAt, InLine
    <3> HIDE DEF o, i, p
    <3>8. InLine(c, o, z.up[c], z.down[c], y.got[c], y.routed[c[1]], y.routed[Remote(c[1])])
      BY <1>4, <2>2, <3>6, <3>7 DEF OrdAt, InLine, o
    <3> QED BY <2>1, <3>5, <3>8 DEF OrdAt, o, i, p
  <2> QED BY <1>4, <2>2, LinedOnly
<1>5. Lined([y EXCEPT !.cut = @ \union {c}, !.down[c] = <<>>], NoConn)
  <2> DEFINE z == [y EXCEPT !.cut = @ \union {c}, !.down[c] = <<>>]
  <2>1. Good(z) BY <1>0, CutGood
  <2>2. /\ Frame(y, z, {"cut", "up", "down"}) /\ z.cut = y.cut \union {c} /\ z.up = y.up
        /\ z.down = [y.down EXCEPT ![c] = <<>>] /\ z.dropped = y.dropped /\ z.early = y.early /\ z.routed = y.routed
    BY <1>0 DEF Frame, IsNet, NetField
  <2> HIDE DEF z
  <2>3. Only(y, z, c) /\ z.down[c] = <<>> BY <1>1, <2>2 DEF Only, Frame, NetField
  <2>4. Lined(z, NoConn) BY <1>4, <2>1, <2>2, <2>3
  <2> QED BY <2>4 DEF z
<1>6. Lined([y EXCEPT !.cut = @ \union {c}, !.up[c] = <<>>], NoConn)
  <2> DEFINE z == [y EXCEPT !.cut = @ \union {c}, !.up[c] = <<>>]
  <2>1. Good(z) BY <1>0, CutGood
  <2>2. /\ Frame(y, z, {"cut", "up", "down"}) /\ z.cut = y.cut \union {c} /\ z.down = y.down
        /\ z.up = [y.up EXCEPT ![c] = <<>>] /\ z.dropped = y.dropped /\ z.early = y.early /\ z.routed = y.routed
    BY <1>0 DEF Frame, IsNet, NetField
  <2> HIDE DEF z
  <2>3. Only(y, z, c) /\ z.up[c] = <<>> BY <1>1, <2>2 DEF Only, Frame, NetField
  <2>4. Lined(z, NoConn) BY <1>4, <2>1, <2>2, <2>3
  <2> QED BY <2>4 DEF z
<1>7. Lined([y EXCEPT !.cut = @ \union {c}], NoConn)
  <2> DEFINE z == [y EXCEPT !.cut = @ \union {c}]
  <2>1. Good(z) BY <1>0, CutGood
  <2>2. /\ Frame(y, z, {"cut"}) /\ Frame(y, z, {"cut", "up", "down"}) /\ z.cut = y.cut \union {c}
        /\ z.up = y.up /\ z.down = y.down
    BY <1>0 DEF Frame, IsNet, NetField
  <2> HIDE DEF z
  <2>3. Only(y, z, c) BY <2>2, FrameOnly
  <2>4. Lined(z, NoConn) BY <1>4, <2>1, <2>2, <2>3
  <2> QED BY <2>4 DEF z
<1>8. Lined([y EXCEPT !.up[c] = <<>>], NoConn)
  <2> DEFINE z == [y EXCEPT !.up[c] = <<>>]
  <2>1. Good(z) BY <1>0, ClearDownGood
  <2>2. /\ Frame(y, z, {"up"}) /\ Frame(y, z, {"cut", "up", "down"}) /\ z.cut = y.cut /\ z.down = y.down
        /\ z.up = [y.up EXCEPT ![c] = <<>>]
    BY <1>0 DEF Frame, IsNet, NetField
  <2> HIDE DEF z
  <2>3. z.up[c] = <<>> /\ \A d \in Conn : d # c => z.up[d] = y.up[d] BY <1>1, <2>2
  <2>4. Only(y, z, c) BY <2>2, <2>3, FrameOnly
  <2>5. Lined(z, NoConn) BY <1>4, <2>1, <2>2, <2>3, <2>4
  <2> QED BY <2>5 DEF z
<1>9. ASSUME c \in y.cut PROVE Lined([y EXCEPT !.down[c] = <<>>], NoConn)
  <2> DEFINE z == [y EXCEPT !.down[c] = <<>>]
  <2>1. Good(z) BY <1>0, ClearDownGood
  <2>2. /\ Frame(y, z, {"down"}) /\ Frame(y, z, {"cut", "up", "down"}) /\ z.cut = y.cut /\ z.up = y.up
        /\ z.down = [y.down EXCEPT ![c] = <<>>]
    BY <1>0 DEF Frame, IsNet, NetField
  <2> HIDE DEF z
  <2>3. z.down[c] = <<>> /\ \A d \in Conn : d # c => z.down[d] = y.down[d] BY <1>1, <2>2
  <2>4. Only(y, z, c) BY <2>2, <2>3, FrameOnly
  <2>5. Lined(z, NoConn) BY <1>4, <1>9, <2>1, <2>2, <2>3, <2>4
  <2> QED BY <2>5 DEF z
<1> QED BY <1>5, <1>6, <1>7, <1>8, <1>9

-----------------------------------------------------------------------------
(* The opener's session is destroyed: nobody needs to be told any more. *)
LEMMA EndedOrd ==
  ASSUME NEW y, Sound(y), NEW c \in Conn, NEW e \in {c, NoConn}, NEW L \in [Host -> Nat], Ord(y, L, e)
  PROVE  Ord(Ended(y, c), L, NoConn) /\ Ended(y, c).routed = y.routed /\ Ended(y, c).cut = y.cut
<1> DEFINE o == y.out[c]
           v == RestingOut(o)
           w == SetOut(y, c, v)
           z == SetTab(w, c[1], NoConn)
<1>0. Typed(y) /\ c[1] \in Host BY Conns DEF Sound
<1>1. Ended(y, c) = z BY DEF Ended, SetOut, SetTab
<1>2. /\ v \in OutSession /\ v.type = "s2s_destroyed" /\ v.sendq = <<>> /\ v.ext = o.ext /\ v.conn = o.conn
      /\ v.key = o.key /\ v.incoming = o.incoming
  <2>1. o \in OutSession /\ <<>> \in Seq(QueueItem) BY <1>0, OrdTypes
  <2> QED BY <2>1 DEF RestingOut, OutFields, OutSession
<1> HIDE DEF v
<1>3. Only(y, w, c) /\ Frame(y, w, {"out"}) /\ w.out[c] = v /\ Typed(w) BY <1>0, <1>2, OutIs
<1> HIDE DEF w
<1>4. Frame(w, z, {"tab"}) BY <1>0, <1>3, SetTabFields
<1> HIDE DEF z
<1>5. Only(y, z, c)
  <2>1. Frame(w, z, {"req", "sent", "bounced", "overflow", "tab"}) BY <1>4 DEF Frame
  <2>2. Only(w, z, c) BY <2>1, FrameOnly
  <2> QED BY <1>3, <2>2, OnlyTwice
<1>6. /\ z.out[c] = v /\ z.inc = y.inc /\ z.up = y.up /\ z.down = y.down /\ z.cut = y.cut /\ z.got = y.got
      /\ z.routed = y.routed
  BY <1>3, <1>4 DEF Frame, NetField
<1>7. ASSUME c[2] > 0 PROVE OrdAt(z, c, L, c = NoConn)
  <2>1. OrdAt(y, c, L, c = e) BY <1>7 DEF Ord
  <2>2. (c = NoConn) = FALSE BY Conns
  <2>3. Ready(v, y.inc[c], y.up[c], y.down[c], c \in y.cut, FALSE) BY <1>2, <2>1 DEF OrdAt, Ready, Told
  <2>4. L[c[1]] \in Nat BY <1>0
  <2>5. o.ext # "succeeded" => Line(y.got[c][Remote(c[1])], y.up[c], <<>>, L[c[1]])
    BY <1>0, <2>1, <2>4, OrdTypes, LineLess DEF OrdAt, InLine
  <2> QED BY <1>2, <1>6, <2>1, <2>2, <2>3, <2>5 DEF OrdAt, InLine
<1>8. Ord(z, L, NoConn) BY <1>5, <1>7, OrdOnly
<1> QED BY <1>1, <1>6, <1>8

(* Routing does not touch what is cut. *)
LEMMA RouteCut ==
  ASSUME NEW y, IsNet(y), NEW h, NEW x
  PROVE  IsNet(route(y, h, x)) /\ route(y, h, x).cut = y.cut
<1> DEFINE c == y.tab[h]
           b(w) == bounce_sendq(w, h, <<x>>)
<1>1. ASSUME NEW w, IsNet(w), w.cut = y.cut PROVE IsNet(b(w)) /\ b(w).cut = y.cut
  BY <1>1 DEF bounce_sendq, IsNet, NetField
<1>2. IsNet(Enqueue(y, c, x)) /\ Enqueue(y, c, x).cut = y.cut BY DEF Enqueue, IsNet, NetField
<1>3. IsNet(SetOverflow(b(y))) /\ SetOverflow(b(y)).cut = y.cut
  <2> DEFINE w == b(y)
  <2>1. IsNet(w) /\ w.cut = y.cut BY <1>1
  <2> HIDE DEF w
  <2>2. IsNet(SetOverflow(w)) /\ SetOverflow(w).cut = y.cut BY <2>1 DEF SetOverflow, IsNet, NetField
  <2> QED BY <2>2 DEF w
<1>4. IsNet(Write(y, h, c, <<x>>)) /\ Write(y, h, c, <<x>>).cut = y.cut
  <2> DEFINE w == Wrote(y, h, <<x>>)
  <2>1. IsNet(w) /\ w.cut = y.cut BY DEF Wrote, IsNet, NetField
  <2>2. Write(y, h, c, <<x>>) = IF c[1] = h THEN Up(w, c, <<x>>) ELSE Down(w, c, <<x>>) BY DEF Write, Wrote
  <2> HIDE DEF w
  <2>3. IsNet(Up(w, c, <<x>>)) /\ Up(w, c, <<x>>).cut = w.cut BY <2>1 DEF Up, IsNet, NetField
  <2>4. IsNet(Down(w, c, <<x>>)) /\ Down(w, c, <<x>>).cut = w.cut BY <2>1 DEF Down, IsNet, NetField
  <2> QED BY <2>1, <2>2, <2>3, <2>4
<1>5. route_to_existing_session(y, h, x) \in {Enqueue(y, c, x), SetOverflow(b(y)), Write(y, h, c, <<x>>)}
  BY DEF route_to_existing_session, Enqueue, SetOverflow, Refuse
<1>6. IsNet(SetTab(y, h, NoConn)) /\ SetTab(y, h, NoConn).cut = y.cut BY DEF SetTab, IsNet, NetField
<1>7. IsNet(b(SetTab(y, h, NoConn))) /\ b(SetTab(y, h, NoConn)).cut = y.cut BY <1>1, <1>6
<1>8. \A d : IsNet(Opened(y, h, d, x)) /\ Opened(y, h, d, x).cut = y.cut BY DEF Opened, IsNet, NetField
<1>9. \/ route_to_new_session(y, h, x) = b(SetTab(y, h, NoConn))
      \/ route_to_new_session(y, h, x) = Opened(y, h, First(y, h), x)
  BY DEF route_to_new_session, SetTab, Opened, First, Unused
<1>10. route(y, h, x) \in {route_to_new_session(y, h, x), route_to_existing_session(y, h, x)} BY DEF route
<1> HIDE DEF b, c
<1> QED BY <1>2, <1>3, <1>4, <1>5, <1>7, <1>8, <1>9, <1>10

(* destroy_session of an outgoing session keeps the order: what is sent in *)
(* answer to the bounces goes a new way.                                   *)
LEMMA DestroyOutOrd ==
  ASSUME NEW y, NEW c \in Conn, NEW e \in {c, NoConn}, Lined(y, e), NEW again \in BOOLEAN,
         e = c => Alive(y.out[c])
  PROVE  Lined(destroy_out(y, c, again), NoConn) /\ destroy_out(y, c, again).cut = y.cut
<1> DEFINE h == c[1]
           q == y.out[c].sendq
           w == Ended(y, c)
           z == bounce_sendq(w, h, q)
           p(a) == a /\ Numbers(y.out[c].sendq) # {} /\ y.routed[c[1]] < MaxMsg[c[1]]
<1>0. /\ Good(y) /\ Sound(y) /\ h \in Host /\ q \in Seq(ItemType) /\ y.routed \in [Host -> Nat]
      /\ LiveOut(y, c) = Alive(y.out[c])
  BY At, Conns, TypedFields, Opener DEF Lined, Good, Sound
<1>1. \A a \in BOOLEAN : destroy_out(y, c, a) = CASE ~LiveOut(y, c) -> y
                           [] LiveOut(y, c) /\ p(a) -> SendStanza(z, h)
                           [] OTHER -> z
  BY DEF destroy_out, Ended
<1>2. ASSUME Alive(y.out[c]) PROVE Lined(z, NoConn) /\ z.cut = y.cut
  <2>1. Sound(w) BY <1>0, <1>2, EndedSound
  <2>2. Ord(w, y.routed, NoConn) /\ w.routed = y.routed /\ w.cut = y.cut BY <1>0, EndedOrd DEF Lined
  <2> HIDE DEF w
  <2>3. Ord(z, y.routed, NoConn) /\ z.routed = w.routed BY <1>0, <2>1, <2>2, BounceOrd
  <2>4. Frame(w, z, {"bounced"}) BY <1>0, <2>1, BounceFields
  <2> HIDE DEF z
  <2>7. z.cut = w.cut BY <2>4 DEF Frame, NetField
  <2>5. destroy_out(y, c, FALSE) = z BY <1>0, <1>1, <1>2
  <2>6. Good(z) BY <1>0, <2>5, DestroyOutGood
  <2> QED BY <2>2, <2>3, <2>6, <2>7 DEF Lined
<1>3. ASSUME Alive(y.out[c]) PROVE Lined(SendStanza(z, h), NoConn) /\ SendStanza(z, h).cut = y.cut
  <2>1. Lined(z, NoConn) /\ z.cut = y.cut BY <1>2, <1>3
  <2> HIDE DEF z
  <2>2. Lined(SendStanza(z, h), NoConn) BY <1>0, <2>1, SendOrd
  <2> DEFINE r == SetRouted(z, h, z.routed[h] + 1)
             m == Msg(z.routed[h] + 1)
  <2>3. SendStanza(z, h) = route(r, h, m) BY DEF SendStanza, SetRouted
  <2>4. IsNet(r) /\ r.cut = z.cut BY <2>1 DEF Lined, Good, Sound, Typed, SetRouted, IsNet, NetField
  <2> HIDE DEF r, m
  <2>5. route(r, h, m).cut = r.cut BY <2>4, RouteCut
  <2> QED BY <2>1, <2>2, <2>3, <2>4, <2>5
<1> HIDE DEF p, z
<1>4. ~Alive(y.out[c]) => destroy_out(y, c, again) = y /\ e = NoConn BY <1>0, <1>1
<1>5. Alive(y.out[c]) => destroy_out(y, c, again) \in {z, SendStanza(z, h)} BY <1>0, <1>1
<1> QED BY <1>2, <1>3, <1>4, <1>5

(* session_close of an outgoing session, *)
LEMMA CloseOutOrd ==
  ASSUME NEW y, NEW c \in Conn, NEW e \in {c, NoConn}, Lined(y, e), NEW again \in BOOLEAN,
         e = c => Alive(y.out[c]) /\ y.out[c].conn
  PROVE  Lined(close_out(y, c, again), NoConn)
<1> DEFINE x == Item("end", NoConn, TRUE)
           w == Up(y, c, <<x>>)
           z == destroy_out(w, c, again)
<1>0. Good(y) BY DEF Lined
<1>1. x \in UpItem(c) /\ ~UpStep(x, y.out[c]) /\ x.t = "end" BY Items DEF UpStep, Item
<1>2. Good(w) /\ Frame(y, w, {"up"}) BY <1>0, <1>1, UpGood
<1>3. close_out(y, c, again) = IF ~y.out[c].conn THEN y ELSE [z EXCEPT !.cut = @ \union {c}, !.down[c] = <<>>]
  BY DEF close_out
<1>4. ASSUME y.out[c].conn PROVE Lined(z, NoConn)
  <2>1. Lined(w, e) BY <1>1, <1>2, <1>4, UpOrd
  <2>2. w.out = y.out BY <1>2 DEF Frame, NetField
  <2> HIDE DEF w
  <2> QED BY <2>1, <2>2, DestroyOutOrd
<1> HIDE DEF z
<1>5. ASSUME y.out[c].conn PROVE Lined([z EXCEPT !.cut = @ \union {c}, !.down[c] = <<>>], NoConn)
  BY <1>4, <1>5, CutOrd, Zenon
<1>6. ~y.out[c].conn => Lined(y, NoConn) OBVIOUS
<1> QED BY <1>3, <1>5, <1>6

(* of an accepted session, *)
LEMMA CloseInOrd ==
  ASSUME NEW y, NEW c \in Conn, Lined(y, NoConn), LiveIn(y, c)
  PROVE  Lined(close_in(y, c), NoConn)
<1> DEFINE x == Item("end", NoConn, TRUE)
           w == Down(y, c, <<x>>)
           z == destroy_in(w, c)
<1>0. Good(y) BY DEF Lined
<1>1. c[2] > 0 => y.out[c].conn BY <1>0, Attached DEF Good, LiveIn
<1>2. x \in DownItem /\ ~DownStep(x, y.out[c]) /\ x.t = "end" BY Items DEF DownStep, Item
<1>3. close_in(y, c) = [z EXCEPT !.cut = @ \union {c}, !.up[c] = <<>>] BY DEF close_in
<1> HIDE DEF x
<1>4. Good(w) BY <1>0, <1>1, <1>2, DownGood
<1>5. Lined(w, NoConn) BY <1>2, <1>4, DownOrd DEF Pass
<1>6. Lined(z, NoConn) BY <1>5, DestroyInOrd
<1> HIDE DEF z
<1>7. Lined([z EXCEPT !.cut = @ \union {c}, !.up[c] = <<>>], NoConn) BY ONLY c \in Conn, <1>6, CutOrd, Zenon
<1> QED BY ONLY <1>3, <1>7

(* and its clean close. *)
LEMMA CloseInCleanOrd ==
  ASSUME NEW y, NEW c \in Conn, Lined(y, NoConn), LiveIn(y, c)
  PROVE  Lined(close_in_clean(y, c), NoConn)
<1> DEFINE x == Item("end", NoConn, TRUE)
           w == Down(y, c, <<x>>)
           v == [w.inc[c] EXCEPT !.closing = TRUE]
           z == SetIn(w, c, v)
<1>0. Good(y) BY DEF Lined
<1>1. c[2] > 0 => y.out[c].conn BY <1>0, Attached DEF Good, LiveIn
<1>2. x \in DownItem /\ ~DownStep(x, y.out[c]) /\ x.t = "end" BY Items DEF DownStep, Item
<1>3. close_in_clean(y, c) = z BY DEF close_in_clean, SetIn
<1> HIDE DEF x
<1>4. Good(w) BY <1>0, <1>1, <1>2, DownGood
<1>5. Lined(w, NoConn) BY <1>2, <1>4, DownOrd DEF Pass
<1> HIDE DEF w
<1>6. Typed(w) BY <1>4 DEF Good, Sound
<1>7. w.inc[c] \in InSession BY <1>6, OrdTypes
<1>8. /\ v \in InSession /\ v.type = w.inc[c].type /\ v.authed = w.inc[c].authed /\ v.closing = TRUE
      /\ v.outgoing = w.inc[c].outgoing
  BY <1>7 DEF InSession
<1> HIDE DEF v
<1>9. Frame(w, z, {"inc"}) /\ z.inc = [w.inc EXCEPT ![c] = v] BY <1>6, <1>8, SetInFields
<1>10. Good(z) BY <1>0, <1>3, CloseInCleanGood
<1> HIDE DEF z
<1>11. Frame(w, z, {"inc", "tab"}) BY <1>9 DEF Frame
<1>12. ASSUME Ready(w.out[c], w.inc[c], w.up[c], w.down[c], c \in w.cut, c = NoConn)
       PROVE  Ready(w.out[c], v, w.up[c], w.down[c], c \in w.cut, c = NoConn)
  BY <1>8, <1>12 DEF Ready, Letting
<1>13. Lined(z, NoConn) BY <1>5, <1>8, <1>9, <1>10, <1>11, <1>12, InOrd
<1> QED BY <1>3, <1>13

-----------------------------------------------------------------------------
(* The opener notes that it was let in. *)
LEMMA ReadyAuthed ==
  ASSUME NEW o, NEW i, NEW u, NEW d, NEW k, NEW p, Ready(o, i, u, d, k, p), p \/ o.type = "s2sout",
         NEW v, v.type = "s2sout", v.conn, v.incoming = o.incoming, v.authed = v.incoming
  PROVE  Ready(v, i, u, d, k, FALSE) /\ Letting(i)
BY DEF Ready, Told

(* Queued items ask for no bidirectional stream. *)
LEMMA QueueNoBidi ==
  ASSUME NEW q \in Seq(QueueItem)
  PROVE  ~HasBidi(q)
<1>1. \A k \in DOMAIN q : q[k] \in QueueItem OBVIOUS
<1> QED BY <1>1 DEF HasBidi, QueueItem

(* It does so and sends its queue, or opens its stream again first. *)
LEMMA AuthedOrd ==
  ASSUME NEW y, NEW c \in Conn, NEW e \in {c, NoConn}, Lined(y, e), e = c \/ y.out[c].type = "s2sout",
         NEW z, Good(z), Only(y, z, c), NEW v \in OutSession, z.out[c] = v,
         v.type = "s2sout", v.conn, v.incoming = y.out[c].incoming, v.authed = v.incoming,
         z.inc[c] = y.inc[c], z.down[c] = y.down[c], z.got[c] = y.got[c], c \in z.cut <=> c \in y.cut,
         \/ v.ext = "succeeded" /\ z.up[c] = y.up[c]
         \/ /\ v.ext = y.out[c].ext /\ v.sendq = <<>>
            /\ z.up[c] = IF c \in y.cut THEN y.up[c] ELSE y.up[c] \o y.out[c].sendq
  PROVE  Lined(z, NoConn)
<1> DEFINE o == y.out[c]
           i == y.inc[c]
           u == y.up[c]
           d == y.down[c]
           q == o.sendq
           g == y.got[c][Remote(c[1])]
           r == y.routed[c[1]]
<1>0. Typed(y) BY DEF Lined, Good, Sound
<1>1. u \in Seq(ItemType) /\ q \in Seq(ItemType) /\ ~HasBidi(q) /\ g \in Seq(Nat) /\ r \in Nat
  BY <1>0, OrdTypes, QueueNoBidi
<1>2. (c = NoConn) = FALSE /\ (c \in z.cut) = (c \in y.cut) BY Conns
<1>3. ASSUME OrdAt(y, c, y.routed, c = e) PROVE OrdAt(z, c, y.routed, c = NoConn)
  <2>1. Ready(o, i, u, d, c \in y.cut, c = e) /\ InLine(c, o, u, d, y.got[c], r, y.routed[Remote(c[1])])
    BY <1>3 DEF OrdAt
  <2>2. Ready(v, i, u, d, c \in y.cut, FALSE) /\ Letting(i)
    <3>1. v.type = "s2sout" /\ v.conn /\ v.incoming = o.incoming /\ v.authed = v.incoming OBVIOUS
    <3>2. (c = e) \/ o.type = "s2sout" OBVIOUS
    <3> HIDE DEF o, i, u, d
    <3> QED BY ONLY <2>1, <3>1, <3>2, ReadyAuthed
  <2>3. Ready(v, i, u \o q, d, c \in y.cut, FALSE) BY <1>1, <2>2, ReadyUp
  <2>4. o.ext # "succeeded" => Line(g, u, <<>>, r) /\ Line(g, u \o q, <<>>, r)
    BY <1>1, <2>1, LineLess, LineMove DEF InLine
  <2>5. Ready(v, i, z.up[c], d, c \in y.cut, FALSE) BY <2>2, <2>3
  <2>6. v.ext # "succeeded" => Line(g, z.up[c], <<>>, r) /\ v.sendq = <<>> BY <2>4
  <2>7. InLine(c, v, z.up[c], d, y.got[c], r, y.routed[Remote(c[1])]) BY <2>1, <2>6 DEF InLine
  <2> QED BY <1>2, <2>5, <2>7 DEF OrdAt
<1>4. c[2] > 0 /\ OrdAt(y, c, y.routed, c = e) => OrdAt(z, c, y.routed, c = NoConn) BY <1>3
<1> QED BY ONLY c \in Conn, e \in {c, NoConn}, Lined(y, e), Good(z), Only(y, z, c), <1>4, LinedOnly

(* mark_connected moves the queue to the stream. *)
LEMMA MarkIs ==
  ASSUME NEW y, Sound(y), NEW c \in Conn
  PROVE  LET z == mark_connected(y, c) IN
         /\ Only(y, z, c) /\ Frame(y, z, {"up", "out", "sent"})
         /\ z.out[c] = [y.out[c] EXCEPT !.sendq = <<>>]
         /\ z.up[c] = IF c \in y.cut THEN y.up[c] ELSE y.up[c] \o y.out[c].sendq
<1> DEFINE h == c[1]
           q == y.out[c].sendq
           w1 == Wrote(y, h, q)
           w == Up(w1, c, q)
           v == [w.out[c] EXCEPT !.sendq = <<>>]
           z == SetOut(w, c, v)
<1>1. mark_connected(y, c) = z
  <2>1. Write(y, c[1], c, q) = w BY DEF Write, Wrote
  <2> QED BY <2>1 DEF mark_connected, SetOut
<1>0. Typed(y) /\ h \in Host BY Conns DEF Sound
<1>2. q \in Seq(ItemType) /\ y.out[c] \in OutSession BY <1>0, OrdTypes
<1> HIDE DEF q, h
<1>3. Sound(w1) /\ Frame(y, w1, {"sent"}) BY <1>0, <1>2, SentFields
<1> HIDE DEF w1
<1>4. Typed(w1) BY <1>3 DEF Sound
<1>5. Only(w1, w, c) /\ Frame(w1, w, {"up"}) /\ w.up[c] = IF c \in w1.cut THEN w1.up[c] ELSE w1.up[c] \o q
  BY <1>2, <1>4, UpIs
<1>6. Typed(w)
  <2> DEFINE u == w1.up[c] \o q
  <2>1. w1.up \in [Conn -> Seq(ItemType)] BY <1>4, TypedFields
  <2>2. u \in Seq(ItemType) BY <1>2, <2>1
  <2>3. w = IF c \in w1.cut THEN w1 ELSE SetUp(w1, c, u) BY DEF Up, SetUp
  <2> HIDE DEF u, w
  <2> QED BY <1>4, <2>2, <2>3, SetUpFields
<1> HIDE DEF w
<1>7. w.out = y.out BY <1>3, <1>5 DEF Frame, NetField
<1>8. v \in OutSession
  <2>1. <<>> \in Seq(QueueItem) OBVIOUS
  <2> QED BY <1>2, <1>7, <2>1 DEF OutFields, OutSession
<1>9. v = [y.out[c] EXCEPT !.sendq = <<>>] BY <1>7
<1> HIDE DEF v
<1>10. Only(w, z, c) /\ Frame(w, z, {"out"}) /\ z.out[c] = v BY <1>6, <1>8, OutIs
<1> HIDE DEF z
<1>11. Only(y, z, c)
  <2>1. Frame(y, w1, {"req", "sent", "bounced", "overflow", "tab"}) BY <1>3 DEF Frame
  <2>2. Only(y, w1, c) BY <2>1, FrameOnly
  <2>3. Only(y, w, c) BY <1>5, <2>2, OnlyTwice
  <2> QED BY <1>10, <2>3, OnlyTwice
<1>12. Frame(y, z, {"up", "out", "sent"}) BY <1>3, <1>5, <1>10 DEF Frame, NetField
<1>13. z.up[c] = IF c \in y.cut THEN y.up[c] ELSE y.up[c] \o q
  BY <1>3, <1>5, <1>10 DEF Frame, NetField
<1> QED BY <1>1, <1>9, <1>10, <1>11, <1>12, <1>13 DEF q

(* It keeps the order. *)
LEMMA MarkOrd ==
  ASSUME NEW y, NEW c \in Conn, Lined(y, NoConn), y.out[c].type = "s2sout", y.out[c].conn, c[2] > 0
  PROVE  Lined(mark_connected(y, c), NoConn)
<1> DEFINE z == mark_connected(y, c)
           o == y.out[c]
           v == [o EXCEPT !.sendq = <<>>]
<1>0. Good(y) /\ Sound(y) /\ Typed(y) BY DEF Lined, Good, Sound
<1>1. /\ Only(y, z, c) /\ Frame(y, z, {"up", "out", "sent"}) /\ z.out[c] = v
      /\ z.up[c] = IF c \in y.cut THEN y.up[c] ELSE y.up[c] \o o.sendq
  BY <1>0, MarkIs
<1>2. Good(z) BY <1>0, MarkGood DEF Alive
<1> HIDE DEF z
<1>3. o \in OutSession /\ <<>> \in Seq(QueueItem) BY <1>0, OrdTypes
<1>4. /\ v \in OutSession /\ v.type = "s2sout" /\ v.conn = o.conn /\ v.incoming = o.incoming
      /\ v.authed = o.authed /\ v.ext = o.ext /\ v.sendq = <<>>
  BY <1>3 DEF OutFields, OutSession
<1> HIDE DEF v
<1>5. z.inc = y.inc /\ z.down = y.down /\ z.got = y.got /\ z.cut = y.cut BY <1>1 DEF Frame, NetField
<1>6. o.authed = o.incoming BY DEF Lined, Ord, OrdAt, Ready
<1>7. Lined(z, NoConn) BY <1>1, <1>2, <1>4, <1>5, <1>6, AuthedOrd
<1> QED BY <1>7 DEF z

(* make_authenticated of an outgoing session that was told so. *)
LEMMA AuthOutOrd ==
  ASSUME NEW y, NEW c \in Conn, Lined(y, c), Alive(y.out[c]), y.out[c].conn
  PROVE  Lined(make_authenticated_out(y, c), NoConn)
<1> DEFINE o == y.out[c]
           v == [o EXCEPT !.type = "s2sout", !.authed = o.incoming]
           w == SetOut(y, c, v)
           z == mark_connected(w, c)
<1>0. Good(y) /\ Sound(y) /\ Typed(y) BY DEF Lined, Good, Sound
<1>1. make_authenticated_out(y, c) = IF o.ext = "succeeded" THEN w ELSE z
  <2>1. IsNet(y) /\ y.out \in [Conn -> OutSession] BY <1>0, TypedFields DEF Typed
  <2>2. [y EXCEPT !.out[c].type = "s2sout", !.out[c].authed = y.out[c].incoming] = w
    BY <2>1 DEF SetOut, IsNet, NetField, OutFields, OutSession
  <2> HIDE DEF w
  <2> QED BY <2>2 DEF make_authenticated_out
<1>2. Good(make_authenticated_out(y, c)) BY <1>0, AuthOutGood
<1>3. o \in OutSession BY <1>0, OrdTypes
<1>4. /\ v \in OutSession /\ v.type = "s2sout" /\ v.conn = o.conn /\ v.incoming = o.incoming
      /\ v.authed = v.incoming /\ v.ext = o.ext /\ v.sendq = o.sendq
  BY <1>3 DEF OutFields, OutSession
<1> HIDE DEF v
<1>5. Only(y, w, c) /\ Frame(y, w, {"out"}) /\ w.out[c] = v /\ Typed(w) BY <1>0, <1>4, OutIs
<1>6. Sound(w)
  <2>1. Alive(v) = Alive(o) /\ Alive(v) BY <1>4 DEF Alive
  <2>2. Local(c, o, y.inc[c], y.up[c], y.down[c], Asked(y, c), y.got[c]) BY <1>0, At
  <2>3. Len(v.sendq) <= SendqSize BY <1>4, <2>2 DEF Local
  <2>4. Local(c, v, y.inc[c], y.up[c], y.down[c], Asked(y, c), y.got[c]) BY <1>4, <2>1, <2>2, <2>3, OutChange
  <2> QED BY <1>0, <1>4, <2>1, <2>4, SoundOut
<1> HIDE DEF w
<1>7. w.inc = y.inc /\ w.up = y.up /\ w.down = y.down /\ w.got = y.got /\ w.cut = y.cut BY <1>5 DEF Frame, NetField
<1>8. ASSUME o.ext = "succeeded" PROVE Lined(w, NoConn)
  <2>1. Good(w) BY <1>1, <1>2, <1>8
  <2> QED BY <1>4, <1>5, <1>7, <1>8, <2>1, AuthedOrd, ZenonT(60)
<1>9. ASSUME o.ext # "succeeded" PROVE Lined(z, NoConn)
  <2> DEFINE v2 == [v EXCEPT !.sendq = <<>>]
  <2>1. Good(z) BY <1>1, <1>2, <1>9
  <2>2. /\ Only(w, z, c) /\ Frame(w, z, {"up", "out", "sent"}) /\ z.out[c] = v2
        /\ z.up[c] = IF c \in w.cut THEN w.up[c] ELSE w.up[c] \o w.out[c].sendq
    BY <1>5, <1>6, MarkIs
  <2> HIDE DEF z
  <2>3. Only(y, z, c) BY <1>5, <2>2, OnlyTwice
  <2>4. z.inc = y.inc /\ z.down = y.down /\ z.got = y.got /\ z.cut = y.cut BY <1>7, <2>2 DEF Frame, NetField
  <2>5. z.up[c] = IF c \in y.cut THEN y.up[c] ELSE y.up[c] \o o.sendq BY <1>4, <1>5, <1>7, <2>2
  <2>6. <<>> \in Seq(QueueItem) OBVIOUS
  <2>7. /\ v2 \in OutSession /\ v2.type = "s2sout" /\ v2.conn = o.conn /\ v2.incoming = o.incoming
        /\ v2.authed = v2.incoming /\ v2.ext = o.ext /\ v2.sendq = <<>>
    BY <1>4, <2>6 DEF OutFields, OutSession
  <2> HIDE DEF v2
  <2> QED BY <2>1, <2>2, <2>3, <2>4, <2>5, <2>7, AuthedOrd
<1> HIDE DEF z
<1> QED BY <1>1, <1>8, <1>9

(* <success/>: the stream is opened again before anything is sent. *)
LEMMA SuccessOrd ==
  ASSUME NEW y, NEW c \in Conn, Lined(y, c), Alive(y.out[c]), c[2] > 0, y.out[c].conn, y.inc[c].ext = "succeeded"
  PROVE  Lined(success(y, c), NoConn)
<1> DEFINE o == y.out[c]
           v == [o EXCEPT !.ext = "succeeded", !.reset = TRUE, !.type = "s2sout", !.authed = o.incoming]
           w == SetOut(y, c, v)
           x == Item("open", NoConn, TRUE)
<1>0. Good(y) /\ Sound(y) /\ Typed(y) BY DEF Lined, Good, Sound
<1>1. o \in OutSession /\ Local(c, o, y.inc[c], y.up[c], y.down[c], Asked(y, c), y.got[c]) BY <1>0, At
<1>2. success(y, c) = Up(w, c, <<x>>) BY <1>0, SuccessIs
<1>3. /\ v \in OutSession /\ v.type = "s2sout" /\ v.ext = "succeeded" /\ v.conn = o.conn /\ v.sendq = o.sendq
      /\ v.incoming = o.incoming /\ v.authed = v.incoming
  BY <1>1 DEF OutFields, OutSession
<1> HIDE DEF v
<1>4. Alive(v) = Alive(y.out[c]) BY <1>3 DEF Alive
<1>5. Local(c, v, y.inc[c], y.up[c], y.down[c], Asked(y, c), y.got[c]) BY <1>1, <1>3, OutSuccess
<1>6. Good(w) BY <1>0, <1>3, <1>4, <1>5, PutOut
<1>7. Only(y, w, c) /\ Frame(y, w, {"out"}) /\ w.out[c] = v BY <1>0, <1>3, OutIs
<1> HIDE DEF w
<1>8. w.inc = y.inc /\ w.up = y.up /\ w.down = y.down /\ w.got = y.got /\ w.cut = y.cut BY <1>7 DEF Frame, NetField
<1>9. Lined(w, NoConn) BY <1>3, <1>6, <1>7, <1>8, AuthedOrd
<1>10. Good(Up(w, c, <<x>>)) BY <1>0, <1>2, SuccessGood
<1>11. x \in UpItem(c) /\ x.t = "open" BY Items DEF Item
<1> HIDE DEF x
<1>12. Lined(Up(w, c, <<x>>), NoConn) BY <1>3, <1>7, <1>9, <1>10, <1>11, UpOrd
<1> QED BY <1>2, <1>12

-----------------------------------------------------------------------------
(* The opener of a connection that is made notes its key, that the stream  *)
(* is bidirectional, or how EXTERNAL goes.                                 *)
LEMMA NoteOrd ==
  ASSUME NEW y, NEW c \in Conn, Lined(y, NoConn), NEW v \in OutSession, Good(SetOut(y, c, v)),
         y.out[c].conn, v.conn, v.type = y.out[c].type, v.sendq = y.out[c].sendq, v.authed = y.out[c].authed,
         y.out[c].incoming => v.incoming, v.type = "s2sout" => v.incoming = y.out[c].incoming,
         v.ext = y.out[c].ext \/ (v.ext # "succeeded" /\ y.out[c].ext # "succeeded")
  PROVE  Lined(SetOut(y, c, v), NoConn)
<1> DEFINE o == y.out[c]
           i == y.inc[c]
<1>1. ASSUME OrdAt(y, c, y.routed, c = NoConn)
      PROVE  /\ Ready(v, i, y.up[c], y.down[c], c \in y.cut, c = NoConn)
             /\ InLine(c, v, y.up[c], y.down[c], y.got[c], y.routed[c[1]], y.routed[Remote(c[1])])
  <2>1. /\ Ready(o, i, y.up[c], y.down[c], c \in y.cut, c = NoConn)
        /\ InLine(c, o, y.up[c], y.down[c], y.got[c], y.routed[c[1]], y.routed[Remote(c[1])])
    BY <1>1 DEF OrdAt
  <2>2. Ready(v, i, y.up[c], y.down[c], c \in y.cut, c = NoConn) BY <2>1 DEF Ready, Told
  <2>3. InLine(c, v, y.up[c], y.down[c], y.got[c], y.routed[c[1]], y.routed[Remote(c[1])]) BY <2>1 DEF InLine
  <2> QED BY <2>2, <2>3
<1> QED BY ONLY c \in Conn, Lined(y, NoConn), v \in OutSession, Good(SetOut(y, c, v)), <1>1, OutOrd

(* initiate_dialback, *)
LEMMA InitiateOrd ==
  ASSUME NEW y, NEW c \in Conn, Lined(y, NoConn), Alive(y.out[c]), c[2] > 0, FreeAt(y, c), y.out[c].conn
  PROVE  Lined(initiate_dialback(y, c), NoConn)
<1> DEFINE o == y.out[c]
           v == [o EXCEPT !.key = TRUE]
           z == SetOut(y, c, v)
           x == Item("result", c, TRUE)
<1>0. Good(y) /\ Typed(y) BY DEF Lined, Good, Sound
<1>1. initiate_dialback(y, c) = Up(z, c, <<x>>) BY DEF initiate_dialback, SetOut
<1>2. o \in OutSession BY <1>0, OrdTypes
<1>3. /\ v \in OutSession /\ v.type = o.type /\ v.ext = o.ext /\ v.conn = o.conn /\ v.sendq = o.sendq
      /\ v.incoming = o.incoming /\ v.authed = o.authed
  BY <1>2 DEF OutFields, OutSession
<1> HIDE DEF v
<1>4. Good(z) /\ z.out[c] = v BY <1>0, <1>3, OutSame
<1>5. Lined(z, NoConn) BY <1>3, <1>4, NoteOrd
<1>6. Good(Up(z, c, <<x>>)) BY <1>0, <1>1, InitiateGood
<1>7. x \in UpItem(c) /\ x.t = "result" BY Items DEF Item
<1> HIDE DEF x, z
<1>8. Lined(Up(z, c, <<x>>), NoConn) BY <1>3, <1>4, <1>5, <1>6, <1>7, UpOrd
<1> QED BY <1>1, <1>8

(* the request for a bidirectional stream, *)
LEMMA BidiOrd ==
  ASSUME NEW y, NEW c \in Conn, Lined(y, NoConn), Alive(y.out[c]), y.out[c].conn
  PROVE  Lined(request_bidi(y, c), NoConn)
<1> DEFINE o == y.out[c]
           v == [o EXCEPT !.incoming = TRUE]
           z == SetOut(y, c, v)
           x == Item("bidi", NoConn, TRUE)
<1>0. Good(y) /\ Typed(y) BY DEF Lined, Good, Sound
<1>1. request_bidi(y, c) = IF Bidi /\ o.type = "s2sout_unauthed" THEN Up(z, c, <<x>>) ELSE y
  BY DEF request_bidi, SetOut
<1>2. o \in OutSession BY <1>0, OrdTypes
<1>3. /\ v \in OutSession /\ v.type = o.type /\ v.ext = o.ext /\ v.conn = o.conn /\ v.sendq = o.sendq
      /\ v.incoming = TRUE /\ v.authed = o.authed
  BY <1>2 DEF OutFields, OutSession
<1> HIDE DEF v
<1>4. Good(z) /\ z.out[c] = v BY <1>0, <1>3, OutSame
<1>5. ASSUME Bidi, o.type = "s2sout_unauthed" PROVE Lined(Up(z, c, <<x>>), NoConn)
  <2>1. Lined(z, NoConn) BY <1>3, <1>4, <1>5, NoteOrd
  <2>2. Good(Up(z, c, <<x>>)) BY <1>0, <1>1, <1>5, BidiGood
  <2>3. x \in UpItem(c) /\ x.t = "bidi" BY Items DEF Item
  <2> HIDE DEF x, z
  <2> QED BY <1>3, <1>4, <2>1, <2>2, <2>3, UpOrd
<1> HIDE DEF z
<1> QED BY <1>1, <1>5

(* EXTERNAL is tried, *)
LEMMA StartExternalOrd ==
  ASSUME NEW y, NEW c \in Conn, Lined(y, NoConn), Alive(y.out[c]), c[2] > 0, FreeAt(y, c), y.out[c].conn,
         NEW f \in {"attempting", "failed"}
  PROVE  LET z == SetOut(y, c, [y.out[c] EXCEPT !.ext = f]) IN
         Lined(z, NoConn) /\ z.out[c].conn
<1> DEFINE o == y.out[c]
           v == [o EXCEPT !.ext = f]
           z == SetOut(y, c, v)
<1>0. Good(y) /\ Typed(y) BY DEF Lined, Good, Sound
<1>1. o \in OutSession /\ o.ext # "succeeded" BY <1>0, OrdTypes, NotYet
<1>2. /\ v \in OutSession /\ v.type = o.type /\ v.ext # "succeeded" /\ v.conn = o.conn /\ v.sendq = o.sendq
      /\ v.incoming = o.incoming /\ v.authed = o.authed
  BY <1>1 DEF OutFields, OutSession
<1>3. Good(z) BY <1>0, ExtGood
<1> HIDE DEF v
<1>4. z.out[c] = v BY <1>0, <1>2, OutIs
<1>5. Lined(z, NoConn) BY <1>1, <1>2, <1>3, NoteOrd
<1>6. z.out[c].conn BY <1>2, <1>4
<1> QED BY <1>5, <1>6 DEF v

(* or has failed, *)
LEMMA FailureOrd ==
  ASSUME NEW y, NEW c \in Conn, Lined(y, NoConn), Alive(y.out[c]), c[2] > 0, FreeAt(y, c), y.out[c].conn
  PROVE  Lined(failure(y, c), NoConn) /\ Lined(start_external(y, c), NoConn)
<1>0. Good(y) /\ Typed(y) BY DEF Lined, Good, Sound
<1>1. Lined(failure(y, c), NoConn)
  <2> DEFINE z == SetOut(y, c, [y.out[c] EXCEPT !.ext = "failed"])
  <2>1. failure(y, c) = initiate_dialback(z, c) BY DEF failure, SetOut
  <2>2. FreeAt(z, c) /\ Alive(z.out[c]) BY <1>0, ExtGood
  <2>3. Lined(z, NoConn) /\ z.out[c].conn BY StartExternalOrd
  <2> HIDE DEF z
  <2> QED BY <2>1, <2>2, <2>3, InitiateOrd
<1>2. Lined(start_external(y, c), NoConn)
  <2> DEFINE z == SetOut(y, c, [y.out[c] EXCEPT !.ext = "attempting"])
             x == Item("auth", NoConn, TRUE)
  <2>1. start_external(y, c) = Up(z, c, <<x>>) BY DEF start_external, SetOut
  <2>2. Good(Up(z, c, <<x>>)) BY <1>0, <2>1, StartExternalGood
  <2>3. Lined(z, NoConn) /\ z.out[c].conn BY StartExternalOrd
  <2>4. x \in UpItem(c) /\ x.t = "auth" BY Items DEF Item
  <2> HIDE DEF z, x
  <2>5. Lined(Up(z, c, <<x>>), NoConn) BY <2>2, <2>3, <2>4, UpOrd
  <2> QED BY <2>1, <2>5
<1> QED BY <1>1, <1>2

(* and the features hooks together. *)
LEMMA FeaturesOrd ==
  ASSUME NEW y, NEW c \in Conn, Lined(y, NoConn), Alive(y.out[c]), c[2] > 0, y.out[c].conn,
         y.out[c].ext # "succeeded" => FreeAt(y, c), NEW offered \in BOOLEAN
  PROVE  Lined(features(y, c, offered), NoConn)
<1> DEFINE z == request_bidi(y, c)
<1>0. Good(y) BY DEF Lined
<1>1. /\ Good(z) /\ (FreeAt(y, c) => FreeAt(z, c))
      /\ z.out[c].type = y.out[c].type /\ z.out[c].conn = y.out[c].conn
  BY <1>0, BidiGood
<1>2. Lined(z, NoConn) BY BidiOrd
<1>3. \/ y.out[c].type = "s2sout" /\ features(y, c, offered) = mark_connected(z, c)
      \/ y.out[c].type # "s2sout" /\ features(y, c, offered) = start_external(z, c)
      \/ y.out[c].type # "s2sout" /\ features(y, c, offered) = initiate_dialback(z, c)
  BY DEF features
<1> HIDE DEF z
<1>4. Alive(z.out[c]) BY <1>1 DEF Alive
<1>5. y.out[c].type # "s2sout" => FreeAt(y, c) BY <1>0, At DEF Good, Local, Phase, Alive
<1> QED BY <1>1, <1>2, <1>3, <1>4, <1>5, MarkOrd, FailureOrd, InitiateOrd

(* db:result at the opener: it was let in, or closes. *)
LEMMA ResultOrd ==
  ASSUME NEW y, NEW c \in Conn, NEW x, Lined(y, IF Pass(x) THEN c ELSE NoConn), Alive(y.out[c]), y.out[c].conn,
         x.t = "dbresult", NEW again \in BOOLEAN
  PROVE  Lined(dialback_result(y, c, x, again), NoConn)
<1> DEFINE e == IF Pass(x) THEN c ELSE NoConn
<1>1. e \in {c, NoConn} OBVIOUS
<1>2. Lined(close_out(y, c, again), NoConn) BY <1>1, CloseOutOrd
<1>3. x.ok => Lined(make_authenticated_out(y, c), NoConn) BY AuthOutOrd DEF Pass
<1> QED BY <1>2, <1>3 DEF dialback_result

-----------------------------------------------------------------------------
(* The acceptor lets the opener in and tells it so, or may not write any   *)
(* more.                                                                   *)
LEMMA ReadyAccept ==
  ASSUME NEW o, NEW i, NEW u, NEW d \in Seq(ItemType), NEW k, NEW p, Ready(o, i, u, d, k, p),
         i.type = "s2sin_unauthed", NEW i2, i2.type = "s2sin", i2.authed, i2.outgoing = i.outgoing,
         i2.closing = i.closing, NEW x \in ItemType, Pass(x), o.conn
  PROVE  /\ Ready(o, i2, u, d \o <<x>>, k, p)
         /\ i.closing => Ready(o, i2, u, d, k, p)
         /\ Ready(o, i2, u, d, TRUE, p)
<1>1. Letting(i2) BY DEF Letting
<1>2. x.t # "msg" BY DEF Pass
<1>3. ~HasMsg(<<x>>) /\ HasPass(<<x>>) /\ <<x>> \in Seq(ItemType) BY <1>2, OneItem
<1>4. ~HasMsg(d) BY DEF Ready
<1>5. ~HasMsg(d \o <<x>>) /\ HasPass(d \o <<x>>) BY <1>3, <1>4, NumbersCat
<1> DEFINE w == d \o <<x>>
<1> HIDE DEF w
<1>6. ASSUME ~HasMsg(w), HasPass(w) PROVE Ready(o, i2, u, w, k, p) BY <1>1, <1>6 DEF Ready, HasMsg
<1>7. (i.closing => Ready(o, i2, u, d, k, p)) /\ Ready(o, i2, u, d, TRUE, p) BY <1>1, <1>4 DEF Ready, HasMsg
<1> QED BY <1>5, <1>6, <1>7 DEF w

(* It keeps the order, *)
LEMMA LetInOrd ==
  ASSUME NEW y, NEW c \in Conn, Lined(y, NoConn), c[2] > 0, y.inc[c].type = "s2sin_unauthed",
         NEW v \in InSession, v.type = "s2sin", v.authed, v.outgoing = y.inc[c].outgoing,
         v.closing = y.inc[c].closing, NEW w, Typed(w), Frame(y, w, {"inc", "tab"}),
         w.inc = [y.inc EXCEPT ![c] = v], NEW x \in DownItem, Pass(x), Good(Down(w, c, <<x>>))
  PROVE  Lined(Down(w, c, <<x>>), NoConn)
<1> DEFINE z == Down(w, c, <<x>>)
           i == y.inc[c]
           k == c \in y.cut
           d == y.down[c] \o <<x>>
<1>0. Typed(y) /\ Sound(y) BY DEF Lined, Good, Sound
<1>1. x \in ItemType /\ x.t # "msg" BY DEF DownItem, Pass
<1>2. <<x>> \in Seq(ItemType) /\ <<x>> \in Seq(DownItem) /\ ~HasMsg(<<x>>) BY <1>1, OneItem
<1>3. Only(w, z, c) /\ Frame(w, z, {"down"}) /\ z.down[c] = IF c \in w.cut \/ w.inc[c].closing THEN w.down[c] ELSE w.down[c] \o <<x>>
  BY ONLY Typed(w), c \in Conn, <1>2, DownIs
<1>4. Good(z) OBVIOUS
<1> HIDE DEF z
<1>5. y.inc \in [Conn -> InSession] BY <1>0, TypedFields
<1>6. w.inc[c] = v /\ \A e \in Conn : e # c => w.inc[e] = y.inc[e] BY <1>5
<1>7. Only(y, z, c)
  <2>1. Only(y, w, c) BY <1>6, FrameOnly
  <2> QED BY <1>3, <2>1, OnlyTwice
<1>8. w.out = y.out /\ w.up = y.up /\ w.down = y.down /\ w.cut = y.cut /\ w.got = y.got BY DEF Frame, NetField
<1>9. z.out = y.out /\ z.up = y.up /\ z.cut = y.cut /\ z.got = y.got /\ z.inc[c] = v
  BY <1>3, <1>6, <1>8 DEF Frame, NetField
<1>10. z.down[c] = IF k \/ i.closing THEN y.down[c] ELSE d BY <1>3, <1>6, <1>8
<1>11. y.out[c].conn BY <1>0, Attached
<1>12. ASSUME OrdAt(y, c, y.routed, c = NoConn) PROVE OrdAt(z, c, y.routed, c = NoConn)
  <2>1. Ready(y.out[c], i, y.up[c], y.down[c], k, c = NoConn) BY <1>12 DEF OrdAt
  <2>2. y.down[c] \in Seq(ItemType) BY <1>0, OrdTypes
  <2>3. /\ Ready(y.out[c], v, y.up[c], d, k, c = NoConn)
        /\ i.closing => Ready(y.out[c], v, y.up[c], y.down[c], k, c = NoConn)
        /\ Ready(y.out[c], v, y.up[c], y.down[c], TRUE, c = NoConn)
    <3>1. i.type = "s2sin_unauthed" /\ v.type = "s2sin" /\ v.authed /\ v.outgoing = i.outgoing /\ v.closing = i.closing
      OBVIOUS
    <3>2. Pass(x) OBVIOUS
    <3> QED BY ONLY <1>1, <1>11, <2>1, <2>2, <3>1, <3>2, ReadyAccept
  <2>a. k => k = TRUE OBVIOUS
  <2>4. y.routed[Remote(c[1])] \in Nat /\ <<>> \in Seq(ItemType) /\ y.got[c][c[1]] \in Seq(Nat) BY <1>0, OrdTypes
  <2>5. Line(y.got[c][c[1]], y.down[c], <<>>, y.routed[Remote(c[1])]) BY <1>12 DEF OrdAt, InLine
  <2>6. Line(y.got[c][c[1]], d, <<>>, y.routed[Remote(c[1])]) BY <1>2, <2>2, <2>4, <2>5, LineCalm
  <2> HIDE DEF d, i, k
  <2>7. Ready(y.out[c], v, y.up[c], z.down[c], k, c = NoConn) BY <1>10, <2>3, <2>a
  <2>8. Line(y.got[c][c[1]], z.down[c], <<>>, y.routed[Remote(c[1])]) BY <1>10, <2>5, <2>6
  <2>9. InLine(c, y.out[c], y.up[c], z.down[c], y.got[c], y.routed[c[1]], y.routed[Remote(c[1])])
    BY <1>12, <2>8 DEF OrdAt, InLine
  <2> QED BY <1>9, <2>7, <2>9 DEF OrdAt, k
<1>13. Lined(z, NoConn) BY <1>4, <1>7, <1>12, LinedOnly
<1> QED BY <1>13 DEF z

(* by EXTERNAL *)
LEMMA AcceptOrd ==
  ASSUME NEW y, NEW c \in Conn, Lined(y, NoConn), LiveIn(y, c), c[2] > 0, FreeAt(y, c)
  PROVE  Lined(make_authenticated_in(Down([y EXCEPT !.inc[c].ext = "succeeded"], c,
                                          <<Item("success", NoConn, TRUE)>>), c), NoConn)
<1> DEFINE i == y.inc[c]
           g == Remote(c[1])
           v == [i EXCEPT !.ext = "succeeded", !.type = "s2sin", !.authed = TRUE]
           t == IF i.outgoing /\ y.tab[g] = NoConn THEN c ELSE y.tab[g]
           w == SetTab(SetIn(y, c, v), g, t)
           x == Item("success", NoConn, TRUE)
           z == make_authenticated_in(Down([y EXCEPT !.inc[c].ext = "succeeded"], c, <<x>>), c)
<1>0. Good(y) /\ Typed(y) BY DEF Lined, Good, Sound
<1>1. z = Down(w, c, <<x>>) BY <1>0, AcceptIs
<1>2. Good(z) BY <1>0, AcceptGood
<1>3. i \in InSession /\ i.type = "s2sin_unauthed" BY <1>0, OrdTypes DEF LiveIn, FreeAt, NoStep, Accepted
<1>4. /\ v \in InSession /\ v.type = "s2sin" /\ v.authed /\ v.outgoing = i.outgoing /\ v.closing = i.closing
      /\ v.ext = "succeeded" /\ (i.outgoing => Usable(v))
  BY <1>3 DEF InSession, Usable
<1> HIDE DEF v, z
<1>5. Typed(w)
  <2>1. Local(c, y.out[c], i, y.up[c], y.down[c], Asked(y, c), y.got[c]) BY <1>0, At DEF Good
  <2>2. Local(c, y.out[c], v, y.up[c], y.down[c], Asked(y, c), y.got[c]) BY <1>3, <1>4, <2>1, InAuth DEF FreeAt
  <2>3. y.tab[g] = c => i.outgoing
    <3>1. g \in Host /\ g # c[1] /\ c # NoConn BY Conns, Hosts
    <3> QED BY <1>0, <3>1 DEF Good, Sound, Routes, Usable
  <2>4. (t = c /\ y.tab[g] = NoConn /\ Usable(v)) \/ (t = y.tab[g] /\ (y.tab[g] = c => Usable(v))) BY <1>4, <2>3
  <2> HIDE DEF t
  <2>5. Good(w) BY <1>0, <1>4, <2>2, <2>4, PutInAndTab
  <2> QED BY <2>5 DEF Good, Sound
<1>6. Frame(y, w, {"inc", "tab"}) /\ w.inc = [y.inc EXCEPT ![c] = v] BY <1>0, <1>4, InTabIs
<1>7. x \in DownItem /\ Pass(x) BY Items DEF Item, Pass
<1> HIDE DEF w, x
<1>8. Good(Down(w, c, <<x>>)) BY <1>1, <1>2
<1>9. Lined(Down(w, c, <<x>>), NoConn) BY <1>3, <1>4, <1>5, <1>6, <1>7, <1>8, LetInOrd
<1>10. Lined(z, NoConn) BY <1>1, <1>9
<1> QED BY <1>10 DEF z, x

(* Its stream is reset. *)
LEMMA ResetStreamOrd ==
  ASSUME NEW y, NEW c \in Conn, Lined(y, NoConn)
  PROVE  Lined(reset_stream(y, c), NoConn)
<1> DEFINE v == [y.inc[c] EXCEPT !.notopen = TRUE]
           z == reset_stream(y, c)
<1>1. /\ v \in InSession /\ v.type = y.inc[c].type /\ v.outgoing = y.inc[c].outgoing
      /\ v.authed = y.inc[c].authed /\ v.closing = y.inc[c].closing
      /\ Good(z) /\ Frame(y, z, {"inc"}) /\ z.inc = [y.inc EXCEPT ![c] = v]
  BY ResetStreamGood DEF Lined
<1> HIDE DEF v, z
<1>2. Frame(y, z, {"inc", "tab"}) BY <1>1 DEF Frame
<1>3. ASSUME Ready(y.out[c], y.inc[c], y.up[c], y.down[c], c \in y.cut, c = NoConn)
      PROVE  Ready(y.out[c], v, y.up[c], y.down[c], c \in y.cut, c = NoConn)
  BY <1>1, <1>3 DEF Ready, Letting
<1>4. Lined(z, NoConn) BY <1>1, <1>2, <1>3, InOrd
<1> QED BY <1>4 DEF z

(* or whatever s2s_external_auth answers, *)
LEMMA ExternalOrd ==
  ASSUME NEW y, NEW c \in Conn, Lined(y, NoConn), LiveIn(y, c), c[2] > 0 => FreeAt(y, c), NEW accept \in BOOLEAN
  PROVE  Lined(s2s_external_auth(y, c, accept), NoConn)
<1> DEFINE z == make_authenticated_in(Down([y EXCEPT !.inc[c].ext = "succeeded"], c,
                                           <<Item("success", NoConn, TRUE)>>), c)
           x == Item("failure", NoConn, TRUE)
<1>0. Good(y) BY DEF Lined
<1>1. s2s_external_auth(y, c, accept) = IF y.inc[c].ext # "offered" THEN close_in(y, c)
                                        ELSE IF accept THEN reset_stream(z, c) ELSE Down(y, c, <<x>>)
  BY DEF s2s_external_auth
<1>2. Lined(close_in(y, c), NoConn) BY CloseInOrd
<1>3. y.inc[c].ext = "offered" => c[2] > 0 BY <1>0, At, Conns DEF Good, Local, Claim
<1>9. y.inc[c].ext = "offered" => Lined(z, NoConn) BY <1>3, AcceptOrd
<1>4. y.inc[c].ext = "offered" => Lined(reset_stream(z, c), NoConn) BY <1>9, ResetStreamOrd
<1>5. x \in DownItem /\ x.t = "failure" BY Items DEF Item
<1> HIDE DEF x, z
<1>6. c[2] > 0 => y.out[c].conn BY <1>0, Attached DEF Good, LiveIn
<1>7. Good(Down(y, c, <<x>>)) BY <1>0, <1>5, <1>6, DownGood
<1>8. Lined(Down(y, c, <<x>>), NoConn) BY <1>5, <1>7, DownOrd DEF Pass
<1> QED BY <1>1, <1>2, <1>4, <1>8

(* or by the authoritative server's answer. *)
LEMMA VerifiedOrd ==
  ASSUME NEW y, Lined(y, NoConn), NEW h \in Host, NEW x \in DownItem, x.t \in {"verified", "verify"}
  PROVE  Lined(dialback_verified(y, h, x), NoConn)
<1> DEFINE c == x.c
           w == SetReq(y, Remote(c[1]), y.req[Remote(c[1])] \ {c})
           a == make_authenticated_in(w, c)
           m == Item("dbresult", c, x.ok)
<1>0. Good(y) BY DEF Lined
<1> SUFFICES ASSUME c \in y.req[h] PROVE Lined(dialback_verified(y, h, x), NoConn) BY DEF dialback_verified
<1>1. c \in Conn /\ x.ok \in BOOLEAN /\ (c[2] = 0 => ~x.ok) BY DEF DownItem, ItemType, Unforged
<1>2. Good(dialback_verified(y, h, x)) BY <1>0, VerifiedGood
<1> HIDE DEF c
<1>3. c[1] \in Host /\ c[2] \in Nat BY <1>1, Conns
<1>4. h = Remote(c[1])
  <2>1. c[1] # h BY <1>0, <1>1, At DEF Good
  <2> QED BY <1>3, <2>1, Hosts
<1>5. Asked(y, c) BY <1>4 DEF Asked
<1>6. Good(w) /\ Frame(y, w, {"req"}) /\ (c[2] > 0 => FreeAt(w, c)) BY <1>0, <1>1, <1>5, AnswerGood
<1>7. dialback_verified(y, h, x) =
        IF x.ok THEN IF LiveIn(a, c) THEN Down(a, c, <<m>>) ELSE a
                ELSE IF LiveIn(w, c) THEN Down(w, c, <<m>>) ELSE w
  BY <1>4 DEF dialback_verified, SetReq, c
<1> HIDE DEF w
<1>8. Lined(w, NoConn)
  <2>1. Frame(y, w, {"req", "sent", "bounced", "overflow", "tab", "routed", "certs"}) BY <1>6 DEF Frame
  <2>2. w.routed = y.routed BY <1>6 DEF Frame, NetField
  <2>3. Ord(w, y.routed, NoConn) BY <2>1, OrdSame DEF Lined
  <2> QED BY <1>6, <2>2, <2>3 DEF Lined
<1>9. m \in DownItem /\ m.t = "dbresult" /\ m.ok = x.ok BY <1>1, Items DEF Item
<1> HIDE DEF m
<1>10. ASSUME ~x.ok, LiveIn(w, c) PROVE Lined(Down(w, c, <<m>>), NoConn)
  <2>1. Good(Down(w, c, <<m>>)) BY <1>2, <1>7, <1>10
  <2> QED BY <1>1, <1>8, <1>9, <1>10, <2>1, DownOrd DEF Pass
<1>11. ASSUME x.ok, LiveIn(a, c) PROVE Lined(Down(a, c, <<m>>), NoConn)
  <2> DEFINE i == w.inc[c]
             g == Remote(c[1])
             v == [i EXCEPT !.type = "s2sin", !.authed = TRUE]
             t == IF i.outgoing /\ w.tab[g] = NoConn THEN c ELSE w.tab[g]
             b == SetTab(SetIn(w, c, v), g, t)
  <2>1. c[2] > 0 BY <1>1, <1>3, <1>11
  <2>2. a = IF ~LiveIn(w, c) THEN w ELSE b BY DEF make_authenticated_in, SetTab, SetIn
  <2>3. LiveIn(w, c) /\ a = b BY <1>11, <2>2
  <2>4. Good(a) BY <1>1, <1>6, <2>1, AuthInGood
  <2>5. Good(Down(a, c, <<m>>)) BY <1>2, <1>7, <1>11
  <2>6. Typed(w) /\ Typed(a) BY <1>6, <2>4 DEF Good, Sound
  <2>7. i \in InSession /\ i.type = "s2sin_unauthed"
    BY <1>1, <1>6, <2>1, <2>3, <2>6, OrdTypes DEF LiveIn, FreeAt, NoStep, Accepted
  <2>8. v \in InSession /\ v.type = "s2sin" /\ v.authed /\ v.outgoing = i.outgoing /\ v.closing = i.closing
    BY <2>7 DEF InSession
  <2> HIDE DEF v, t
  <2>9. Frame(w, b, {"inc", "tab"}) /\ b.inc = [w.inc EXCEPT ![c] = v] BY <1>1, <2>6, <2>8, InTabIs
  <2> HIDE DEF a, b
  <2>10. Pass(m) BY <1>9, <1>11 DEF Pass
  <2> QED BY <1>1, <1>8, <1>9, <2>1, <2>3, <2>5, <2>6, <2>7, <2>8, <2>9, <2>10, LetInOrd
<1>12. ASSUME x.ok, ~LiveIn(a, c) PROVE Lined(a, NoConn)
  <2>1. c \in Conn /\ c[2] > 0 BY <1>1, <1>3, <1>12
  <2>2. ~LiveIn(w, c)
    <3> SUFFICES ASSUME LiveIn(w, c) PROVE FALSE OBVIOUS
    <3>1. w.inc \in [Conn -> InSession] /\ IsNet(w) BY <1>6, TypedFields DEF Good, Sound, Typed
    <3>2. a.inc[c].type = "s2sin"
      BY <2>1, <3>1 DEF make_authenticated_in, IsNet, NetField, InSession
    <3> QED BY <1>12, <3>2 DEF LiveIn
  <2>3. a = w BY <2>2 DEF make_authenticated_in
  <2> QED BY <1>8, <2>3
<1> HIDE DEF a
<1> QED BY <1>1, <1>7, <1>8, <1>10, <1>11, <1>12

(* The acceptor notes what takes nothing back from the opener. *)
LEMMA NoteInOrd ==
  ASSUME NEW y, NEW c \in Conn, Lined(y, NoConn), NEW v \in InSession, Good(SetIn(y, c, v)),
         v.type = y.inc[c].type, v.closing = y.inc[c].closing, c[2] > 0 => y.out[c].conn,
         v.outgoing = y.inc[c].outgoing \/ (c[2] > 0 => y.out[c].incoming),
         v.authed = y.inc[c].authed \/ v.type # "s2sin"
  PROVE  Lined(SetIn(y, c, v), NoConn)
<1> DEFINE z == SetIn(y, c, v)
<1>0. Typed(y) BY DEF Lined, Good, Sound
<1>1. Frame(y, z, {"inc"}) /\ z.inc = [y.inc EXCEPT ![c] = v] BY <1>0, SetInFields
<1>2. Good(z) OBVIOUS
<1> HIDE DEF z
<1>3. Frame(y, z, {"inc", "tab"}) BY <1>1 DEF Frame
<1>4. ASSUME c[2] > 0, Ready(y.out[c], y.inc[c], y.up[c], y.down[c], c \in y.cut, c = NoConn)
      PROVE  Ready(y.out[c], v, y.up[c], y.down[c], c \in y.cut, c = NoConn)
  <2>1. Letting(v) = Letting(y.inc[c]) BY DEF Letting
  <2> QED BY <1>4, <2>1 DEF Ready
<1>5. Lined(z, NoConn) BY <1>1, <1>2, <1>3, <1>4, InOrd
<1> QED BY <1>5 DEF z

(* db:result at the acceptor, *)
LEMMA RequestOrd ==
  ASSUME NEW y, NEW c \in Conn, Lined(y, NoConn), LiveIn(y, c), c[2] > 0 => FreeAt(y, c),
         NEW x \in UpItem(c), x.t = "result"
  PROVE  Lined(dialback_request(y, c, x), NoConn)
<1> DEFINE g == Remote(c[1])
           i == y.inc[c]
           w == SetReq(y, g, y.req[g] \union {c})
           v == [i EXCEPT !.authed = FALSE]
           z == SetIn(w, c, v)
           m == Item("verify", c, x.ok)
<1>0. Good(y) BY DEF Lined
<1>1. g \in Host /\ c[2] \in Nat BY Conns, Hosts
<1>2. c[2] > 0 => y.out[c].conn BY <1>0, Attached DEF Good, LiveIn
<1>3. Good(w) /\ Frame(y, w, {"req"}) BY <1>0, <1>2, AskGood
<1>4. dialback_request(y, c, x) = route(z, g, m)
  BY <1>0, TypedFields DEF dialback_request, SetIn, SetReq, Good, Sound, Typed, IsNet, NetField
<1>5. i \in InSession /\ i.type = "s2sin_unauthed" /\ ~Usable(i)
  <2>1. i \in InSession /\ Local(c, y.out[c], i, y.up[c], y.down[c], Asked(y, c), y.got[c]) BY <1>0, At DEF Good
  <2>2. CASE c[2] > 0 BY <2>1, <2>2 DEF FreeAt, NoStep, Accepted, Usable, LiveIn
  <2>3. CASE c[2] = 0 BY <2>1, <2>3 DEF Local, Claim, Usable, LiveIn
  <2> QED BY <1>1, <2>1, <2>2, <2>3
<1>6. v \in InSession /\ v.type = i.type /\ v.ext = i.ext /\ v.outgoing = i.outgoing /\ v.closing = i.closing
  BY <1>5 DEF InSession
<1> HIDE DEF w, v
<1>7. w.inc = y.inc /\ w.routed = y.routed /\ w.out = y.out BY <1>3 DEF Frame, NetField
<1>8. Local(c, w.out[c], i, w.up[c], w.down[c], Asked(w, c), w.got[c]) BY <1>3, <1>7, At DEF Good
<1>9. Local(c, w.out[c], v, w.up[c], w.down[c], Asked(w, c), w.got[c]) BY <1>6, <1>8, InChange
<1>10. Good(z) BY <1>3, <1>5, <1>6, <1>7, <1>9, PutIn
<1>11. Lined(w, NoConn)
  <2>1. Frame(y, w, {"req", "sent", "bounced", "overflow", "tab", "routed", "certs"}) BY <1>3 DEF Frame
  <2>2. Ord(w, y.routed, NoConn) BY <2>1, OrdSame DEF Lined
  <2> QED BY <1>3, <1>7, <2>2 DEF Lined
<1>12. Lined(z, NoConn) BY <1>2, <1>5, <1>6, <1>7, <1>10, <1>11, NoteInOrd
<1>13. m \in QueueItem /\ m.t = "verify"
  BY <1>1 DEF QueueItem, ItemType, Unforged, Item, UpItem
<1> HIDE DEF z, m
<1>14. Lined(route(z, g, m), NoConn) BY <1>1, <1>12, <1>13, VerifyOrd
<1> QED BY <1>4, <1>14

(* the request for a bidirectional stream, *)
LEMMA AcceptBidiOrd ==
  ASSUME NEW y, NEW c \in Conn, Lined(y, NoConn), LiveIn(y, c), c[2] > 0 => y.out[c].incoming
  PROVE  Lined(accept_bidi(y, c), NoConn)
<1> DEFINE i == y.inc[c]
           v == [i EXCEPT !.outgoing = @ \/ i.type = "s2sin_unauthed"]
<1>0. Good(y) BY DEF Lined
<1>1. accept_bidi(y, c) = SetIn(y, c, v) BY DEF accept_bidi, SetIn
<1>2. i \in InSession BY <1>0, At DEF Good
<1>3. v \in InSession /\ v.type = i.type /\ v.authed = i.authed /\ v.closing = i.closing BY <1>2 DEF InSession
<1>4. Good(accept_bidi(y, c)) BY <1>0, AcceptBidiGood
<1>5. c[2] > 0 => y.out[c].conn BY <1>0, Attached DEF Good, LiveIn
<1> HIDE DEF v
<1>6. Good(SetIn(y, c, v)) BY <1>1, <1>4
<1> QED BY <1>1, <1>3, <1>5, <1>6, NoteInOrd

(* the opening of the stream, *)
LEMMA StreamOpenedOrd ==
  ASSUME NEW y, NEW c \in Conn, Lined(y, NoConn), LiveIn(y, c),
         c[2] > 0 /\ y.out[c].ext # "succeeded" => FreeAt(y, c)
  PROVE  Lined(streamopened(y, c), NoConn)
<1> DEFINE i == y.inc[c]
           offer == c[2] # 0 /\ c[1] \in y.certs /\ i.type = "s2sin_unauthed"
           v == [i EXCEPT !.ext = IF offer THEN "offered" ELSE @, !.notopen = FALSE]
           z == SetIn(y, c, v)
           x == Item("features", NoConn, offer)
<1>0. Good(y) BY DEF Lined
<1>1. streamopened(y, c) = Down(z, c, <<x>>) BY DEF streamopened, SetIn
<1>2. i \in InSession /\ Local(c, y.out[c], i, y.up[c], y.down[c], Asked(y, c), y.got[c]) BY <1>0, At DEF Good
<1>3. /\ v \in InSession /\ v.type = i.type /\ (Usable(i) => Usable(v)) /\ v.outgoing = i.outgoing
      /\ v.ext = i.ext \/ (v.ext = "offered" /\ i.type = "s2sin_unauthed" /\ c[2] # 0)
      /\ v.authed = i.authed /\ v.closing = i.closing
  BY <1>2 DEF InSession, Usable
<1>4. Good(streamopened(y, c)) BY <1>0, StreamOpenedGood
<1>5. x \in DownItem /\ x.t = "features"
  <2>1. offer \in BOOLEAN OBVIOUS
  <2> QED BY <2>1, Items DEF Item
<1> HIDE DEF v, offer, x
<1>6. Local(c, y.out[c], v, y.up[c], y.down[c], Asked(y, c), y.got[c]) BY <1>2, <1>3, InChange
<1>7. Good(z) BY <1>0, <1>3, <1>6, PutIn
<1>8. c[2] > 0 => y.out[c].conn BY <1>0, Attached DEF Good, LiveIn
<1>9. Lined(z, NoConn) BY <1>3, <1>7, <1>8, NoteInOrd
<1>10. Good(Down(z, c, <<x>>)) BY <1>1, <1>4
<1> HIDE DEF z
<1>11. Lined(Down(z, c, <<x>>), NoConn) BY <1>5, <1>9, <1>10, DownOrd DEF Pass
<1> QED BY <1>1, <1>11

(* and db:verify at the authoritative server. *)
LEMMA AnswerOrd ==
  ASSUME NEW y, NEW c \in Conn, Lined(y, NoConn), LiveIn(y, c), NEW x \in UpItem(c), x.t = "verify"
  PROVE  Lined(verify_dialback(y, c, x), NoConn)
<1> DEFINE m == Item("verified", x.c, x.ok)
<1>1. m \in DownItem /\ m.t = "verified" BY DEF UpItem, DownItem, ItemType, Unforged, Item
<1>2. verify_dialback(y, c, x) = Down(y, c, <<m>>) BY DEF verify_dialback
<1>3. Good(verify_dialback(y, c, x)) BY VerifyGood DEF Lined
<1> HIDE DEF m
<1>4. Good(Down(y, c, <<m>>)) BY <1>2, <1>3
<1>5. Lined(Down(y, c, <<m>>), NoConn) BY <1>1, <1>4, DownOrd DEF Pass
<1> QED BY <1>2, <1>5

-----------------------------------------------------------------------------
(* The acceptor reads an item: a stanza finds it ready, *)
LEMMA ReadUpOrd ==
  ASSUME NEW y, NEW c \in Conn, Lined(y, NoConn), y.up[c] # <<>>,
         NEW z, Good(z), z = SetUp(y, c, Tail(y.up[c]))
  PROVE  /\ Lined(z, NoConn)
         /\ c[2] > 0 /\ Head(y.up[c]).t = "msg" => Letting(y.inc[c])
         /\ c[2] > 0 /\ Head(y.up[c]).t = "bidi" => y.out[c].incoming
<1> DEFINE u == y.up[c]
           t == Tail(u)
<1>0. Typed(y) BY DEF Lined, Good, Sound
<1>1. u \in Seq(ItemType) /\ t \in Seq(ItemType) BY <1>0, OrdTypes, TailDomain
<1> HIDE DEF t
<1>2. Frame(y, z, {"up"}) /\ z.up = [y.up EXCEPT ![c] = t] BY <1>0, <1>1, SetUpFields DEF t
<1>3. y.up \in [Conn -> Seq(ItemType)] BY <1>0, TypedFields
<1>4. z.up[c] = t /\ \A d \in Conn : d # c => z.up[d] = y.up[d] BY <1>2, <1>3
<1>5. Only(y, z, c) BY <1>2, <1>4, FrameOnly
<1>6. z.out = y.out /\ z.inc = y.inc /\ z.down = y.down /\ z.cut = y.cut /\ z.got = y.got BY <1>2 DEF Frame, NetField
<1>7. ASSUME OrdAt(y, c, y.routed, c = NoConn)
      PROVE  /\ OrdAt(z, c, y.routed, c = NoConn)
             /\ Head(u).t = "msg" => Letting(y.inc[c])
             /\ Head(u).t = "bidi" => y.out[c].incoming
  <2>1. /\ Ready(y.out[c], y.inc[c], t, y.down[c], c \in y.cut, c = NoConn)
        /\ Head(u).t = "msg" => Letting(y.inc[c])
        /\ Head(u).t = "bidi" => y.out[c].incoming
    <3>1. Ready(y.out[c], y.inc[c], u, y.down[c], c \in y.cut, c = NoConn) /\ u # <<>> BY <1>7 DEF OrdAt
    <3> QED BY ONLY <1>1, <3>1, ReadyUpTail DEF t
  <2>2. y.routed[c[1]] \in Nat /\ y.out[c].sendq \in Seq(ItemType) /\ y.got[c][Remote(c[1])] \in Seq(Nat)
    BY <1>0, OrdTypes
  <2>3. y.out[c].ext # "succeeded" => Line(y.got[c][Remote(c[1])], t, y.out[c].sendq, y.routed[c[1]])
    BY <1>1, <1>7, <2>2, LineTake DEF OrdAt, InLine, t
  <2> HIDE DEF u
  <2>4. InLine(c, y.out[c], t, y.down[c], y.got[c], y.routed[c[1]], y.routed[Remote(c[1])])
    BY <1>7, <2>3 DEF OrdAt, InLine
  <2> QED BY <1>4, <1>6, <2>1, <2>4 DEF OrdAt
<1>8. Lined(z, NoConn) BY <1>5, <1>7, LinedOnly
<1>9. c[2] > 0 => OrdAt(y, c, y.routed, c = NoConn) BY DEF Lined, Ord
<1> QED BY <1>7, <1>8, <1>9

(* and the opener, which may be told that it was let in. *)
LEMMA ReadDownOrd ==
  ASSUME NEW y, NEW c \in Conn, Lined(y, NoConn), c[2] > 0, y.down[c] # <<>>,
         NEW z, Good(z), z = SetDown(y, c, Tail(y.down[c]))
  PROVE  /\ Lined(z, IF Pass(Head(y.down[c])) THEN c ELSE NoConn)
         /\ Head(y.down[c]).t = "msg" => y.out[c].type \in {"s2sout", "s2s_destroyed"} /\ y.out[c].incoming
<1> DEFINE u == y.down[c]
           t == Tail(u)
           x == Head(u)
           f == IF Pass(x) THEN c ELSE NoConn
<1>0. Typed(y) BY DEF Lined, Good, Sound
<1>1. u \in Seq(ItemType) /\ t \in Seq(ItemType) /\ t \in Seq(DownItem) BY <1>0, OrdTypes, TailDomain
<1> HIDE DEF t, x
<1>2. Frame(y, z, {"down"}) /\ z.down = [y.down EXCEPT ![c] = t] BY <1>0, <1>1, SetDownFields DEF t
<1>3. y.down \in [Conn -> Seq(DownItem)] BY <1>0, TypedFields
<1>4. z.down[c] = t /\ \A d \in Conn : d # c => z.down[d] = y.down[d] BY <1>2, <1>3
<1>5. Only(y, z, c) BY <1>2, <1>4, FrameOnly
<1>6. z.out = y.out /\ z.inc = y.inc /\ z.up = y.up /\ z.cut = y.cut /\ z.got = y.got BY <1>2 DEF Frame, NetField
<1>7. c # NoConn /\ (c = NoConn) = FALSE /\ f \in {c, NoConn} /\ (c = f) = Pass(x) BY Conns DEF Pass
<1> HIDE DEF f
<1>8. OrdAt(y, c, y.routed, FALSE) BY <1>7 DEF Lined, Ord
<1>9. /\ Ready(y.out[c], y.inc[c], y.up[c], t, c \in y.cut, Pass(x))
      /\ x.t = "msg" => y.out[c].type \in {"s2sout", "s2s_destroyed"} /\ y.out[c].incoming
  <2>1. Ready(y.out[c], y.inc[c], y.up[c], u, c \in y.cut, FALSE) /\ u # <<>> BY <1>8 DEF OrdAt
  <2> QED BY ONLY <1>1, <2>1, ReadyDownTail DEF t, x
<1>10. Line(y.got[c][c[1]], t, <<>>, y.routed[Remote(c[1])])
  <2>1. y.routed[Remote(c[1])] \in Nat /\ <<>> \in Seq(ItemType) /\ y.got[c][c[1]] \in Seq(Nat) BY <1>0, OrdTypes
  <2>2. Line(y.got[c][c[1]], u, <<>>, y.routed[Remote(c[1])]) BY <1>8 DEF OrdAt, InLine
  <2> QED BY <1>1, <2>1, <2>2, LineTake DEF t
<1> HIDE DEF u
<1>11. OrdAt(z, c, y.routed, c = f)
  <2>1. InLine(c, y.out[c], y.up[c], t, y.got[c], y.routed[c[1]], y.routed[Remote(c[1])])
    BY <1>8, <1>10 DEF OrdAt, InLine
  <2>2. OrdAt(z, c, y.routed, Pass(x)) BY <1>4, <1>6, <1>9, <2>1 DEF OrdAt
  <2> QED BY <1>7, <2>2
<1>12. Lined(z, f)
  <2>1. Good(z) /\ Lined(y, NoConn) /\ NoConn \in {c, NoConn} OBVIOUS
  <2>2. f \in {c, NoConn} BY <1>7
  <2> QED BY ONLY <1>5, <1>11, <2>1, <2>2, c \in Conn, LinedOnly
<1> QED BY <1>9, <1>12 DEF f, x, u

(* What is taken on c only matters there. *)
LEMMA GotIs ==
  ASSUME NEW y, Typed(y), NEW c \in Conn, NEW r \in Host, NEW n \in Nat
  PROVE  LET v == [y.got[c] EXCEPT ![r] = Append(@, n)]
             z == SetGot(y, c, v) IN
         /\ v \in [Host -> Seq(Nat)] /\ v[r] = Append(y.got[c][r], n) /\ \A h \in Host : h # r => v[h] = y.got[c][h]
         /\ Only(y, z, c) /\ Frame(y, z, {"got"}) /\ z.got[c] = v
<1> DEFINE v == [y.got[c] EXCEPT ![r] = Append(@, n)]
           z == SetGot(y, c, v)
<1>1. y.got \in [Conn -> [Host -> Seq(Nat)]] /\ IsNet(y) BY TypedFields DEF Typed
<1>2. v \in [Host -> Seq(Nat)] /\ v[r] = Append(y.got[c][r], n) /\ \A h \in Host : h # r => v[h] = y.got[c][h]
  BY <1>1
<1> HIDE DEF v
<1>3. Frame(y, z, {"got"}) /\ z.got = [y.got EXCEPT ![c] = v] BY <1>1 DEF Frame, IsNet, NetField, SetGot
<1> HIDE DEF z
<1>4. z.got[c] = v /\ \A d \in Conn : d # c => z.got[d] = y.got[d] BY <1>1, <1>3
<1>5. Only(y, z, c) BY <1>3, <1>4 DEF Only, Frame, NetField
<1> QED BY <1>2, <1>3, <1>4, <1>5 DEF v, z

(* The acceptor takes a stanza. *)
LEMMA TakeUpOrd ==
  ASSUME NEW y, NEW c \in Conn, Lined(y, NoConn), c[2] > 0, y.up[c] # <<>>, Head(y.up[c]).t = "msg",
         NEW w, Lined(w, NoConn), w = SetUp(y, c, Tail(y.up[c])), Head(y.up[c]).n \in Nat
  PROVE  Lined(SetGot(w, c, [w.got[c] EXCEPT ![Remote(c[1])] = Append(@, Head(y.up[c]).n)]), NoConn)
<1> DEFINE r == Remote(c[1])
           u == y.up[c]
           n == Head(u).n
           v == [w.got[c] EXCEPT ![r] = Append(@, n)]
           z == SetGot(w, c, v)
<1>0. Typed(y) /\ Typed(w) /\ Good(w) BY DEF Lined, Good, Sound
<1>0a. OrdAt(y, c, y.routed, c = NoConn) BY Zenon DEF Lined, Ord
<1>1. r \in Host /\ c[1] \in Host /\ c[1] # r /\ n \in Nat BY Conns, Hosts
<1> HIDE DEF r, n
<1>2. /\ v \in [Host -> Seq(Nat)] /\ v[r] = Append(w.got[c][r], n) /\ \A h \in Host : h # r => v[h] = w.got[c][h]
      /\ Only(w, z, c) /\ Frame(w, z, {"got"}) /\ z.got[c] = v
  BY ONLY <1>0, <1>1, c \in Conn, GotIs
<1> HIDE DEF v
<1>3. Good(z)
  <2>1. c[2] # 0 OBVIOUS
  <2> HIDE DEF z
  <2> QED BY ONLY c \in Conn, <1>0, <1>2, <2>1, GotGood DEF z
<1> HIDE DEF z
<1>4. u \in Seq(ItemType) /\ Tail(u) \in Seq(ItemType)
  <2>1. u \in Seq(ItemType) /\ u # <<>> BY <1>0, OrdTypes
  <2> QED BY ONLY <2>1, TailDomain
<1>5. Frame(y, w, {"up"}) /\ w.up = [y.up EXCEPT ![c] = Tail(u)]
  BY ONLY c \in Conn, w = SetUp(y, c, Tail(y.up[c])), <1>0, <1>4, SetUpFields
<1>6. w.up[c] = Tail(u) /\ w.got = y.got /\ w.routed = y.routed /\ w.out = y.out
  BY ONLY c \in Conn, <1>0, <1>5, TypedFields DEF Frame, NetField
<1>7. z.out = w.out /\ z.inc = w.inc /\ z.up = w.up /\ z.down = w.down /\ z.cut = w.cut BY <1>2 DEF Frame, NetField
<1>8. y.out[c].ext # "succeeded" => Line(v[r], Tail(u), y.out[c].sendq, y.routed[c[1]])
  <2>1. y.routed[c[1]] \in Nat /\ y.out[c].sendq \in Seq(ItemType) /\ y.got[c][r] \in Seq(Nat)
    BY ONLY c \in Conn, <1>0, OrdTypes DEF r
  <2>2. y.out[c].ext # "succeeded" => Line(y.got[c][r], u, y.out[c].sendq, y.routed[c[1]])
    <3>1. InLine(c, y.out[c], u, y.down[c], y.got[c], y.routed[c[1]], y.routed[r]) BY ONLY <1>0a DEF OrdAt, r
    <3> HIDE DEF u
    <3> QED BY ONLY <3>1 DEF InLine, r
  <2>3. v[r] = Append(y.got[c][r], n) BY <1>2, <1>6
  <2>4. u # <<>> /\ Head(u).t = "msg" OBVIOUS
  <2> QED BY ONLY <1>4, <2>1, <2>2, <2>3, <2>4, LineTake DEF n
<1> HIDE DEF u
<1>9. ASSUME OrdAt(w, c, w.routed, c = NoConn) PROVE OrdAt(z, c, w.routed, c = NoConn)
  <2>1. v[c[1]] = w.got[c][c[1]] BY <1>1, <1>2
  <2> QED BY ONLY <1>2, <1>6, <1>7, <1>8, <1>9, <2>1 DEF OrdAt, InLine, r
<1>10. Lined(z, NoConn)
  <2>1. Lined(w, NoConn) /\ NoConn \in {c, NoConn} OBVIOUS
  <2> QED BY ONLY c \in Conn, <1>2, <1>3, <1>9, <2>1, LinedOnly
<1> QED BY <1>10 DEF z, v, r, n, u

(* The opener takes one. *)
LEMMA TakeDownOrd ==
  ASSUME NEW y, NEW c \in Conn, Lined(y, NoConn), c[2] > 0, y.down[c] # <<>>, Head(y.down[c]).t = "msg",
         NEW w, Lined(w, NoConn), w = SetDown(y, c, Tail(y.down[c])), Head(y.down[c]).n \in Nat
  PROVE  Lined(SetGot(w, c, [w.got[c] EXCEPT ![c[1]] = Append(@, Head(y.down[c]).n)]), NoConn)
<1> DEFINE r == c[1]
           u == y.down[c]
           n == Head(u).n
           v == [w.got[c] EXCEPT ![r] = Append(@, n)]
           z == SetGot(w, c, v)
<1>0. Typed(y) /\ Typed(w) /\ Good(w) BY DEF Lined, Good, Sound
<1>0a. OrdAt(y, c, y.routed, c = NoConn) BY Zenon DEF Lined, Ord
<1>1. r \in Host /\ Remote(r) \in Host /\ Remote(r) # r /\ n \in Nat BY Conns, Hosts
<1> HIDE DEF r, n
<1>2. /\ v \in [Host -> Seq(Nat)] /\ v[r] = Append(w.got[c][r], n) /\ \A h \in Host : h # r => v[h] = w.got[c][h]
      /\ Only(w, z, c) /\ Frame(w, z, {"got"}) /\ z.got[c] = v
  BY ONLY <1>0, <1>1, c \in Conn, GotIs
<1> HIDE DEF v
<1>3. Good(z)
  <2>1. c[2] # 0 OBVIOUS
  <2> HIDE DEF z
  <2> QED BY ONLY c \in Conn, <1>0, <1>2, <2>1, GotGood DEF z
<1> HIDE DEF z
<1>4. u \in Seq(ItemType) /\ Tail(u) \in Seq(DownItem)
  <2>1. u \in Seq(ItemType) /\ u \in Seq(DownItem) /\ u # <<>> BY <1>0, OrdTypes
  <2> QED BY ONLY <2>1, TailDomain
<1>5. Frame(y, w, {"down"}) /\ w.down = [y.down EXCEPT ![c] = Tail(u)]
  BY ONLY c \in Conn, w = SetDown(y, c, Tail(y.down[c])), <1>0, <1>4, SetDownFields
<1>6. w.down[c] = Tail(u) /\ w.got = y.got /\ w.routed = y.routed
  BY ONLY c \in Conn, <1>0, <1>5, TypedFields DEF Frame, NetField
<1>7. z.out = w.out /\ z.inc = w.inc /\ z.up = w.up /\ z.down = w.down /\ z.cut = w.cut BY <1>2 DEF Frame, NetField
<1>8. Line(v[r], Tail(u), <<>>, y.routed[Remote(r)])
  <2>1. y.routed[Remote(r)] \in Nat /\ <<>> \in Seq(ItemType) /\ y.got[c][r] \in Seq(Nat)
    BY ONLY c \in Conn, <1>0, OrdTypes DEF r
  <2>2. Line(y.got[c][r], u, <<>>, y.routed[Remote(r)])
    BY ONLY <1>0a DEF OrdAt, InLine, r
  <2>3. v[r] = Append(y.got[c][r], n) BY <1>2, <1>6
  <2>4. u # <<>> /\ Head(u).t = "msg" OBVIOUS
  <2> QED BY ONLY <1>4, <2>1, <2>2, <2>3, <2>4, LineTake DEF n
<1> HIDE DEF u
<1>9. ASSUME OrdAt(w, c, w.routed, c = NoConn) PROVE OrdAt(z, c, w.routed, c = NoConn)
  <2>1. v[Remote(r)] = w.got[c][Remote(r)] BY <1>1, <1>2
  <2> QED BY ONLY <1>2, <1>6, <1>7, <1>8, <1>9, <2>1 DEF OrdAt, InLine, r
<1>10. Lined(z, NoConn)
  <2>1. Lined(w, NoConn) /\ NoConn \in {c, NoConn} OBVIOUS
  <2> QED BY ONLY c \in Conn, <1>2, <1>3, <1>9, <2>1, LinedOnly
<1> QED BY <1>10 DEF z, v, r, n, u

-----------------------------------------------------------------------------
(* Every action keeps the order: the acceptor reads, *)
LEMMA RecvInOrd ==
  ASSUME Lined(net, NoConn), NEW c \in Conn, RecvIn(c)
  PROVE  Lined(net', NoConn)
<1> DEFINE x == Head(net.up[c])
           v == Tail(net.up[c])
           y == SetUp(net, c, v)
<1>0. Good(net) /\ Good(net') BY RecvInGood DEF Lined
<1>1. net.up[c] # <<>> /\ LiveIn(net, c) BY DEF RecvIn
<1>2. Local(c, net.out[c], net.inc[c], net.up[c], net.down[c], Asked(net, c), net.got[c]) BY <1>0, At DEF Good
<1>3. /\ x \in UpItem(c)
      /\ Local(c, net.out[c], net.inc[c], v, net.down[c], Asked(net, c), net.got[c])
      /\ c[2] > 0 /\ UpStep(x, net.out[c]) => NoStep(net.out[c], net.inc[c], v, net.down[c], Asked(net, c))
  BY <1>1, <1>2, UpTail
<1>4. PICK accept \in BOOLEAN :
        net' = CASE x.t = "open" -> streamopened(y, c)
                 [] x.t = "bidi" -> accept_bidi(y, c)
                 [] x.t = "auth" -> s2s_external_auth(y, c, accept)
                 [] x.t = "result" -> dialback_request(y, c, x)
                 [] x.t = "verify" -> verify_dialback(y, c, x)
                 [] x.t = "msg" -> Receive(y, Remote(c[1]), c, y.inc[c], close_in(y, c), x.n)
                 [] x.t = "end" -> close_in(y, c)
  BY DEF RecvIn, SetUp
<1>5. Good(y) /\ Frame(net, y, {"up"}) /\ y.up[c] = v BY <1>0, <1>3, PutUp
<1>6. /\ Lined(y, NoConn)
      /\ c[2] > 0 /\ x.t = "msg" => Letting(net.inc[c])
      /\ c[2] > 0 /\ x.t = "bidi" => net.out[c].incoming
  BY <1>1, <1>5, ReadUpOrd
<1>7. y = SetUp(net, c, Tail(net.up[c])) /\ x = Head(net.up[c]) OBVIOUS
<1> HIDE DEF x, v, y
<1>8. y.out = net.out /\ y.inc = net.inc /\ y.down = net.down /\ y.req = net.req BY <1>5 DEF Frame, NetField
<1>9. LiveIn(y, c) BY <1>1, <1>8 DEF LiveIn
<1>10. c[2] > 0 /\ UpStep(x, y.out[c]) => FreeAt(y, c) BY <1>3, <1>5, <1>8 DEF FreeAt, Asked
<1>11. x \in ItemType /\ x.t \in {"open", "bidi", "auth", "result", "verify", "msg", "end"} BY <1>3 DEF UpItem
<1>12. CASE x.t = "open"
  <2>1. c[2] > 0 /\ y.out[c].ext # "succeeded" => FreeAt(y, c) BY <1>10, <1>12 DEF UpStep
  <2> QED BY <1>4, <1>6, <1>9, <1>12, <2>1, StreamOpenedOrd
<1>13. CASE x.t = "bidi" BY <1>4, <1>6, <1>8, <1>9, <1>13, AcceptBidiOrd
<1>14. CASE x.t = "auth"
  <2>1. c[2] > 0 => FreeAt(y, c) BY <1>10, <1>14 DEF UpStep
  <2> QED BY <1>4, <1>6, <1>9, <1>14, <2>1, ExternalOrd
<1>15. CASE x.t = "result"
  <2>1. c[2] > 0 => FreeAt(y, c) BY <1>10, <1>15 DEF UpStep
  <2> QED BY <1>3, <1>4, <1>6, <1>9, <1>15, <2>1, RequestOrd
<1>16. CASE x.t = "verify" BY <1>3, <1>4, <1>6, <1>9, <1>16, AnswerOrd
<1>17. CASE x.t = "msg"
  <2> DEFINE g == [y.got[c] EXCEPT ![Remote(c[1])] = Append(@, x.n)]
  <2>1. net' = Receive(y, Remote(c[1]), c, y.inc[c], close_in(y, c), x.n) BY <1>4, <1>17
  <2>2. x.n \in Nat /\ c[2] \in Nat BY <1>11, Conns DEF ItemType
  <2>3. CASE c[2] > 0
    <3>1. y.inc[c].type = "s2sin" /\ y.inc[c].authed BY <1>6, <1>8, <1>9, <1>17, <2>3 DEF Letting, LiveIn
    <3>2. net' = SetGot(y, c, g) BY <2>1, <3>1 DEF Receive, SetGot
    <3>3. Lined(SetGot(y, c, g), NoConn) BY <1>1, <1>6, <1>7, <1>17, <2>2, <2>3, TakeUpOrd
    <3> QED BY <3>2, <3>3
  <2>4. CASE c[2] = 0
    <3>1. y.inc[c].type = "s2sin_unauthed" BY <1>5, <1>9, <2>4, Opener DEF LiveIn
    <3> DEFINE z == [y EXCEPT !.dropped = FALSE]
    <3>2. y.dropped = FALSE /\ IsNet(y) BY <1>5, <1>6, TypedFields DEF Lined, Ord, Good, Sound, Typed
    <3>3. net' = z
      <4>1. (c[2] > 0) = FALSE BY <2>4
      <4>2. (y.dropped \/ c[2] > 0) = FALSE BY <3>2, <4>1
      <4>3. net' = [y EXCEPT !.dropped = y.dropped \/ c[2] > 0] BY <2>1, <3>1 DEF Receive
      <4> QED BY <4>2, <4>3
    <3>4. Frame(y, z, {}) BY <3>2 DEF Frame, IsNet, NetField
    <3> HIDE DEF z
    <3>5. Only(y, z, c) BY <3>4 DEF Only, Frame, NetField
    <3>6. Lined(z, NoConn) BY <1>0, <1>6, <2>4, <3>3, <3>5, LinedOnly
    <3> QED BY <3>3, <3>6
  <2> QED BY <2>2, <2>3, <2>4
<1>18. CASE x.t = "end" BY <1>4, <1>6, <1>9, <1>18, CloseInOrd
<1> QED BY <1>11, <1>12, <1>13, <1>14, <1>15, <1>16, <1>17, <1>18

(* The stream header ends the reset. *)
LEMMA ReopenedOrd ==
  ASSUME NEW y, NEW c \in Conn, Lined(y, NoConn), Alive(y.out[c]), y.out[c].conn
  PROVE  Lined(reopened(y, c), NoConn)
<1> DEFINE z == reopened(y, c)
           v == z.out[c]
<1>1. Good(y) BY DEF Lined
<1>2. /\ z = SetOut(y, c, v) /\ v \in OutSession /\ Good(z)
      /\ v.type = y.out[c].type /\ v.ext = y.out[c].ext /\ v.conn = y.out[c].conn
      /\ v.sendq = y.out[c].sendq /\ v.incoming = y.out[c].incoming /\ v.authed = y.out[c].authed
  BY <1>1, ReopenedGood
<1> HIDE DEF v, z
<1>3. Good(SetOut(y, c, v)) BY <1>2
<1>4. Lined(SetOut(y, c, v), NoConn) BY <1>2, <1>3, NoteOrd
<1> QED BY <1>2, <1>4 DEF z

(* What comes into a stream being reset is kept in early. *)
LEMMA NoStreamOrd ==
  ASSUME NEW y, NEW c \in Conn, NEW e \in {c, NoConn}, Lined(y, e), Alive(y.out[c]), y.out[c].conn,
         y.out[c].reset, NEW x \in DownItem, x.t = "msg" => y.out[c].incoming, NEW again \in BOOLEAN
  PROVE  Lined(no_stream(y, c, x, again), NoConn)
<1> DEFINE w == close_out(y, c, again)
           z == no_stream(y, c, x, again)
           k == Early(y, c, x)
<1>1. Lined(w, NoConn) BY CloseOutOrd
<1>2. /\ Good(z) /\ Frame(w, z, {"early"}) /\ z.early = w.early \union {k}
      /\ y.out[c].ext = "succeeded"
  BY NoStreamIs DEF Lined
<1>3. k.t = x.t /\ k.ext = "succeeded" /\ k.incoming = y.out[c].incoming BY <1>2 DEF Early
<1> HIDE DEF w, z, k
<1>4. \A m \in z.early : m.ext = "succeeded" /\ (m.t = "msg" => m.incoming)
  BY <1>1, <1>2, <1>3 DEF Lined, Ord
<1>5. /\ z.out = w.out /\ z.inc = w.inc /\ z.up = w.up /\ z.down = w.down /\ z.cut = w.cut
      /\ z.got = w.got /\ z.routed = w.routed /\ z.dropped = w.dropped
  BY <1>2 DEF Frame, NetField
<1>6. \A d \in Conn : OrdAt(w, d, w.routed, d = NoConn) => OrdAt(z, d, z.routed, d = NoConn) BY <1>5 DEF OrdAt
<1>7. Lined(z, NoConn) BY <1>1, <1>2, <1>4, <1>5, <1>6 DEF Lined, Ord
<1> QED BY <1>7 DEF z

(* the opener reads, *)
LEMMA RecvOutOrd ==
  ASSUME Lined(net, NoConn), NEW c \in Conn, RecvOut(c)
  PROVE  Lined(net', NoConn)
<1> DEFINE x == Head(net.down[c])
           v == Tail(net.down[c])
           y == SetDown(net, c, v)
           f == IF Pass(x) THEN c ELSE NoConn
<1>0. Good(net) BY DEF Lined
<1>1. net.down[c] # <<>> /\ Alive(net.out[c]) /\ c[2] > 0 BY <1>0, Opener DEF RecvOut
<1>2. /\ Local(c, net.out[c], net.inc[c], net.up[c], net.down[c], Asked(net, c), net.got[c])
      /\ net.down[c] \in Seq(DownItem)
  BY <1>0, At DEF Good
<1>3. /\ x \in DownItem /\ v \in Seq(DownItem)
      /\ Local(c, net.out[c], net.inc[c], net.up[c], v, Asked(net, c), net.got[c])
      /\ DownStep(x, net.out[c]) => NoStep(net.out[c], net.inc[c], net.up[c], v, Asked(net, c))
      /\ net.out[c].conn /\ (x.t = "success" => net.inc[c].ext = "succeeded")
  BY <1>1, <1>2, DownTail
<1>4. PICK again \in BOOLEAN :
        net' = IF y.out[c].reset /\ x.t \notin {"features", "end"} THEN no_stream(y, c, x, again)
               ELSE CASE x.t = "features" -> features(reopened(y, c), c, x.ok)
                    [] x.t = "success" -> success(y, c)
                    [] x.t = "failure" -> failure(y, c)
                    [] x.t = "dbresult" -> dialback_result(y, c, x, again)
                    [] x.t \in {"verified", "verify"} -> dialback_verified(y, c[1], x)
                    [] x.t = "msg" -> Receive(y, c[1], c, y.out[c], close_out(y, c, again), x.n)
                    [] x.t = "end" -> close_out(y, c, again)
  BY DEF RecvOut, SetDown
<1>5. Good(y) /\ Frame(net, y, {"down"}) /\ y.down[c] = v
  <2> HIDE DEF v
  <2> QED BY ONLY c \in Conn, <1>0, <1>3, PutDown
<1>6. /\ Lined(y, f)
      /\ x.t = "msg" => net.out[c].type \in {"s2sout", "s2s_destroyed"} /\ net.out[c].incoming
  BY <1>1, <1>5, ReadDownOrd
<1>7. y = SetDown(net, c, Tail(net.down[c])) /\ x = Head(net.down[c]) OBVIOUS
<1> HIDE DEF x, v, y
<1>8. y.out = net.out /\ y.inc = net.inc /\ y.up = net.up /\ y.req = net.req BY <1>5 DEF Frame, NetField
<1>9. Alive(y.out[c]) /\ y.out[c].conn BY <1>1, <1>3, <1>8
<1>10. DownStep(x, y.out[c]) => FreeAt(y, c) BY <1>3, <1>5, <1>8 DEF FreeAt, Asked
<1>11. /\ x \in ItemType
       /\ x.t \in {"features", "success", "failure", "dbresult", "verified", "verify", "msg", "end"}
  BY <1>3 DEF DownItem
<1>12. x.t \notin {"success", "dbresult"} => Lined(y, NoConn) BY <1>6 DEF Pass
<1>20. ASSUME y.out[c].reset, x.t \notin {"features", "end"} PROVE Lined(net', NoConn)
  <2>1. net' = no_stream(y, c, x, again) BY <1>4, <1>20
  <2>2. f \in {c, NoConn} OBVIOUS
  <2>3. x.t = "msg" => y.out[c].incoming BY <1>6, <1>8
  <2> HIDE DEF f
  <2> QED BY <1>3, <1>6, <1>9, <1>20, <2>1, <2>2, <2>3, NoStreamOrd
<1> SUFFICES ASSUME ~(y.out[c].reset /\ x.t \notin {"features", "end"}) PROVE Lined(net', NoConn) BY <1>20
<1>13. CASE x.t = "features"
  <2> DEFINE z == reopened(y, c)
  <2>1. y.out[c].ext # "succeeded" => FreeAt(y, c) BY <1>10, <1>13 DEF DownStep
  <2>2. x.ok \in BOOLEAN BY <1>11 DEF ItemType
  <2>4. Lined(z, NoConn) BY <1>9, <1>12, <1>13, ReopenedOrd
  <2>5. /\ z.out[c].type = y.out[c].type /\ z.out[c].conn = y.out[c].conn
        /\ z.out[c].ext = y.out[c].ext /\ (FreeAt(y, c) => FreeAt(z, c))
    BY <1>5, <1>9, ReopenedGood
  <2> HIDE DEF z
  <2>6. Alive(z.out[c]) BY <1>9, <2>5 DEF Alive
  <2>3. Lined(features(z, c, x.ok), NoConn) BY <1>1, <1>9, <2>1, <2>2, <2>4, <2>5, <2>6, FeaturesOrd
  <2> QED BY <1>4, <1>13, <2>3 DEF z
<1>14. CASE x.t = "success"
  <2>1. y.inc[c].ext = "succeeded" BY <1>3, <1>8, <1>14
  <2>2. Lined(y, c) BY <1>6, <1>14 DEF Pass
  <2> QED BY <1>1, <1>4, <1>9, <1>14, <2>1, <2>2, SuccessOrd
<1>15. CASE x.t = "failure"
  <2>1. FreeAt(y, c) BY <1>10, <1>15 DEF DownStep
  <2> QED BY <1>1, <1>4, <1>9, <1>12, <1>15, <2>1, FailureOrd
<1>16. CASE x.t = "dbresult"
  <2>1. Lined(dialback_result(y, c, x, again), NoConn) BY <1>6, <1>9, <1>16, ResultOrd
  <2> QED BY <1>4, <1>16, <2>1
<1>17. CASE x.t \in {"verified", "verify"}
  <2>1. c[1] \in Host BY Conns
  <2>2. Lined(dialback_verified(y, c[1], x), NoConn) BY <1>3, <1>12, <1>17, <2>1, VerifiedOrd
  <2> QED BY <1>4, <1>17, <2>2
<1>18. CASE x.t = "msg"
  <2> DEFINE g == [y.got[c] EXCEPT ![c[1]] = Append(@, x.n)]
  <2>1. net' = Receive(y, c[1], c, y.out[c], close_out(y, c, again), x.n) BY <1>4, <1>18
  <2>2. x.n \in Nat BY <1>11 DEF ItemType
  <2>3. y.out[c].type = "s2sout" /\ y.out[c].incoming BY <1>6, <1>8, <1>9, <1>18 DEF Alive
  <2>4. Lined(y, NoConn) BY <1>12, <1>18
  <2>5. y.out[c].authed
    <3>1. OrdAt(y, c, y.routed, c = NoConn) BY <1>1, <2>4 DEF Lined, Ord
    <3> QED BY <2>3, <3>1 DEF OrdAt, Ready
  <2>6. net' = SetGot(y, c, g) BY <2>1, <2>3, <2>5 DEF Receive, SetGot
  <2>7. Lined(SetGot(y, c, g), NoConn) BY <1>1, <1>7, <1>18, <2>2, <2>4, TakeDownOrd
  <2> QED BY <2>6, <2>7
<1>19. CASE x.t = "end"
  <2>1. Lined(y, NoConn) /\ NoConn \in {c, NoConn} BY <1>12, <1>19
  <2>2. Lined(close_out(y, c, again), NoConn) BY <1>9, <2>1, CloseOutOrd
  <2> QED BY <1>4, <1>19, <2>2
<1> QED BY <1>11, <1>13, <1>14, <1>15, <1>16, <1>17, <1>18, <1>19

(* the connection is made, *)
LEMMA ConnectOrd ==
  ASSUME Lined(net, NoConn), NEW c \in Conn, Connect(c)
  PROVE  Lined(net', NoConn)
<1> DEFINE o == net.out[c]
           v == [o EXCEPT !.conn = TRUE]
           x == Item("open", NoConn, TRUE)
           u == <<x>>
<1>0. Good(net) /\ Good(net') BY ConnectGood DEF Lined
<1>1. Alive(o) /\ c[2] > 0 /\ ~o.conn BY <1>0, Opener DEF Connect
<1>2. Typed(net) /\ IsNet(net) BY <1>0 DEF Good, Sound, Typed
<1>3. net.out \in [Conn -> OutSession] /\ net.inc \in [Conn -> InSession] /\ net.up \in [Conn -> Seq(ItemType)]
  BY <1>2, TypedFields
<1>4. /\ Frame(net, net', {"out", "inc", "up"}) /\ net'.out = [net.out EXCEPT ![c] = v]
      /\ net'.inc = [net.inc EXCEPT ![c] = NewIn] /\ net'.up = [net.up EXCEPT ![c] = u]
  BY <1>2, <1>3 DEF Connect, Frame, IsNet, NetField
<1>5. /\ v.type = o.type /\ v.ext = o.ext /\ v.conn /\ v.sendq = o.sendq /\ v.incoming = o.incoming
      /\ v.authed = o.authed
  BY <1>3 DEF OutFields, OutSession
<1>6. NewIn.type = "s2sin_unauthed" /\ NewIn.outgoing = FALSE BY DEF NewIn
<1>7. x \in ItemType /\ x.t = "open" BY Items DEF Item, UpItem
<1>8. u \in Seq(ItemType) /\ ~HasMsg(u) /\ ~HasBidi(u) /\ <<>> \o u = u BY <1>7, OneItem
<1> HIDE DEF v, u, x
<1>9. net'.out[c] = v /\ net'.inc[c] = NewIn /\ net'.up[c] = u BY <1>3, <1>4
<1>10. /\ net'.down = net.down /\ net'.got = net.got /\ net'.cut = net.cut /\ net'.routed = net.routed
       /\ net'.dropped = net.dropped /\ net'.early = net.early
  BY <1>4 DEF Frame, NetField
<1>11. Only(net, net', c) BY <1>3, <1>4, <1>10 DEF Only
<1>12. ASSUME OrdAt(net, c, net.routed, c = NoConn) PROVE OrdAt(net', c, net.routed, c = NoConn)
  <2>1. net.down[c] = <<>>
    <3>1. Local(c, o, net.inc[c], net.up[c], net.down[c], Asked(net, c), net.got[c]) BY <1>0, At DEF Good
    <3> QED BY <1>1, <3>1 DEF Local, Phase
  <2>2. net.up[c] = <<>> /\ o.type # "s2sout" BY <1>1, <1>12 DEF OrdAt, Ready
  <2>3. ~HasMsg(<<>>) /\ ~HasPass(<<>>) /\ DOMAIN <<>> = {} BY DEF HasMsg, HasPass
  <2>4. (c = NoConn) = FALSE BY Conns
  <2>5. Ready(v, NewIn, u, <<>>, c \in net.cut, FALSE) BY <1>5, <1>6, <1>8, <2>2, <2>3 DEF Ready
  <2>6. net.routed[c[1]] \in Nat /\ o.sendq \in Seq(ItemType) /\ net.got[c][Remote(c[1])] \in Seq(Nat) /\ <<>> \in Seq(ItemType)
    BY <1>2, OrdTypes
  <2>7. o.ext # "succeeded" => Line(net.got[c][Remote(c[1])], u, o.sendq, net.routed[c[1]])
    BY <1>8, <1>12, <2>2, <2>6, LineCalm DEF OrdAt, InLine
  <2>8. InLine(c, v, u, net.down[c], net.got[c], net.routed[c[1]], net.routed[Remote(c[1])])
    BY <1>5, <1>12, <2>7 DEF OrdAt, InLine
  <2> QED BY <1>9, <1>10, <2>1, <2>4, <2>5, <2>8 DEF OrdAt
<1> QED BY <1>0, <1>11, <1>12, LinedOnly

(* somebody else connects. *)
LEMMA ForgeOrd ==
  ASSUME Lined(net, NoConn), NEW c \in Conn, Forge(c)
  PROVE  Lined(net', NoConn)
<1> DEFINE u == <<Item("open", NoConn, TRUE), Item("result", c, FALSE), Msg(0)>>
<1>0. Good(net) /\ Good(net') /\ c[2] = 0 BY ForgeGood DEF Lined, Forge
<1>1. Typed(net) /\ IsNet(net) BY <1>0 DEF Good, Sound, Typed
<1>2. net.inc \in [Conn -> InSession] /\ net.up \in [Conn -> Seq(ItemType)] BY <1>1, TypedFields
<1>3. /\ Frame(net, net', {"inc", "up"}) /\ net'.inc = [net.inc EXCEPT ![c] = NewIn]
      /\ net'.up = [net.up EXCEPT ![c] = u]
  BY <1>1 DEF Forge, Frame, IsNet, NetField
<1> HIDE DEF u
<1>4. Only(net, net', c) BY <1>2, <1>3 DEF Only, Frame, NetField
<1> QED BY <1>0, <1>4, LinedOnly

(* At the start nothing was sent. *)
LEMMA InitOrd ==
  ASSUME S2sInit
  PROVE  Lined(net, NoConn)
<1> DEFINE o == [NewOut(Msg(0)) EXCEPT !.type = "none", !.sendq = <<>>]
           i == [NewIn EXCEPT !.type = "none"]
<1>0. Good(net) BY InitGood
<1>1. /\ net.out = [c \in Conn |-> o] /\ net.inc = [c \in Conn |-> i]
      /\ net.up = [c \in Conn |-> <<>>] /\ net.down = [c \in Conn |-> <<>>]
      /\ net.routed = [h \in Host |-> 0] /\ net.dropped = FALSE /\ net.early = {}
      /\ net.got = [c \in Conn |-> [h \in Host |-> <<>>]]
  BY DEF S2sInit
<1>2. o.type = "none" /\ o.key = FALSE /\ o.sendq = <<>> BY DEF NewOut
<1>3. i.type = "none" /\ i.outgoing = FALSE BY DEF NewIn
<1> HIDE DEF o, i
<1>4. ASSUME NEW c \in Conn PROVE OrdAt(net, c, net.routed, c = NoConn)
  <2>1. (c = NoConn) = FALSE /\ c[1] \in Host /\ Remote(c[1]) \in Host BY Conns, Hosts
  <2>2. ~HasMsg(<<>>) /\ ~HasPass(<<>>) /\ ~HasBidi(<<>>) /\ DOMAIN <<>> = {} BY DEF HasMsg, HasPass, HasBidi
  <2>3. Ready(o, i, <<>>, <<>>, c \in net.cut, FALSE) BY <1>2, <1>3, <2>2 DEF Ready
  <2>4. Line(<<>>, <<>>, <<>>, 0) BY <2>2, NoNumbers DEF Line, MsgInc, Increasing
  <2>5. InLine(c, o, <<>>, <<>>, net.got[c], 0, 0) BY <1>1, <1>2, <2>1, <2>4 DEF InLine
  <2>6. /\ net.out[c] = o /\ net.inc[c] = i /\ net.up[c] = <<>> /\ net.down[c] = <<>>
        /\ net.routed[c[1]] = 0 /\ net.routed[Remote(c[1])] = 0
    BY <1>1, <2>1
  <2> QED BY <2>1, <2>3, <2>5, <2>6 DEF OrdAt
<1> QED BY <1>0, <1>1, <1>4 DEF Lined, Ord

(* Every step keeps the order. *)
LEMMA NextOrd ==
  ASSUME Lined(net, NoConn), S2sNext
  PROVE  Lined(net', NoConn)
<1>0. Good(net) BY DEF Lined
<1>1. ASSUME NEW h \in Host, UserSends(h) PROVE Lined(net', NoConn) BY <1>1, SendOrd DEF UserSends
<1> SUFFICES ASSUME NEW c \in Conn, NEW again \in BOOLEAN,
                    \/ RecvIn(c) \/ RecvOut(c) \/ Connect(c) \/ Forge(c)
                    \/ TimeoutIn(c) \/ Break(c) \/ DisconnectIn(c) \/ CloseIn(c) \/ CloseTimeout(c)
                    \/ ConnectFails(c, again) \/ TimeoutOut(c, again)
                    \/ DisconnectOut(c, again) \/ CloseOut(c, again)
             PROVE  Lined(net', NoConn)
  <2>1. TRUE \in BOOLEAN OBVIOUS
  <2> QED BY <1>1, <2>1 DEF S2sNext
<1>2. c # NoConn /\ NoConn \in {c, NoConn} BY Conns
<1>3. CASE RecvIn(c) BY <1>3, RecvInOrd
<1>4. CASE RecvOut(c) BY <1>4, RecvOutOrd
<1>5. CASE Connect(c) BY <1>5, ConnectOrd
<1>6. CASE Forge(c) BY <1>6, ForgeOrd
<1>7. CASE TimeoutIn(c)
  <2>1. LiveIn(net, c) /\ net' = close_in(net, c) BY ONLY <1>7 DEF TimeoutIn, Failure, LiveIn
  <2> QED BY ONLY Lined(net, NoConn), c \in Conn, <2>1, CloseInOrd
<1>8. CASE Break(c)
  <2>1. net' = [net EXCEPT !.cut = @ \union {c}] BY ONLY <1>8 DEF Break, Failure
  <2> QED BY ONLY Lined(net, NoConn), c \in Conn, <2>1, CutOrd, Zenon
<1>9. CASE DisconnectIn(c)
  <2> DEFINE y == destroy_in(net, c)
  <2>1. net' = [y EXCEPT !.up[c] = <<>>] BY ONLY <1>9 DEF DisconnectIn
  <2>2. Lined(y, NoConn) BY DestroyInOrd
  <2> HIDE DEF y
  <2> QED BY ONLY c \in Conn, <2>1, <2>2, CutOrd, Zenon
<1>10. CASE CloseIn(c)
  <2>1. LiveIn(net, c) /\ net' \in {close_in(net, c), close_in_clean(net, c)} BY ONLY <1>10 DEF CloseIn, Failure
  <2> QED BY <2>1, CloseInOrd, CloseInCleanOrd
<1>11. CASE CloseTimeout(c)
  <2>1. LiveIn(net, c) /\ net' = close_in(net, c) BY ONLY <1>11 DEF CloseTimeout
  <2> QED BY ONLY Lined(net, NoConn), c \in Conn, <2>1, CloseInOrd
<1>12. CASE ConnectFails(c, again)
  <2>1. net' = destroy_out(net, c, again) BY ONLY <1>12 DEF ConnectFails, Failure
  <2> QED BY <1>2, <2>1, DestroyOutOrd
<1>13. CASE TimeoutOut(c, again)
  <2>1. net' = close_out(net, c, again) BY ONLY <1>13 DEF TimeoutOut, Failure
  <2> QED BY <1>2, <2>1, CloseOutOrd
<1>14. CASE DisconnectOut(c, again)
  <2> DEFINE y == destroy_out(net, c, again)
  <2>1. c \in net.cut /\ net' = [y EXCEPT !.down[c] = <<>>] BY ONLY <1>14 DEF DisconnectOut
  <2>2. Lined(y, NoConn) /\ y.cut = net.cut BY <1>2, DestroyOutOrd
  <2> HIDE DEF y
  <2> QED BY ONLY c \in Conn, <2>1, <2>2, CutOrd, Zenon
<1>15. CASE CloseOut(c, again)
  <2>1. net' = close_out(net, c, again) BY ONLY <1>15 DEF CloseOut, Failure
  <2> QED BY <1>2, <2>1, CloseOutOrd
<1> QED BY <1>3, <1>4, <1>5, <1>6, <1>7, <1>8, <1>9, <1>10, <1>11, <1>12, <1>13, <1>14, <1>15

(* No stanza is dropped because its sender is not authenticated, whichever *)
(* end finishes first and whatever is lost; none comes into a stream being *)
(* reset unless EXTERNAL succeeded on a bidirectional connection (there it *)
(* can, and closes it); and on a session authenticated by dialback         *)
(* none overtakes another: mark_connected sends the queue before anything  *)
(* that comes after it, and a session accepted as the route writes behind  *)
(* the item that lets the opener in.                                       *)
THEOREM OutboundOrderHolds == S2sSpec => []OutboundOrder
<1>1. S2sInit => Lined(net, NoConn) BY InitOrd
<1>2. Lined(net, NoConn) /\ [S2sNext]_s2sVars => Lined(net, NoConn)'
  <2>1. ASSUME Lined(net, NoConn), S2sNext PROVE Lined(net, NoConn)' BY <2>1, NextOrd
  <2>2. ASSUME Lined(net, NoConn), UNCHANGED s2sVars PROVE Lined(net, NoConn)'
    <3>1. net' = net BY <2>2 DEF s2sVars
    <3> QED BY <2>2, <3>1
  <2> QED BY <2>1, <2>2
<1>3. ASSUME Lined(net, NoConn) PROVE OutboundOrder
  <2>1. NeverTooEarly BY <1>3 DEF Lined, Ord, NeverTooEarly
  <2>2. ASSUME NEW c \in Conn, net.out[c].ext # "succeeded", NEW h \in Host
        PROVE  Increasing(net.got[c][h])
    <3>1. c[2] \in Nat /\ (h = c[1] \/ h = Remote(c[1])) BY Conns, Hosts
    <3>2. CASE c[2] > 0
      <4>1. OrdAt(net, c, net.routed, c = NoConn) BY <1>3, <3>2 DEF Lined, Ord
      <4> QED BY <2>2, <3>1, <4>1 DEF OrdAt, InLine, Line
    <3>3. CASE c[2] = 0
      <4>1. Local(c, net.out[c], net.inc[c], net.up[c], net.down[c], Asked(net, c), net.got[c])
        BY <1>3, At DEF Lined, Good
      <4>2. net.got[c][h] = <<>> /\ DOMAIN <<>> = {} BY <3>3, <4>1 DEF Local, Claim
      <4> QED BY <4>2 DEF Increasing
    <3> QED BY <3>1, <3>2, <3>3
  <2> QED BY <2>1, <2>2 DEF OutboundOrder, DialbackInOrder
<1> QED BY <1>1, <1>2, <1>3, PTL DEF S2sSpec
=============================================================================
