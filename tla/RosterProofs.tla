----------------------------- MODULE RosterProofs -----------------------------
(***************************************************************************)
(* For any number of requests in flight and whatever crosses on the way,   *)
(* the roster items of the two users stay well formed, and the two rosters *)
(* agree once everything is read.                                          *)
(***************************************************************************)
EXTENDS Roster, TLAPS

Subscription == {"none", "to", "from", "both"}
RosterItem == [exists : BOOLEAN, subscription : Subscription, ask : BOOLEAN, approved : BOOLEAN]

(* An item i with its pending flag p is well formed. *)
Formed(i, p) ==
  /\ i \in RosterItem /\ p \in BOOLEAN
  /\ ~i.exists => i = NoItem
  /\ ~(i.ask /\ To(i.subscription))
  /\ ~(p /\ From(i.subscription))

FormedResult(r) == Formed(r.i, r.p)

(* An item is its fields: the one without any is NoItem. *)
LEMMA EmptyItem ==
  ASSUME NEW i \in RosterItem, ~i.exists, i.subscription = "none", ~i.ask, ~i.approved
  PROVE  i = NoItem
  BY DEF RosterItem, Subscription, NoItem

(* Every operation of core/rostermanager.lua leaves a well-formed item and *)
(* pending flag.                                                           *)
LEMMA OperationsKeepForm ==
  ASSUME NEW i, NEW p, Formed(i, p)
  PROVE  /\ FormedResult(set_contact_pending_out(i, p))
         /\ FormedResult(rm_unsubscribe(i, p))
         /\ FormedResult(rm_subscribed(i, p))
         /\ FormedResult(rm_unsubscribed(i, p))
         /\ FormedResult(set_contact_pending_in(i, p))
         /\ FormedResult(process_inbound_subscription_approval(i, p))
         /\ FormedResult(process_inbound_subscription_cancellation(i, p))
         /\ FormedResult(process_inbound_unsubscribe(i, p))
  <1> USE DEF Formed, FormedResult, Result, RosterItem, Subscription, To, From, WithoutTo, WithoutFrom,
             NoItem
  <1>0. ~i.exists => i.subscription = "none" /\ ~i.ask /\ ~i.approved
    OBVIOUS
  <1>1. FormedResult(set_contact_pending_out(i, p))
    BY DEF set_contact_pending_out
  <1>2. FormedResult(rm_unsubscribe(i, p))
    <2> DEFINE r == rm_unsubscribe(i, p)
    <2>1. r.i \in RosterItem /\ r.p \in BOOLEAN
      BY DEF rm_unsubscribe
    <2>2. ~r.i.exists => r.i.subscription = "none" /\ ~r.i.ask /\ ~r.i.approved
      BY <1>0 DEF rm_unsubscribe
    <2>3. ~(r.i.ask /\ To(r.i.subscription)) /\ ~(r.p /\ From(r.i.subscription))
      BY DEF rm_unsubscribe
    <2> QED BY <2>1, <2>2, <2>3, EmptyItem
  <1>3. FormedResult(rm_subscribed(i, p))
    BY DEF rm_subscribed
  <1>4. FormedResult(rm_unsubscribed(i, p))
    <2> DEFINE r == rm_unsubscribed(i, p)
    <2>1. r.i \in RosterItem /\ r.p \in BOOLEAN
      BY DEF rm_unsubscribed
    <2>2. ~r.i.exists => r.i.subscription = "none" /\ ~r.i.ask /\ ~r.i.approved
      BY <1>0 DEF rm_unsubscribed
    <2>3. ~(r.i.ask /\ To(r.i.subscription)) /\ ~(r.p /\ From(r.i.subscription))
      BY DEF rm_unsubscribed
    <2> QED BY <2>1, <2>2, <2>3, EmptyItem
  <1>5. FormedResult(set_contact_pending_in(i, p))
    BY DEF set_contact_pending_in
  <1>6. FormedResult(process_inbound_subscription_approval(i, p))
    <2>1. CASE ~i.ask
      BY <2>1 DEF process_inbound_subscription_approval
    <2>2. CASE i.ask
      <3> DEFINE r == process_inbound_subscription_approval(i, p)
      <3>1. i.exists
        BY <1>0, <2>2
      <3>2. r.i \in RosterItem /\ r.p \in BOOLEAN
        BY <2>2 DEF process_inbound_subscription_approval
      <3>3. r.i.exists
        BY <2>2, <3>1 DEF process_inbound_subscription_approval
      <3>4. ~r.i.ask
        BY <2>2 DEF process_inbound_subscription_approval
      <3>5. ~(r.p /\ From(r.i.subscription))
        BY <2>2 DEF process_inbound_subscription_approval
      <3> QED BY <3>2, <3>3, <3>4, <3>5
    <2> QED BY <2>1, <2>2
  <1>7. FormedResult(process_inbound_subscription_cancellation(i, p))
    <2> DEFINE r == process_inbound_subscription_cancellation(i, p)
    <2>1. r.i \in RosterItem /\ r.p \in BOOLEAN
      BY DEF process_inbound_subscription_cancellation
    <2>2. ~r.i.exists => r.i.subscription = "none" /\ ~r.i.ask /\ ~r.i.approved
      BY <1>0 DEF process_inbound_subscription_cancellation
    <2>3. ~(r.i.ask /\ To(r.i.subscription)) /\ ~(r.p /\ From(r.i.subscription))
      BY DEF process_inbound_subscription_cancellation
    <2> QED BY <2>1, <2>2, <2>3, EmptyItem
  <1>8. FormedResult(process_inbound_unsubscribe(i, p))
    <2> DEFINE r == process_inbound_unsubscribe(i, p)
    <2>1. r.i \in RosterItem /\ r.p \in BOOLEAN
      BY DEF process_inbound_unsubscribe
    <2>2. ~r.i.exists => r.i.subscription = "none" /\ ~r.i.ask /\ ~r.i.approved
      BY <1>0 DEF process_inbound_unsubscribe
    <2>3. ~(r.i.ask /\ To(r.i.subscription)) /\ ~(r.p /\ From(r.i.subscription))
      BY DEF process_inbound_unsubscribe
    <2> QED BY <2>1, <2>2, <2>3, EmptyItem
  <1> QED BY <1>1, <1>2, <1>3, <1>4, <1>5, <1>6, <1>7, <1>8
-----------------------------------------------------------------------------
(* RosterInv, restated item by item. *)
Typed ==
  /\ item \in [User -> RosterItem] /\ pending \in [User -> BOOLEAN]
  /\ online \in [User -> BOOLEAN] /\ sees \in [User -> BOOLEAN]
  /\ chan \in [User -> Seq(Stanza)] /\ ops \in 0..MaxOps /\ unheard \subseteq User

AllFormed == \A u \in User : Formed(item[u], pending[u])

(* The invariant in the two parts the proof treats separately.             *)
LEMMA InvIsFormed == RosterInv <=> Typed /\ AllFormed
  BY DEF RosterInv, TypeOK, ItemWellFormed, Typed, AllFormed, Formed, RosterItem, Subscription,
         UserTo, UserFrom

(* The contact of a user is a user.                                        *)
LEMMA PeerIsUser == \A u \in User : Peer(u) \in User
  BY DEF User, Peer

(* Replacing the item and flag of one user by well-formed ones. *)
LEMMA UpdateKeepsForm ==
  ASSUME Typed, AllFormed, NEW u \in User, NEW r, FormedResult(r), Update(u, r)
  PROVE  /\ item' \in [User -> RosterItem] /\ pending' \in [User -> BOOLEAN]
         /\ AllFormed'
  BY DEF Typed, AllFormed, FormedResult, Formed, Update

(* A request keeps the invariant when its operation and its stanzas do. *)
LEMMA RequestKeepsInv ==
  ASSUME Typed, AllFormed, NEW u \in User, NEW r, FormedResult(r),
         NEW s \in Seq(Stanza), Request(u, r, s),
         online' \in [User -> BOOLEAN], sees' \in [User -> BOOLEAN]
  PROVE  Typed' /\ AllFormed'
  <1>1. Update(u, r)
    BY DEF Request
  <1>2. chan' \in [User -> Seq(Stanza)]
    <2>1. Peer(u) \in User
      BY PeerIsUser
    <2>2. chan[Peer(u)] \o s \in Seq(Stanza)
      BY <2>1 DEF Typed
    <2> QED BY <2>1, <2>2 DEF Request, Typed
  <1>3. ops' \in 0..MaxOps
    BY RosterAssumption DEF Request, Typed
  <1> QED BY <1>1, <1>2, <1>3, UpdateKeepsForm DEF Request, Typed

(* What is sent in one handler is a sequence of stanzas.                   *)
LEMMA StanzaSeqs ==
  /\ <<>> \in Seq(Stanza)
  /\ \A s \in Stanza : <<s>> \in Seq(Stanza)
  /\ \A s, t \in Seq(Stanza) : s \o t \in Seq(Stanza)
  /\ \A s, t, v \in Seq(Stanza) : s \o t \o v \in Seq(Stanza)
  OBVIOUS

(* The stanza types the handlers send.                                     *)
LEMMA StanzaNames ==
  /\ "subscribe" \in Stanza /\ "subscribed" \in Stanza /\ "unsubscribe" \in Stanza
  /\ "unsubscribed" \in Stanza /\ "probe" \in Stanza
  /\ "available" \in Stanza /\ "unavailable" \in Stanza
  BY DEF Stanza

(* What the outbound handler sends are stanzas. *)
LEMMA OutboundAreStanzas ==
  ASSUME NEW u, NEW r
  PROVE  /\ Available(u) \in Seq(Stanza) /\ Unavailable(u) \in Seq(Stanza)
         /\ OutboundSubscribed(u, r) \in Seq(Stanza)
         /\ OutboundUnsubscribed(u, r) \in Seq(Stanza)
  <1>1. Available(u) \in Seq(Stanza) /\ Unavailable(u) \in Seq(Stanza)
    BY StanzaSeqs, StanzaNames DEF Available, Unavailable
  <1>2. <<"subscribed">> \o Available(u) \in Seq(Stanza)
    BY <1>1, StanzaSeqs, StanzaNames
  <1>3. <<"unsubscribed">> \o Unavailable(u) \in Seq(Stanza)
    BY <1>1, StanzaSeqs, StanzaNames
  <1>4. OutboundSubscribed(u, r) \in Seq(Stanza)
    BY <1>2, StanzaSeqs, StanzaNames DEF OutboundSubscribed
  <1>5. OutboundUnsubscribed(u, r) \in Seq(Stanza)
    <2>1. <<"unsubscribed">> \o <<>> \in Seq(Stanza)
      BY StanzaSeqs, StanzaNames
    <2> QED BY <1>3, <2>1, StanzaSeqs DEF OutboundUnsubscribed
  <1> QED BY <1>1, <1>4, <1>5
-----------------------------------------------------------------------------
(* Handling a stanza keeps the invariant when the operation and the reply  *)
(* do.                                                                     *)
LEMMA HandleKeepsInv ==
  ASSUME Typed, AllFormed, NEW u \in User, NEW r, FormedResult(r), chan[u] # <<>>,
         NEW s \in Seq(Stanza), Handle(u, r, s),
         sees' \in [User -> BOOLEAN], UNCHANGED <<online, ops>>,
         unheard' \subseteq User
  PROVE  Typed' /\ AllFormed'
  <1>1. Update(u, r)
    BY DEF Handle
  <1>2. chan' \in [User -> Seq(Stanza)]
    <2>1. Peer(u) \in User /\ Peer(u) # u
      BY DEF User, Peer
    <2>2. chan[Peer(u)] \o s \in Seq(Stanza) /\ Tail(chan[u]) \in Seq(Stanza)
      BY <2>1 DEF Typed
    <2> QED BY <2>1, <2>2 DEF Handle, Typed
  <1> QED BY <1>1, <1>2, UpdateKeepsForm DEF Typed

(* Handling any inbound presence keeps the invariant.                      *)
LEMMA InboundKeepsInv ==
  ASSUME Typed, AllFormed, NEW u \in User, Inbound(u)
  PROVE  Typed' /\ AllFormed'
  <1> DEFINE i == item[u]
             p == pending[u]
             s == Head(chan[u])
  <1>1. Formed(i, p)
    BY DEF AllFormed
  <1>2. FormedResult(Keep(u))
    BY <1>1 DEF FormedResult, Keep, Result
  <1>3. /\ chan[u] # <<>> /\ UNCHANGED <<online, ops>>
        /\ sees' \in [User -> BOOLEAN] /\ unheard' \subseteq User
    BY PeerIsUser DEF Inbound, Typed
  <1>4. s \in Stanza
    BY <1>3 DEF Typed
  <1>5. PresenceOf(u) \in Seq(Stanza)
    BY StanzaSeqs, StanzaNames DEF PresenceOf
  <1>6. CASE s = "probe"
    <2>1. InboundProbe(u)
      BY <1>6 DEF Inbound
    <2> QED BY <2>1, <1>1, <1>2, <1>3, <1>5, OperationsKeepForm, OutboundAreStanzas, HandleKeepsInv
            DEF InboundProbe
  <1>7. CASE s = "subscribe"
    <2> DEFINE again == rm_subscribed(i, p)
               asked == set_contact_pending_in(i, p)
               preapproved == rm_subscribed(asked.i, asked.p)
    <2>1. InboundSubscribe(u)
      BY <1>7 DEF Inbound
    <2>2. FormedResult(again) /\ FormedResult(asked)
      BY <1>1, OperationsKeepForm
    <2>3. FormedResult(preapproved)
      BY <2>2, OperationsKeepForm DEF FormedResult
    <2>4. OutboundSubscribed(u, again) \o PresenceOf(u) \in Seq(Stanza)
      BY <1>5, OutboundAreStanzas, StanzaSeqs
    <2>5. OutboundSubscribed(u, preapproved) \in Seq(Stanza)
      BY OutboundAreStanzas
    <2> HIDE DEF again, asked, preapproved
    <2>6. FormedResult(IF p THEN Keep(u) ELSE asked)
      BY <1>2, <2>2
    <2>7. \/ Handle(u, again, OutboundSubscribed(u, again) \o PresenceOf(u))
          \/ Handle(u, Keep(u), <<>>)
          \/ Handle(u, preapproved, OutboundSubscribed(u, preapproved))
          \/ Handle(u, IF p THEN Keep(u) ELSE asked, <<"unavailable">>)
      BY <2>1 DEF InboundSubscribe, again, asked, preapproved
    <2>8. CASE Handle(u, again, OutboundSubscribed(u, again) \o PresenceOf(u))
      BY <2>8, <2>2, <2>4, <1>3, HandleKeepsInv
    <2>9. CASE Handle(u, Keep(u), <<>>)
      BY <2>9, <1>2, <1>3, StanzaSeqs, HandleKeepsInv
    <2>10. CASE Handle(u, preapproved, OutboundSubscribed(u, preapproved))
      BY <2>10, <2>3, <2>5, <1>3, HandleKeepsInv
    <2>11. CASE Handle(u, IF p THEN Keep(u) ELSE asked, <<"unavailable">>)
      BY <2>11, <2>6, <1>3, StanzaSeqs, StanzaNames, HandleKeepsInv
    <2> QED BY <2>7, <2>8, <2>9, <2>10, <2>11
  <1>8. CASE s = "subscribed"
    <2>1. Handle(u, process_inbound_subscription_approval(i, p), <<>>)
      BY <1>8 DEF Inbound
    <2> QED BY <2>1, <1>1, <1>3, OperationsKeepForm, StanzaSeqs, HandleKeepsInv
  <1>9. CASE s = "unsubscribe"
    <2>1. Handle(u, process_inbound_unsubscribe(i, p), <<>>)
      BY <1>9 DEF Inbound
    <2> QED BY <2>1, <1>1, <1>3, OperationsKeepForm, StanzaSeqs, HandleKeepsInv
  <1>10. CASE s = "unsubscribed"
    <2>1. Handle(u, process_inbound_subscription_cancellation(i, p), <<>>)
      BY <1>10 DEF Inbound
    <2> QED BY <2>1, <1>1, <1>3, OperationsKeepForm, StanzaSeqs, HandleKeepsInv
  <1>11. CASE s \in {"available", "unavailable"}
    <2>1. Handle(u, Keep(u), <<>>)
      BY <1>11 DEF Inbound
    <2> QED BY <2>1, <1>2, <1>3, StanzaSeqs, HandleKeepsInv
  <1> QED BY <1>4, <1>6, <1>7, <1>8, <1>9, <1>10, <1>11 DEF Stanza

(* Any request of a client keeps the invariant.                            *)
LEMMA ClientKeepsInv ==
  ASSUME Typed, AllFormed, NEW u \in User, ClientStep(u)
  PROVE  Typed' /\ AllFormed'
  <1> DEFINE i == item[u]
             p == pending[u]
  <1>1. Formed(i, p)
    BY DEF AllFormed
  <1>2. FormedResult(Keep(u))
    BY <1>1 DEF FormedResult, Keep, Result
  <1>3. CASE subscribe(u)
    BY <1>3, <1>1, OperationsKeepForm, StanzaSeqs, StanzaNames, RequestKeepsInv
       DEF subscribe, Typed
  <1>4. CASE unsubscribe(u)
    BY <1>4, <1>1, OperationsKeepForm, StanzaSeqs, StanzaNames, RequestKeepsInv
       DEF unsubscribe, Typed
  <1>5. CASE subscribed(u)
    BY <1>5, <1>1, OperationsKeepForm, OutboundAreStanzas, RequestKeepsInv
       DEF subscribed, Typed
  <1>6. CASE unsubscribed(u)
    BY <1>6, <1>1, OperationsKeepForm, OutboundAreStanzas, RequestKeepsInv
       DEF unsubscribed, Typed
  <1>7. CASE roster_set(u)
    <2> DEFINE r == Result([i EXCEPT !.exists = TRUE, !.approved = FALSE], p, TRUE)
    <2>1. FormedResult(r)
      BY <1>1 DEF FormedResult, Formed, Result, RosterItem
    <2>2. Request(u, r, <<>>) /\ UNCHANGED <<online, sees>>
      BY <1>7 DEF roster_set
    <2> HIDE DEF r
    <2> QED BY <2>1, <2>2, StanzaSeqs, RequestKeepsInv DEF Typed
  <1>8. CASE roster_remove(u)
    <2> DEFINE r == Result(NoItem, p, TRUE)
               x == IF From(i.subscription) \/ p THEN <<"unsubscribed">> ELSE <<>>
               y == IF To(i.subscription) \/ i.ask THEN Unavailable(u) \o <<"unsubscribe">>
                      ELSE <<>>
    <2>1. FormedResult(r)
      BY <1>1 DEF FormedResult, Formed, Result, RosterItem, Subscription, NoItem, To, From
    <2>2. x \in Seq(Stanza)
      BY StanzaSeqs, StanzaNames
    <2>3. y \in Seq(Stanza)
      BY StanzaSeqs, StanzaNames, OutboundAreStanzas
    <2>4. Request(u, r, x \o y) /\ UNCHANGED <<online, sees>>
      BY <1>8 DEF roster_remove
    <2> HIDE DEF r, x, y
    <2>5. x \o y \in Seq(Stanza)
      BY <2>2, <2>3, StanzaSeqs
    <2> QED BY <2>1, <2>4, <2>5, RequestKeepsInv DEF Typed
  <1>9. CASE initial_presence(u)
    <2> DEFINE x == IF UserFrom(u) THEN <<"available">> ELSE <<>>
               y == IF UserTo(u) THEN <<"probe">> ELSE <<>>
               z == IF item[u].ask THEN <<"subscribe">> ELSE <<>>
    <2>1. x \in Seq(Stanza) /\ y \in Seq(Stanza) /\ z \in Seq(Stanza)
      BY StanzaSeqs, StanzaNames
    <2>2. Request(u, Keep(u), x \o y \o z) /\ online' = [online EXCEPT ![u] = TRUE]
          /\ UNCHANGED sees
      BY <1>9 DEF initial_presence
    <2> HIDE DEF x, y, z
    <2>3. x \o y \o z \in Seq(Stanza)
      BY <2>1, StanzaSeqs
    <2> QED BY <1>2, <2>2, <2>3, RequestKeepsInv DEF Typed
  <1>10. CASE unavailable_presence(u)
    <2> DEFINE x == IF UserFrom(u) THEN <<"unavailable">> ELSE <<>>
    <2>1. x \in Seq(Stanza)
      BY StanzaSeqs, StanzaNames
    <2>2. Request(u, Keep(u), x)
      BY <1>10 DEF unavailable_presence
    <2>3. online' \in [User -> BOOLEAN] /\ sees' \in [User -> BOOLEAN]
      BY <1>10 DEF unavailable_presence, Typed
    <2> HIDE DEF x
    <2> QED BY <1>2, <2>1, <2>2, <2>3, RequestKeepsInv
  <1> QED BY <1>3, <1>4, <1>5, <1>6, <1>7, <1>8, <1>9, <1>10 DEF ClientStep

(* Whatever requests, answers and removals cross on the way between the    *)
(* two servers, and however many there are, no operation of rostermanager  *)
(* and no handler of mod_presence leaves a malformed roster item: none     *)
(* asks for a subscription it has, and no request stays pending for a      *)
(* contact that is already subscribed.                                     *)
THEOREM RosterInvariant == Spec => []RosterInv
  <1>1. RosterInit => Typed /\ AllFormed
    BY RosterAssumption DEF RosterInit, Typed, AllFormed, Formed, RosterItem, Subscription,
       NoItem, To, From, User
  <1>2. Typed /\ AllFormed /\ [Next]_vars => Typed' /\ AllFormed'
    <2> SUFFICES ASSUME Typed, AllFormed, [Next]_vars
                 PROVE  Typed' /\ AllFormed'
      OBVIOUS
    <2>1. CASE Next
      BY <2>1, ClientKeepsInv, InboundKeepsInv DEF Next
    <2>2. CASE UNCHANGED vars
      BY <2>2 DEF vars, Typed, AllFormed
    <2> QED BY <2>1, <2>2
  <1> QED BY <1>1, <1>2, InvIsFormed, PTL DEF Spec
-----------------------------------------------------------------------------
(* AGREEMENT.  The streams between the servers, and what each side has yet *)
(* to learn from them.                                                     *)

(* s holds the stanza x. *)
Has(s, x) == \E k \in DOMAIN s : s[k] = x

(* The stanza on comes in s, and the stanza off does not come after it. *)
Ends(s, on, off) == \E k \in DOMAIN s : s[k] = on /\ \A j \in DOMAIN s : j > k => s[j] # off

(* What becomes of a flag b, once s is read, that the stanza on sets and   *)
(* the stanza off clears.                                                  *)
After(s, on, off, b) == Ends(s, on, off) \/ (b /\ ~Has(s, off))

(* u is subscribed or has asked to be; the contact of u serves it or has   *)
(* its request, and what u's client will take the contact for.             *)
Wants(u) == item[u].ask \/ UserTo(u)
Served(u) == After(chan[Peer(u)], "subscribe", "unsubscribe", UserFrom(Peer(u)) \/ pending[Peer(u)])
WillSee(u) == After(chan[u], "available", "unavailable", sees[u])

(* Who wants and is not about to be refused will be served or considered.  *)
WantMeansServed(u) == Wants(u) /\ ~Has(chan[u], "unsubscribed") => Served(u)

(* A request the contact has granted already has an answer, or will have.  *)
AskMeansAnswered(u) ==
  item[u].ask /\ UserFrom(Peer(u)) =>
    \/ Has(chan[u], "subscribed") \/ Has(chan[u], "unsubscribed")
    \/ Has(chan[Peer(u)], "subscribe") \/ Has(chan[Peer(u)], "unsubscribe")

(* A user who waits for an answer takes the contact for offline, and one   *)
(* who is offline takes it for nothing.                                    *)
PendingMeansUnseen(u) == pending[Peer(u)] => ~WillSee(u)
OfflineMeansUnseen(u) == ~online[u] => ~sees[u]

(* Who is served will know the contact's presence, or is about to be told. *)
ServedMeansTold(u) ==
  online[u] /\ Wants(u) /\ UserFrom(Peer(u)) =>
    \/ Has(chan[Peer(u)], "probe") \/ Has(chan[Peer(u)], "subscribe")
    \/ /\ online[Peer(u)] => WillSee(u)
       /\ WillSee(u) => online[Peer(u)] \/ u \in unheard

Agreeing(u) ==
  /\ WantMeansServed(u) /\ AskMeansAnswered(u) /\ PendingMeansUnseen(u)
  /\ OfflineMeansUnseen(u) /\ ServedMeansTold(u)

AgreeInv == \A u \in User : Agreeing(u)

(* An empty stream holds nothing.                                          *)
LEMMA HoldsNothing ==
  ASSUME NEW on, NEW off
  PROVE  ~Has(<<>>, on) /\ ~Ends(<<>>, on, off)
  BY DEF Has, Ends

(* A stream of one stanza holds that stanza.                               *)
LEMMA HoldsOne ==
  ASSUME NEW x, NEW on, NEW off
  PROVE  (Has(<<x>>, on) <=> x = on) /\ (Ends(<<x>>, on, off) <=> x = on)
  BY DEF Has, Ends

(* What a stream holds when r is sent after s.                             *)
LEMMA HoldsSent ==
  ASSUME NEW s \in Seq(Stanza), NEW r \in Seq(Stanza), NEW on, NEW off
  PROVE  /\ Has(s \o r, on) <=> Has(s, on) \/ Has(r, on)
         /\ Ends(s \o r, on, off) <=> Ends(r, on, off) \/ (Ends(s, on, off) /\ ~Has(r, off))
  <1> DEFINE c == s \o r
  <1>1. /\ c \in Seq(Stanza) /\ Len(c) = Len(s) + Len(r)
        /\ Len(s) \in Nat /\ Len(r) \in Nat
        /\ DOMAIN s = 1 .. Len(s) /\ DOMAIN r = 1 .. Len(r) /\ DOMAIN c = 1 .. Len(c)
    OBVIOUS
  <1>2. \A k \in 1 .. Len(s) : k \in DOMAIN c /\ c[k] = s[k]
    BY <1>1
  <1>3. \A k \in 1 .. Len(r) : k + Len(s) \in DOMAIN c /\ c[k + Len(s)] = r[k]
    BY <1>1
  <1>4. \A k \in DOMAIN c : k \in DOMAIN s \/ (k - Len(s) \in DOMAIN r /\ c[k] = r[k - Len(s)])
    BY <1>1
  <1> HIDE DEF c
  <1>5. Has(c, on) <=> Has(s, on) \/ Has(r, on)
    BY <1>1, <1>2, <1>3, <1>4 DEF Has
  <1>6. Ends(r, on, off) => Ends(c, on, off)
    <2> SUFFICES ASSUME NEW k \in DOMAIN r, r[k] = on, \A j \in DOMAIN r : j > k => r[j] # off
                 PROVE  Ends(c, on, off)
      BY DEF Ends
    <2>1. k + Len(s) \in DOMAIN c /\ c[k + Len(s)] = on
      BY <1>1, <1>3
    <2>2. \A j \in DOMAIN c : j > k + Len(s) => c[j] # off
      BY <1>1, <1>4
    <2> QED BY <2>1, <2>2 DEF Ends
  <1>7. Ends(s, on, off) /\ ~Has(r, off) => Ends(c, on, off)
    <2> SUFFICES ASSUME NEW k \in DOMAIN s, s[k] = on, \A j \in DOMAIN s : j > k => s[j] # off,
                        ~Has(r, off)
                 PROVE  Ends(c, on, off)
      BY DEF Ends
    <2>1. k \in DOMAIN c /\ c[k] = on
      BY <1>1, <1>2
    <2>2. \A j \in DOMAIN c : j > k => c[j] # off
      BY <1>1, <1>2, <1>4 DEF Has
    <2> QED BY <2>1, <2>2 DEF Ends
  <1>8. Ends(c, on, off) => Ends(r, on, off) \/ (Ends(s, on, off) /\ ~Has(r, off))
    <2> SUFFICES ASSUME NEW k \in DOMAIN c, c[k] = on, \A j \in DOMAIN c : j > k => c[j] # off
                 PROVE  Ends(r, on, off) \/ (Ends(s, on, off) /\ ~Has(r, off))
      BY DEF Ends
    <2>1. CASE k \in DOMAIN s
      <3>1. s[k] = on /\ \A j \in DOMAIN s : j > k => s[j] # off
        BY <2>1, <1>1, <1>2
      <3>2. ASSUME NEW j \in DOMAIN r PROVE r[j] # off
        <4>1. j + Len(s) \in DOMAIN c /\ c[j + Len(s)] = r[j]
          BY <1>1, <1>3
        <4>2. j + Len(s) > k
          BY <2>1, <1>1
        <4> QED BY <4>1, <4>2
      <3> QED BY <2>1, <3>1, <3>2 DEF Ends, Has
    <2>2. CASE k \notin DOMAIN s
      <3>1. k - Len(s) \in DOMAIN r /\ r[k - Len(s)] = on
        BY <2>2, <1>1, <1>4
      <3>2. ASSUME NEW j \in DOMAIN r, j > k - Len(s) PROVE r[j] # off
        <4>1. j + Len(s) \in DOMAIN c /\ c[j + Len(s)] = r[j]
          BY <1>1, <1>3
        <4>2. j + Len(s) > k
          BY <3>2, <1>1
        <4> QED BY <4>1, <4>2
      <3> QED BY <3>1, <3>2 DEF Ends
    <2> QED BY <2>1, <2>2
  <1> QED BY <1>5, <1>6, <1>7, <1>8 DEF c

(* What a stream holds before its first stanza is read.                    *)
LEMMA HoldsRead ==
  ASSUME NEW s \in Seq(Stanza), s # <<>>, NEW on, NEW off
  PROVE  /\ Has(s, on) <=> Head(s) = on \/ Has(Tail(s), on)
         /\ Ends(s, on, off) <=>
              Ends(Tail(s), on, off) \/ (Head(s) = on /\ ~Has(Tail(s), off))
  <1>1. /\ Head(s) \in Stanza /\ <<Head(s)>> \in Seq(Stanza) /\ Tail(s) \in Seq(Stanza)
        /\ s = <<Head(s)>> \o Tail(s)
    OBVIOUS
  <1>2. /\ Has(<<Head(s)>> \o Tail(s), on) <=> Has(<<Head(s)>>, on) \/ Has(Tail(s), on)
        /\ Ends(<<Head(s)>> \o Tail(s), on, off) <=>
             Ends(Tail(s), on, off) \/ (Ends(<<Head(s)>>, on, off) /\ ~Has(Tail(s), off))
    BY <1>1, HoldsSent
  <1> QED BY <1>1, <1>2, HoldsOne

(* What sets a flag for good is there.                                     *)
LEMMA EndsMeansHas ==
  ASSUME NEW s, NEW on, NEW off
  PROVE  /\ Ends(s, on, off) => Has(s, on)
  BY DEF Ends, Has

(* What an operation makes of the two halves of a subscription, of the     *)
(* request made and of the request that waits.                             *)
Makes(r, ask, to, from, p) ==
  /\ r.i.ask <=> ask
  /\ To(r.i.subscription) <=> to
  /\ From(r.i.subscription) <=> from
  /\ r.p <=> p

(* The operations of core/rostermanager.lua, half by half.                 *)
LEMMA OperationsMake ==
  ASSUME NEW i, NEW p, Formed(i, p)
  PROVE  LET to == To(i.subscription)
             from == From(i.subscription)
         IN /\ Makes(set_contact_pending_out(i, p), i.ask \/ ~to, to, from, p)
            /\ Makes(rm_unsubscribe(i, p), FALSE, FALSE, from, p)
            /\ Makes(rm_subscribed(i, p), i.ask, to, from \/ p, FALSE)
            /\ Makes(rm_unsubscribed(i, p), i.ask, to, FALSE, FALSE)
            /\ rm_unsubscribed(i, p).ok <=> p \/ from
            /\ Makes(set_contact_pending_in(i, p), i.ask, to, from, p \/ ~from)
            /\ Makes(process_inbound_subscription_approval(i, p), FALSE, to \/ i.ask, from, p)
            /\ Makes(process_inbound_subscription_cancellation(i, p), FALSE, FALSE, from, p)
            /\ Makes(process_inbound_unsubscribe(i, p), i.ask, to, FALSE, FALSE)
  <1> USE DEF Makes, Formed, Result, RosterItem, Subscription, To, From, WithoutTo, WithoutFrom
  <1>1. Makes(set_contact_pending_out(i, p), i.ask \/ ~To(i.subscription), To(i.subscription),
              From(i.subscription), p)
    BY DEF set_contact_pending_out
  <1>2. Makes(rm_unsubscribe(i, p), FALSE, FALSE, From(i.subscription), p)
    BY DEF rm_unsubscribe
  <1>3. Makes(rm_subscribed(i, p), i.ask, To(i.subscription), From(i.subscription) \/ p, FALSE)
    BY DEF rm_subscribed
  <1>4. /\ Makes(rm_unsubscribed(i, p), i.ask, To(i.subscription), FALSE, FALSE)
        /\ rm_unsubscribed(i, p).ok <=> p \/ From(i.subscription)
    BY DEF rm_unsubscribed
  <1>5. Makes(set_contact_pending_in(i, p), i.ask, To(i.subscription), From(i.subscription),
              p \/ ~From(i.subscription))
    BY DEF set_contact_pending_in
  <1>6. Makes(process_inbound_subscription_approval(i, p), FALSE, To(i.subscription) \/ i.ask,
              From(i.subscription), p)
    BY DEF process_inbound_subscription_approval
  <1>7. Makes(process_inbound_subscription_cancellation(i, p), FALSE, FALSE,
              From(i.subscription), p)
    BY DEF process_inbound_subscription_cancellation
  <1>8. Makes(process_inbound_unsubscribe(i, p), i.ask, To(i.subscription), FALSE, FALSE)
    BY DEF process_inbound_unsubscribe
  <1> QED BY <1>1, <1>2, <1>3, <1>4, <1>5, <1>6, <1>7, <1>8

(* What the outbound handlers send.                                        *)
LEMMA PresenceHolds ==
  ASSUME NEW u, NEW on, NEW off
  PROVE  /\ Has(Available(u), on) <=> online[u] /\ on = "available"
         /\ Ends(Available(u), on, off) <=> online[u] /\ on = "available"
         /\ Has(Unavailable(u), on) <=> online[u] /\ on = "unavailable"
         /\ Ends(Unavailable(u), on, off) <=> online[u] /\ on = "unavailable"
         /\ Has(PresenceOf(u), on) <=> on = IF online[u] THEN "available" ELSE "unavailable"
         /\ Ends(PresenceOf(u), on, off) <=> on = IF online[u] THEN "available" ELSE "unavailable"
  BY HoldsNothing, HoldsOne DEF Available, Unavailable, PresenceOf

(* What goes out with an approval.                                         *)
LEMMA SubscribedHolds ==
  ASSUME NEW u, NEW r, NEW on, NEW off
  PROVE  LET s == OutboundSubscribed(u, r)
             from == From(r.i.subscription)
             to == To(r.i.subscription)
         IN /\ s \in Seq(Stanza)
            /\ Has(s, on) <=> \/ from /\ on = "subscribed"
                              \/ from /\ online[u] /\ on = "available"
                              \/ to /\ on = "probe"
            /\ Ends(s, "available", "unavailable") <=> from /\ online[u]
            /\ ~Ends(s, "subscribe", "unsubscribe")
  <1> DEFINE from == From(r.i.subscription)
             to == To(r.i.subscription)
             x == IF from THEN <<"subscribed">> \o Available(u) ELSE <<>>
             y == IF to THEN <<"probe">> ELSE <<>>
             s == x \o y
  <1>1. Available(u) \in Seq(Stanza) /\ <<"subscribed">> \in Seq(Stanza)
    BY OutboundAreStanzas, StanzaSeqs, StanzaNames
  <1>2. x \in Seq(Stanza) /\ y \in Seq(Stanza)
    BY <1>1, StanzaSeqs, StanzaNames
  <1>3. ASSUME NEW n, NEW f
        PROVE  /\ Has(x, n) <=> from /\ (n = "subscribed" \/ (online[u] /\ n = "available"))
               /\ Ends(x, n, f) <=> from /\ \/ online[u] /\ n = "available"
                                            \/ n = "subscribed" /\ ~(online[u] /\ f = "available")
    <2>1. Has(<<"subscribed">> \o Available(u), n) <=>
            n = "subscribed" \/ (online[u] /\ n = "available")
      BY <1>1, HoldsSent, HoldsOne, PresenceHolds
    <2>2. Ends(<<"subscribed">> \o Available(u), n, f) <=>
            \/ online[u] /\ n = "available"
            \/ n = "subscribed" /\ ~(online[u] /\ f = "available")
      <3>1. Ends(<<"subscribed">> \o Available(u), n, f) <=>
              \/ Ends(Available(u), n, f)
              \/ Ends(<<"subscribed">>, n, f) /\ ~Has(Available(u), f)
        BY <1>1, HoldsSent
      <3> QED BY <3>1, HoldsOne, PresenceHolds
    <2> QED BY <2>1, <2>2, HoldsNothing
  <1>4. ASSUME NEW n, NEW f
        PROVE  /\ Has(y, n) <=> to /\ n = "probe"
               /\ Ends(y, n, f) <=> to /\ n = "probe"
    BY HoldsNothing, HoldsOne
  <1> HIDE DEF x, y
  <1>5. s \in Seq(Stanza)
    BY <1>2
  <1>6. Has(s, on) <=> \/ from /\ on = "subscribed"
                       \/ from /\ online[u] /\ on = "available"
                       \/ to /\ on = "probe"
    BY <1>2, <1>3, <1>4, HoldsSent
  <1>7. Ends(s, "available", "unavailable") <=> from /\ online[u]
    BY <1>2, <1>3, <1>4, HoldsSent
  <1>8. ~Ends(s, "subscribe", "unsubscribe")
    BY <1>2, <1>3, <1>4, HoldsSent
  <1>9. s = OutboundSubscribed(u, r)
    BY DEF x, y, OutboundSubscribed
  <1> QED BY <1>5, <1>6, <1>7, <1>8, <1>9

(* What goes out with a refusal.                                           *)
LEMMA UnsubscribedHolds ==
  ASSUME NEW u, NEW r, NEW on, NEW off
  PROVE  LET s == OutboundUnsubscribed(u, r)
         IN /\ s \in Seq(Stanza)
            /\ Has(s, on) <=> r.ok /\ \/ on = "unsubscribed"
                                      \/ UserFrom(u) /\ online[u] /\ on = "unavailable"
            /\ ~Ends(s, "available", "unavailable") /\ ~Ends(s, "subscribe", "unsubscribe")
  <1> DEFINE x == IF UserFrom(u) THEN Unavailable(u) ELSE <<>>
             s == <<"unsubscribed">> \o x
  <1>1. x \in Seq(Stanza) /\ <<"unsubscribed">> \in Seq(Stanza)
    BY OutboundAreStanzas, StanzaSeqs, StanzaNames
  <1>2. ASSUME NEW n
        PROVE  Has(x, n) <=> UserFrom(u) /\ online[u] /\ n = "unavailable"
    BY HoldsNothing, PresenceHolds
  <1>3. ASSUME NEW n PROVE Has(s, n) <=> n = "unsubscribed" \/ Has(x, n)
    <2> HIDE DEF x
    <2> QED BY <1>1, HoldsSent, HoldsOne
  <1>4. OutboundUnsubscribed(u, r) = IF r.ok THEN s ELSE <<>>
    BY DEF OutboundUnsubscribed
  <1>5. s \in Seq(Stanza)
    <2> HIDE DEF x
    <2> QED BY <1>1
  <1> HIDE DEF s, x
  <1>6. ~Ends(s, "available", "unavailable") /\ ~Ends(s, "subscribe", "unsubscribe")
    BY <1>2, <1>3, EndsMeansHas
  <1>7. CASE r.ok
    BY <1>2, <1>3, <1>4, <1>5, <1>6, <1>7
  <1>8. CASE ~r.ok
    BY <1>4, <1>8, HoldsNothing, StanzaSeqs
  <1> QED BY <1>7, <1>8
-----------------------------------------------------------------------------
(* The contact of the contact.                                             *)
LEMMA PeerOfPeer ==
  ASSUME NEW u \in User
  PROVE  Peer(u) \in User /\ Peer(u) # u /\ Peer(Peer(u)) = u /\ User = {u, Peer(u)}
  BY DEF User, Peer

(* What a request of u with roster operation r changes, when it sends s:   *)
(* u's own item, and what is on the way to the contact.                    *)
Requested(u, w, r, s) ==
  /\ item'[u] = r.i /\ pending'[u] = r.p
  /\ item'[w] = item[w] /\ pending'[w] = pending[w]
  /\ chan'[u] = chan[u] /\ unheard' = unheard
  /\ \A x, y : /\ Has(chan'[w], x) <=> Has(chan[w], x) \/ Has(s, x)
               /\ Ends(chan'[w], x, y) <=>
                    Ends(s, x, y) \/ (Ends(chan[w], x, y) /\ ~Has(s, y))

(* A request does just that.                                               *)
LEMMA RequestEffect ==
  ASSUME Typed, NEW u \in User, NEW r, NEW s \in Seq(Stanza), Request(u, r, s)
  PROVE  Requested(u, Peer(u), r, s)
  <1> DEFINE c == chan[Peer(u)]
  <1>1. Peer(u) \in User /\ Peer(u) # u
    BY PeerOfPeer
  <1>2. chan'[Peer(u)] = c \o s /\ c \in Seq(Stanza)
    BY <1>1 DEF Request, Typed
  <1> HIDE DEF c
  <1>3. ASSUME NEW x, NEW y
        PROVE  /\ Has(c \o s, x) <=> Has(c, x) \/ Has(s, x)
               /\ Ends(c \o s, x, y) <=> Ends(s, x, y) \/ (Ends(c, x, y) /\ ~Has(s, y))
    BY <1>2, HoldsSent
  <1> QED BY <1>1, <1>2, <1>3 DEF Requested, Request, Update, Typed, c

(* It is enough to look at the two users in turn.                          *)
LEMMA BothAgree ==
  ASSUME NEW u \in User, Agreeing(u)', Agreeing(Peer(u))'
  PROVE  AgreeInv'
  BY PeerOfPeer DEF AgreeInv

(* The two users before a step.                                            *)
Facing(u, w) ==
  /\ w \in User /\ w = Peer(u) /\ w # u /\ Peer(w) = u
  /\ Agreeing(u) /\ Agreeing(w)
  /\ ~(pending[u] /\ UserFrom(u)) /\ ~(pending[w] /\ UserFrom(w))
  /\ ~(item[u].ask /\ UserTo(u)) /\ ~(item[w].ask /\ UserTo(w))

(* The invariants, for u and its contact.                                  *)
LEMMA TheyFace ==
  ASSUME AllFormed, AgreeInv, NEW u \in User
  PROVE  Facing(u, Peer(u))
  BY PeerOfPeer DEF Facing, AgreeInv, AllFormed, Formed, UserTo, UserFrom

(* No request of a client breaks the agreement. *)
LEMMA ClientKeepsAgreement ==
  ASSUME Typed, AllFormed, AgreeInv, NEW u \in User, ClientStep(u)
  PROVE  AgreeInv'
  <1> DEFINE i == item[u]
             p == pending[u]
             w == Peer(u)
  <1>1. Formed(i, p) /\ Facing(u, w)
    BY TheyFace DEF AllFormed
  <1>2. Makes(Keep(u), i.ask, UserTo(u), UserFrom(u), p)
    BY DEF Makes, Keep, Result, UserTo, UserFrom
  <1> HIDE DEF w
  <1>3. SUFFICES Agreeing(u)' /\ Agreeing(w)'
    BY BothAgree DEF w
  <1>4. ASSUME NEW r, NEW s \in Seq(Stanza), Request(u, r, s)
        PROVE  Requested(u, w, r, s)
    BY <1>4, RequestEffect DEF w
  <1> USE DEF Requested, Facing, Agreeing, WantMeansServed, AskMeansAnswered, PendingMeansUnseen,
              OfflineMeansUnseen, ServedMeansTold, Wants, Served, WillSee, After, Makes, UserTo,
              UserFrom
  <1>5. CASE subscribe(u)
    <2> DEFINE r == set_contact_pending_out(i, p)
               s == <<"subscribe">>
    <2>1. s \in Seq(Stanza) /\ Request(u, r, s) /\ UNCHANGED <<online, sees>>
      BY <1>5, StanzaSeqs, StanzaNames DEF subscribe
    <2>2. Makes(r, i.ask \/ ~UserTo(u), UserTo(u), UserFrom(u), p)
      BY <1>1, OperationsMake
    <2>3. \A x, y : (Has(s, x) <=> x = "subscribe") /\ (Ends(s, x, y) <=> x = "subscribe")
      BY HoldsOne
    <2> HIDE DEF r, s, Requested
    <2>4. Requested(u, w, r, s)
      BY <1>4, <2>1
    <2> USE DEF Requested
    <2>5. Agreeing(u)'
      BY <1>1, <2>1, <2>2, <2>3, <2>4
    <2>6. Agreeing(w)'
      BY <1>1, <2>1, <2>2, <2>3, <2>4
    <2> QED BY <2>5, <2>6
  <1>6. CASE unsubscribe(u)
    <2> DEFINE r == rm_unsubscribe(i, p)
               s == <<"unsubscribe">>
    <2>1. s \in Seq(Stanza) /\ Request(u, r, s) /\ UNCHANGED <<online, sees>>
      BY <1>6, StanzaSeqs, StanzaNames DEF unsubscribe
    <2>2. Makes(r, FALSE, FALSE, UserFrom(u), p)
      BY <1>1, OperationsMake
    <2>3. \A x, y : (Has(s, x) <=> x = "unsubscribe") /\ (Ends(s, x, y) <=> x = "unsubscribe")
      BY HoldsOne
    <2> HIDE DEF r, s, Requested
    <2>4. Requested(u, w, r, s)
      BY <1>4, <2>1
    <2> USE DEF Requested
    <2>5. Agreeing(u)'
      BY <1>1, <2>1, <2>2, <2>3, <2>4
    <2>6. Agreeing(w)'
      BY <1>1, <2>1, <2>2, <2>3, <2>4
    <2> QED BY <2>5, <2>6
  <1>7. CASE subscribed(u)
    <2> DEFINE r == rm_subscribed(i, p)
               s == OutboundSubscribed(u, r)
    <2>1. s \in Seq(Stanza) /\ Request(u, r, s) /\ UNCHANGED <<online, sees>>
      BY <1>7, OutboundAreStanzas DEF subscribed
    <2>2. Makes(r, i.ask, UserTo(u), UserFrom(u) \/ p, FALSE)
      BY <1>1, OperationsMake
    <2>3. \A x : Has(s, x) <=> \/ (UserFrom(u) \/ p) /\ x = "subscribed"
                               \/ (UserFrom(u) \/ p) /\ online[u] /\ x = "available"
                               \/ UserTo(u) /\ x = "probe"
      BY <2>2, SubscribedHolds
    <2>4. /\ Ends(s, "available", "unavailable") <=> (UserFrom(u) \/ p) /\ online[u]
          /\ ~Ends(s, "subscribe", "unsubscribe")
      BY <2>2, SubscribedHolds
    <2> HIDE DEF r, s, Requested
    <2>5. Requested(u, w, r, s)
      BY <1>4, <2>1
    <2> USE DEF Requested
    <2>6. Agreeing(u)'
      BY <1>1, <2>1, <2>2, <2>3, <2>4, <2>5
    <2>7. Agreeing(w)'
      BY <1>1, <2>1, <2>2, <2>3, <2>4, <2>5
    <2> QED BY <2>6, <2>7
  <1>8. CASE unsubscribed(u)
    <2> DEFINE r == rm_unsubscribed(i, p)
               s == OutboundUnsubscribed(u, r)
    <2>1. s \in Seq(Stanza) /\ Request(u, r, s) /\ UNCHANGED <<online, sees>>
      BY <1>8, OutboundAreStanzas DEF unsubscribed
    <2>2. Makes(r, i.ask, UserTo(u), FALSE, FALSE) /\ (r.ok <=> p \/ UserFrom(u))
      BY <1>1, OperationsMake
    <2>3. \A x : Has(s, x) <=> (p \/ UserFrom(u)) /\
                   (x = "unsubscribed" \/ (UserFrom(u) /\ online[u] /\ x = "unavailable"))
      BY <2>2, UnsubscribedHolds
    <2>4. ~Ends(s, "available", "unavailable") /\ ~Ends(s, "subscribe", "unsubscribe")
      BY UnsubscribedHolds
    <2> HIDE DEF r, s, Requested
    <2>5. Requested(u, w, r, s)
      BY <1>4, <2>1
    <2> USE DEF Requested
    <2>6. Agreeing(u)'
      BY <1>1, <2>1, <2>2, <2>3, <2>4, <2>5, ZenonT(60)
    <2>7. Agreeing(w)'
      BY <1>1, <2>1, <2>2, <2>3, <2>4, <2>5
    <2> QED BY <2>6, <2>7
  <1>9. CASE roster_set(u)
    <2> DEFINE r == Result([i EXCEPT !.exists = TRUE, !.approved = FALSE], p, TRUE)
    <2>1. <<>> \in Seq(Stanza) /\ Request(u, r, <<>>) /\ UNCHANGED <<online, sees>>
      BY <1>9, StanzaSeqs DEF roster_set
    <2>2. Makes(r, i.ask, UserTo(u), UserFrom(u), p)
      BY <1>1 DEF Formed, RosterItem, Result
    <2>3. \A x, y : ~Has(<<>>, x) /\ ~Ends(<<>>, x, y)
      BY HoldsNothing
    <2> HIDE DEF r, Requested
    <2>4. Requested(u, w, r, <<>>)
      BY <1>4, <2>1
    <2> USE DEF Requested
    <2>5. Agreeing(u)'
      BY <1>1, <2>1, <2>2, <2>3, <2>4
    <2>6. Agreeing(w)'
      BY <1>1, <2>1, <2>2, <2>3, <2>4
    <2> QED BY <2>5, <2>6
  <1>10. CASE roster_remove(u)
    <2> DEFINE r == Result(NoItem, p, TRUE)
               a == IF UserFrom(u) \/ p THEN <<"unsubscribed">> ELSE <<>>
               b == Unavailable(u) \o <<"unsubscribe">>
               c == IF UserTo(u) \/ i.ask THEN b ELSE <<>>
               s == a \o c
    <2>1. a \in Seq(Stanza) /\ b \in Seq(Stanza) /\ c \in Seq(Stanza)
      BY StanzaSeqs, StanzaNames, OutboundAreStanzas
    <2>2. Makes(r, FALSE, FALSE, FALSE, p)
      BY DEF Result, NoItem, To, From
    <2>3. \A x : Has(a, x) <=> (UserFrom(u) \/ p) /\ x = "unsubscribed"
      BY HoldsNothing, HoldsOne
    <2>4. ASSUME NEW x
          PROVE  Has(b, x) <=> (online[u] /\ x = "unavailable") \/ x = "unsubscribe"
      <3>1. Has(b, x) <=> Has(Unavailable(u), x) \/ Has(<<"unsubscribe">>, x)
        BY StanzaSeqs, StanzaNames, OutboundAreStanzas, HoldsSent
      <3> QED BY <3>1, HoldsOne, PresenceHolds
    <2> HIDE DEF b
    <2>5. \A x : Has(c, x) <=>
            (UserTo(u) \/ i.ask) /\ ((online[u] /\ x = "unavailable") \/ x = "unsubscribe")
      BY <2>4, HoldsNothing
    <2>6. Request(u, r, s) /\ UNCHANGED <<online, sees>>
      BY <1>10 DEF roster_remove, b
    <2> HIDE DEF r, a, c
    <2>7. \A x : Has(s, x) <=> Has(a, x) \/ Has(c, x)
      BY <2>1, HoldsSent
    <2>8. ~Ends(s, "available", "unavailable") /\ ~Ends(s, "subscribe", "unsubscribe")
      BY <2>3, <2>5, <2>7, EndsMeansHas
    <2>9. s \in Seq(Stanza)
      BY <2>1
    <2> HIDE DEF s, Requested
    <2>10. Requested(u, w, r, s)
      BY <1>4, <2>6, <2>9
    <2> USE DEF Requested
    <2>11. Agreeing(u)'
      BY <1>1, <2>2, <2>3, <2>5, <2>6, <2>7, <2>8, <2>10
    <2>12. Agreeing(w)'
      BY <1>1, <2>2, <2>3, <2>5, <2>6, <2>7, <2>8, <2>10
    <2> QED BY <2>11, <2>12
  <1>11. CASE initial_presence(u)
    <2> DEFINE a == IF UserFrom(u) THEN <<"available">> ELSE <<>>
               b == IF UserTo(u) THEN <<"probe">> ELSE <<>>
               c == IF i.ask THEN <<"subscribe">> ELSE <<>>
               s == a \o b \o c
    <2>1. a \in Seq(Stanza) /\ b \in Seq(Stanza) /\ c \in Seq(Stanza)
      BY StanzaSeqs, StanzaNames
    <2>2. \A x, y : /\ Has(a, x) <=> UserFrom(u) /\ x = "available"
                    /\ Ends(a, x, y) <=> UserFrom(u) /\ x = "available"
      BY HoldsNothing, HoldsOne
    <2>3. \A x, y : /\ Has(b, x) <=> UserTo(u) /\ x = "probe"
                    /\ Ends(b, x, y) <=> UserTo(u) /\ x = "probe"
      BY HoldsNothing, HoldsOne
    <2>4. \A x, y : /\ Has(c, x) <=> i.ask /\ x = "subscribe"
                    /\ Ends(c, x, y) <=> i.ask /\ x = "subscribe"
      BY HoldsNothing, HoldsOne
    <2>5. /\ Request(u, Keep(u), s) /\ ~online[u]
          /\ online' = [online EXCEPT ![u] = TRUE] /\ UNCHANGED sees
      BY <1>11 DEF initial_presence
    <2> HIDE DEF a, b, c
    <2>6. a \o b \in Seq(Stanza) /\ s \in Seq(Stanza)
      BY <2>1
    <2>7. \A x, y : /\ Has(a \o b, x) <=> Has(a, x) \/ Has(b, x)
                    /\ Ends(a \o b, x, y) <=> Ends(b, x, y) \/ (Ends(a, x, y) /\ ~Has(b, y))
      BY <2>1, HoldsSent
    <2>8. \A x, y : /\ Has(s, x) <=> Has(a \o b, x) \/ Has(c, x)
                    /\ Ends(s, x, y) <=> Ends(c, x, y) \/ (Ends(a \o b, x, y) /\ ~Has(c, y))
      BY <2>1, <2>6, HoldsSent
    <2>9. online'[u] /\ online'[w] = online[w]
      BY <1>1, <2>5 DEF Typed
    <2> HIDE DEF s, Requested
    <2>10. Requested(u, w, Keep(u), s)
      BY <1>4, <2>5, <2>6
    <2>11. \A x : Has(s, x) <=> \/ UserFrom(u) /\ x = "available"
                                \/ UserTo(u) /\ x = "probe"
                                \/ i.ask /\ x = "subscribe"
      BY <2>2, <2>3, <2>4, <2>7, <2>8
    <2>12. /\ Ends(s, "available", "unavailable") <=> UserFrom(u)
           /\ Ends(s, "subscribe", "unsubscribe") <=> i.ask
      BY <2>2, <2>3, <2>4, <2>7, <2>8
    <2> USE DEF Requested
    <2>13. Agreeing(u)'
      BY <1>1, <1>2, <2>5, <2>9, <2>10, <2>11, <2>12
    <2>14. Agreeing(w)'
      BY <1>1, <1>2, <2>5, <2>9, <2>10, <2>11, <2>12
    <2> QED BY <2>13, <2>14
  <1>12. CASE unavailable_presence(u)
    <2> DEFINE s == IF UserFrom(u) THEN <<"unavailable">> ELSE <<>>
    <2>1. s \in Seq(Stanza) /\ Request(u, Keep(u), s)
      BY <1>12, StanzaSeqs, StanzaNames DEF unavailable_presence
    <2>2. \A x, y : /\ Has(s, x) <=> UserFrom(u) /\ x = "unavailable"
                    /\ Ends(s, x, y) <=> UserFrom(u) /\ x = "unavailable"
      BY HoldsNothing, HoldsOne
    <2>3. ~online'[u] /\ ~sees'[u] /\ online'[w] = online[w] /\ sees'[w] = sees[w]
      BY <1>1, <1>12 DEF unavailable_presence, Typed
    <2> HIDE DEF s, Requested
    <2>4. Requested(u, w, Keep(u), s)
      BY <1>4, <2>1
    <2> USE DEF Requested
    <2>5. Agreeing(u)'
      BY <1>1, <1>2, <2>2, <2>3, <2>4
    <2>6. Agreeing(w)'
      BY <1>1, <1>2, <2>2, <2>3, <2>4
    <2> QED BY <2>5, <2>6
  <1> QED BY <1>5, <1>6, <1>7, <1>8, <1>9, <1>10, <1>11, <1>12 DEF ClientStep
-----------------------------------------------------------------------------
(* What the server of u changes with roster operation r when it reads h    *)
(* from the contact and replies s.                                         *)
Handled(u, w, r, h, s) ==
  /\ item'[u] = r.i /\ pending'[u] = r.p
  /\ item'[w] = item[w] /\ pending'[w] = pending[w]
  /\ \A x, y : /\ Has(chan[u], x) <=> h = x \/ Has(chan'[u], x)
               /\ Ends(chan[u], x, y) <=>
                    Ends(chan'[u], x, y) \/ (h = x /\ ~Has(chan'[u], y))
  /\ \A x, y : /\ Has(chan'[w], x) <=> Has(chan[w], x) \/ Has(s, x)
               /\ Ends(chan'[w], x, y) <=>
                    Ends(s, x, y) \/ (Ends(chan[w], x, y) /\ ~Has(s, y))

(* Handling a stanza does just that.                                       *)
LEMMA HandleEffect ==
  ASSUME Typed, NEW u \in User, NEW r, NEW s \in Seq(Stanza), Handle(u, r, s), chan[u] # <<>>
  PROVE  Handled(u, Peer(u), r, Head(chan[u]), s)
  <1> DEFINE c == chan[Peer(u)]
             d == chan[u]
  <1>1. Peer(u) \in User /\ Peer(u) # u
    BY PeerOfPeer
  <1>2. /\ chan'[Peer(u)] = c \o s /\ c \in Seq(Stanza)
        /\ chan'[u] = Tail(d) /\ d \in Seq(Stanza) /\ d # <<>>
    BY <1>1 DEF Handle, Typed
  <1> HIDE DEF c, d
  <1>3. ASSUME NEW x, NEW y
        PROVE  /\ Has(c \o s, x) <=> Has(c, x) \/ Has(s, x)
               /\ Ends(c \o s, x, y) <=> Ends(s, x, y) \/ (Ends(c, x, y) /\ ~Has(s, y))
    BY <1>2, HoldsSent
  <1>4. ASSUME NEW x, NEW y
        PROVE  /\ Has(d, x) <=> Head(d) = x \/ Has(Tail(d), x)
               /\ Ends(d, x, y) <=> Ends(Tail(d), x, y) \/ (Head(d) = x /\ ~Has(Tail(d), y))
    BY <1>2, HoldsRead
  <1> QED BY <1>1, <1>2, <1>3, <1>4 DEF Handled, Handle, Update, Typed, c, d

(* No stanza that is read breaks the agreement. *)
LEMMA InboundKeepsAgreement ==
  ASSUME Typed, AllFormed, AgreeInv, NEW u \in User, Inbound(u)
  PROVE  AgreeInv'
  <1> DEFINE i == item[u]
             p == pending[u]
             w == Peer(u)
             h == Head(chan[u])
  <1>1. Formed(i, p) /\ Facing(u, w)
    BY TheyFace DEF AllFormed
  <1>2. Makes(Keep(u), i.ask, UserTo(u), UserFrom(u), p)
    BY DEF Makes, Keep, Result, UserTo, UserFrom
  <1>3. /\ chan[u] # <<>> /\ h \in Stanza /\ online' = online
        /\ sees'[u] <=> IF online[u] /\ h \in {"available", "unavailable"}
                          THEN h = "available" ELSE sees[u]
        /\ sees'[w] = sees[w]
        /\ unheard' = IF h = "subscribe" /\ ~UserFrom(u) /\ i.approved /\ ~p /\ ~online[u]
                        THEN unheard \cup {w} ELSE unheard
    <2>1. /\ chan[u] # <<>> /\ chan[u] \in Seq(Stanza) /\ online' = online
          /\ sees' = [sees EXCEPT ![u] = IF online[u] /\ h \in {"available", "unavailable"}
                                          THEN h = "available" ELSE @]
          /\ unheard' = IF h = "subscribe" /\ ~UserFrom(u) /\ i.approved /\ ~p /\ ~online[u]
                          THEN unheard \cup {w} ELSE unheard
      BY DEF Inbound, Typed
    <2>2. h \in Stanza
      BY <2>1
    <2> HIDE DEF h, w
    <2>3. w # u /\ w \in User /\ sees \in [User -> BOOLEAN]
      BY PeerOfPeer DEF w, Typed
    <2>4. sees'[w] = sees[w]
      BY <2>1, <2>3
    <2>5. CASE online[u] /\ h \in {"available", "unavailable"}
      BY <2>1, <2>2, <2>3, <2>4, <2>5 DEF h
    <2>6. CASE ~(online[u] /\ h \in {"available", "unavailable"})
      BY <2>1, <2>2, <2>3, <2>4, <2>6 DEF h
    <2> QED BY <2>5, <2>6
  <1> HIDE DEF w
  <1>4. SUFFICES Agreeing(u)' /\ Agreeing(w)'
    BY BothAgree DEF w
  <1>5. ASSUME NEW r, NEW s \in Seq(Stanza), Handle(u, r, s)
        PROVE  Handled(u, w, r, h, s)
    BY <1>3, <1>5, HandleEffect DEF w
  <1>6. <<>> \in Seq(Stanza) /\ \A x, y : ~Has(<<>>, x) /\ ~Ends(<<>>, x, y)
    BY HoldsNothing, StanzaSeqs
  <1> USE DEF Facing, Agreeing, WantMeansServed, AskMeansAnswered, PendingMeansUnseen,
              OfflineMeansUnseen, ServedMeansTold, Wants, Served, WillSee, After, Makes, UserTo,
              UserFrom
  <1>7. CASE h = "probe" /\ UserFrom(u)
    <2> DEFINE s == PresenceOf(u)
    <2>1. s \in Seq(Stanza) /\ Handle(u, Keep(u), s)
      BY <1>7, StanzaSeqs, StanzaNames DEF Inbound, InboundProbe, PresenceOf
    <2>2. \A x, y : /\ Has(s, x) <=> x = IF online[u] THEN "available" ELSE "unavailable"
                    /\ Ends(s, x, y) <=> x = IF online[u] THEN "available" ELSE "unavailable"
      BY PresenceHolds
    <2> HIDE DEF s, h
    <2>3. Handled(u, w, Keep(u), h, s)
      BY <1>5, <2>1
    <2>4. Agreeing(u)'
      BY <1>1, <1>2, <1>3, <1>7, <2>2, <2>3 DEF Handled
    <2>5. Agreeing(w)'
      BY <1>1, <1>2, <1>3, <1>7, <2>2, <2>3 DEF Handled
    <2> QED BY <2>4, <2>5
  <1>8. CASE h = "probe" /\ ~UserFrom(u)
    <2> DEFINE r == rm_unsubscribed(i, p)
               s == OutboundUnsubscribed(u, r)
    <2>1. s \in Seq(Stanza) /\ Handle(u, r, s)
      BY <1>8, OutboundAreStanzas DEF Inbound, InboundProbe
    <2>2. Makes(r, i.ask, UserTo(u), FALSE, FALSE) /\ (r.ok <=> p \/ UserFrom(u))
      BY <1>1, OperationsMake
    <2>3. \A x : Has(s, x) <=> p /\ x = "unsubscribed"
      BY <1>8, <2>2, UnsubscribedHolds
    <2>4. ~Ends(s, "available", "unavailable") /\ ~Ends(s, "subscribe", "unsubscribe")
      BY UnsubscribedHolds
    <2> HIDE DEF r, s, h
    <2>5. Handled(u, w, r, h, s)
      BY <1>5, <2>1
    <2>6. Agreeing(u)'
      BY <1>1, <1>3, <1>8, <2>2, <2>3, <2>4, <2>5 DEF Handled
    <2>7. Agreeing(w)'
      BY <1>1, <1>3, <1>8, <2>2, <2>3, <2>4, <2>5 DEF Handled
    <2> QED BY <2>6, <2>7
  <1>9. CASE h = "subscribe" /\ UserFrom(u)
    <2> DEFINE r == rm_subscribed(i, p)
               a == OutboundSubscribed(u, r)
               b == PresenceOf(u)
               s == a \o b
    <2>1. a \in Seq(Stanza) /\ b \in Seq(Stanza)
      BY OutboundAreStanzas, StanzaSeqs, StanzaNames DEF PresenceOf
    <2>2. Makes(r, i.ask, UserTo(u), UserFrom(u) \/ p, FALSE)
      BY <1>1, OperationsMake
    <2>3. Handle(u, r, s)
      BY <1>9 DEF Inbound, InboundSubscribe
    <2>4. \A x : Has(a, x) <=> \/ x = "subscribed"
                               \/ online[u] /\ x = "available"
                               \/ UserTo(u) /\ x = "probe"
      BY <1>9, <2>2, SubscribedHolds
    <2>5. ~Ends(a, "subscribe", "unsubscribe")
      BY SubscribedHolds
    <2>6. \A x, y : /\ Has(b, x) <=> x = IF online[u] THEN "available" ELSE "unavailable"
                    /\ Ends(b, x, y) <=> x = IF online[u] THEN "available" ELSE "unavailable"
      BY PresenceHolds
    <2> HIDE DEF r, a, b, h
    <2>7. s \in Seq(Stanza)
      BY <2>1
    <2>8. /\ \A x : Has(s, x) <=> Has(a, x) \/ Has(b, x)
          /\ \A x, y : Ends(s, x, y) <=> Ends(b, x, y) \/ (Ends(a, x, y) /\ ~Has(b, y))
      BY <2>1, HoldsSent
    <2> HIDE DEF s
    <2>9. Handled(u, w, r, h, s)
      BY <1>5, <2>3, <2>7
    <2>10. ~Ends(s, "subscribe", "unsubscribe")
      BY <2>4, <2>6, <2>8, EndsMeansHas
    <2>11. ~online[u] => ~Ends(s, "available", "unavailable") /\ Has(s, "unavailable")
      BY <2>4, <2>6, <2>8
    <2>12. online[u] => Ends(s, "available", "unavailable")
      BY <2>4, <2>6, <2>8
    <2>13. Has(s, "subscribed") /\ ~Has(s, "unsubscribed") /\ ~Has(s, "unsubscribe")
      BY <2>4, <2>6, <2>8
    <2>14. Agreeing(u)'
      BY <1>1, <1>3, <1>9, <2>2, <2>9, <2>10, <2>13 DEF Handled
    <2>15. Agreeing(w)'
      BY <1>1, <1>3, <1>9, <2>2, <2>9, <2>10, <2>11, <2>12, <2>13 DEF Handled
    <2> QED BY <2>14, <2>15
  <1>10. CASE h = "subscribe" /\ ~UserFrom(u) /\ i.approved /\ p
    <2>1. Handle(u, Keep(u), <<>>)
      BY <1>10 DEF Inbound, InboundSubscribe
    <2> HIDE DEF h
    <2>2. Handled(u, w, Keep(u), h, <<>>)
      BY <1>5, <1>6, <2>1
    <2>3. Agreeing(u)'
      BY <1>1, <1>2, <1>3, <1>6, <1>10, <2>2 DEF Handled
    <2>4. Agreeing(w)'
      BY <1>1, <1>2, <1>3, <1>6, <1>10, <2>2 DEF Handled
    <2> QED BY <2>3, <2>4
  <1>11. CASE h = "subscribe" /\ ~UserFrom(u) /\ i.approved /\ ~p
    <2> DEFINE asked == set_contact_pending_in(i, p)
               r == rm_subscribed(asked.i, asked.p)
               s == OutboundSubscribed(u, r)
    <2>1. s \in Seq(Stanza) /\ Handle(u, r, s)
      BY <1>11, OutboundAreStanzas DEF Inbound, InboundSubscribe
    <2>2. FormedResult(asked) /\ Makes(asked, i.ask, UserTo(u), FALSE, TRUE)
      BY <1>1, <1>11, OperationsKeepForm, OperationsMake
    <2> HIDE DEF asked
    <2>3. Makes(r, i.ask, UserTo(u), TRUE, FALSE)
      <3>1. Formed(asked.i, asked.p)
        BY <2>2 DEF FormedResult
      <3> QED BY <3>1, <2>2, OperationsMake
    <2>4. \A x : Has(s, x) <=> \/ x = "subscribed"
                               \/ online[u] /\ x = "available"
                               \/ UserTo(u) /\ x = "probe"
      BY <2>3, SubscribedHolds
    <2>5. /\ Ends(s, "available", "unavailable") <=> online[u]
          /\ ~Ends(s, "subscribe", "unsubscribe")
      BY <2>3, SubscribedHolds
    <2> HIDE DEF r, s, h
    <2>6. Handled(u, w, r, h, s)
      BY <1>5, <2>1
    <2>7. Agreeing(u)'
      BY <1>1, <1>3, <1>11, <2>3, <2>4, <2>5, <2>6 DEF Handled
    <2>8. Agreeing(w)'
      BY <1>1, <1>3, <1>11, <2>3, <2>4, <2>5, <2>6 DEF Handled
    <2> QED BY <2>7, <2>8
  <1>12. CASE h = "subscribe" /\ ~UserFrom(u) /\ ~i.approved
    <2> DEFINE asked == set_contact_pending_in(i, p)
               r == IF p THEN Keep(u) ELSE asked
               s == <<"unavailable">>
    <2>1. s \in Seq(Stanza) /\ Handle(u, r, s)
      BY <1>12, StanzaSeqs, StanzaNames DEF Inbound, InboundSubscribe
    <2>2. Makes(asked, i.ask, UserTo(u), FALSE, TRUE)
      BY <1>1, <1>12, OperationsMake
    <2> HIDE DEF asked
    <2>3. Makes(r, i.ask, UserTo(u), FALSE, TRUE)
      BY <1>2, <1>12, <2>2
    <2>4. \A x, y : (Has(s, x) <=> x = "unavailable") /\ (Ends(s, x, y) <=> x = "unavailable")
      BY HoldsOne
    <2> HIDE DEF r, s, h
    <2>5. Handled(u, w, r, h, s)
      BY <1>5, <2>1
    <2>6. Agreeing(u)'
      BY <1>1, <1>3, <1>12, <2>3, <2>4, <2>5 DEF Handled
    <2>7. Agreeing(w)'
      BY <1>1, <1>3, <1>12, <2>3, <2>4, <2>5 DEF Handled
    <2> QED BY <2>6, <2>7
  <1>13. CASE h = "subscribed"
    <2> DEFINE r == process_inbound_subscription_approval(i, p)
    <2>1. Handle(u, r, <<>>)
      BY <1>13 DEF Inbound
    <2>2. Makes(r, FALSE, UserTo(u) \/ i.ask, UserFrom(u), p)
      BY <1>1, OperationsMake
    <2> HIDE DEF r, h
    <2>3. Handled(u, w, r, h, <<>>)
      BY <1>5, <1>6, <2>1
    <2>4. Agreeing(u)'
      BY <1>1, <1>3, <1>6, <1>13, <2>2, <2>3 DEF Handled
    <2>5. Agreeing(w)'
      BY <1>1, <1>3, <1>6, <1>13, <2>2, <2>3 DEF Handled
    <2> QED BY <2>4, <2>5
  <1>14. CASE h = "unsubscribe"
    <2> DEFINE r == process_inbound_unsubscribe(i, p)
    <2>1. Handle(u, r, <<>>)
      BY <1>14 DEF Inbound
    <2>2. Makes(r, i.ask, UserTo(u), FALSE, FALSE)
      BY <1>1, OperationsMake
    <2> HIDE DEF r, h
    <2>3. Handled(u, w, r, h, <<>>)
      BY <1>5, <1>6, <2>1
    <2>4. Agreeing(u)'
      BY <1>1, <1>3, <1>6, <1>14, <2>2, <2>3 DEF Handled
    <2>5. Agreeing(w)'
      BY <1>1, <1>3, <1>6, <1>14, <2>2, <2>3 DEF Handled
    <2> QED BY <2>4, <2>5
  <1>15. CASE h = "unsubscribed"
    <2> DEFINE r == process_inbound_subscription_cancellation(i, p)
    <2>1. Handle(u, r, <<>>)
      BY <1>15 DEF Inbound
    <2>2. Makes(r, FALSE, FALSE, UserFrom(u), p)
      BY <1>1, OperationsMake
    <2> HIDE DEF r, h
    <2>3. Handled(u, w, r, h, <<>>)
      BY <1>5, <1>6, <2>1
    <2>4. Agreeing(u)'
      BY <1>1, <1>3, <1>6, <1>15, <2>2, <2>3 DEF Handled
    <2>5. Agreeing(w)'
      BY <1>1, <1>3, <1>6, <1>15, <2>2, <2>3 DEF Handled
    <2> QED BY <2>4, <2>5
  <1>16. CASE h \in {"available", "unavailable"}
    <2>1. Handle(u, Keep(u), <<>>)
      BY <1>16 DEF Inbound
    <2> HIDE DEF h
    <2>2. Handled(u, w, Keep(u), h, <<>>)
      BY <1>5, <1>6, <2>1
    <2>3. Agreeing(u)'
      BY <1>1, <1>2, <1>3, <1>6, <1>16, <2>2 DEF Handled
    <2>4. Agreeing(w)'
      BY <1>1, <1>2, <1>3, <1>6, <1>16, <2>2, ZenonT(60) DEF Handled
    <2> QED BY <2>3, <2>4
  <1>17. \/ h = "probe" \/ h = "subscribe" \/ h = "subscribed" \/ h = "unsubscribe"
         \/ h = "unsubscribed" \/ h \in {"available", "unavailable"}
    BY <1>3 DEF Stanza
  <1> QED BY <1>7, <1>8, <1>9, <1>10, <1>11, <1>12, <1>13, <1>14, <1>15, <1>16, <1>17

(* However many requests, answers, removals and changes of presence the    *)
(* two clients make and however they cross on the way between the servers, *)
(* once everything is read the rosters agree: who believes in a            *)
(* subscription is served or can still be granted it, no request is lost,  *)
(* and no subscriber who is online misses that the contact is.             *)
THEOREM QuietMeansAgreedHolds == Spec => []QuietMeansAgreed
  <1>1. RosterInit => AgreeInv
    BY HoldsNothing DEF RosterInit, AgreeInv, Agreeing, WantMeansServed, AskMeansAnswered,
       PendingMeansUnseen, OfflineMeansUnseen, ServedMeansTold, Wants, Served, WillSee, After,
       UserTo, UserFrom, NoItem, To, From, User, Peer
  <1>2. RosterInv /\ AgreeInv /\ [Next]_vars => AgreeInv'
    <2> SUFFICES ASSUME RosterInv, AgreeInv, [Next]_vars
                 PROVE  AgreeInv'
      OBVIOUS
    <2>1. Typed /\ AllFormed
      BY InvIsFormed
    <2>2. CASE Next
      BY <2>1, <2>2, ClientKeepsAgreement, InboundKeepsAgreement DEF Next
    <2>3. CASE UNCHANGED vars
      BY <2>3 DEF vars, AgreeInv, Agreeing, WantMeansServed, AskMeansAnswered,
         PendingMeansUnseen, OfflineMeansUnseen, ServedMeansTold, Wants, Served, WillSee, After,
         UserTo, UserFrom
    <2> QED BY <2>2, <2>3
  <1>3. RosterInv /\ AgreeInv => QuietMeansAgreed
    <2> SUFFICES ASSUME RosterInv, AgreeInv, Quiet, NEW u \in User
                 PROVE  /\ UserTo(u) => UserFrom(Peer(u)) \/ pending[Peer(u)]
                        /\ item[u].ask => pending[Peer(u)]
                        /\ (online[u] /\ UserTo(u) /\ UserFrom(Peer(u))) =>
                             /\ online[Peer(u)] => sees[u]
                             /\ sees[u] => online[Peer(u)] \/ u \in unheard
      BY DEF QuietMeansAgreed, SubscriberIsServed, RequestsArrive, PresenceKnown
    <2>1. chan[u] = <<>> /\ chan[Peer(u)] = <<>> /\ Agreeing(u)
      BY PeerOfPeer DEF Quiet, AgreeInv
    <2>2. \A x, y : ~Has(<<>>, x) /\ ~Ends(<<>>, x, y)
      BY HoldsNothing
    <2> QED BY <2>1, <2>2 DEF Agreeing, WantMeansServed, AskMeansAnswered, PendingMeansUnseen,
         OfflineMeansUnseen, ServedMeansTold, Wants, Served, WillSee, After
  <1> QED BY <1>1, <1>2, <1>3, RosterInvariant, PTL DEF Spec
=============================================================================
