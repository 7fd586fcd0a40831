-------------------------------- MODULE Roster --------------------------------
(***************************************************************************)
(* Presence subscriptions between two users (core/rostermanager.lua, the   *)
(* subscription handlers of plugins/mod_presence.lua and the roster set of *)
(* plugins/mod_roster.lua).  Each user's server keeps its half of the      *)
(* relation; the halves talk over an ordered stream in each direction, as  *)
(* between two servers, and may disagree while stanzas are under way.      *)
(***************************************************************************)
EXTENDS Integers, Sequences

CONSTANTS MaxOps,      \* bound: requests the two clients make
          MayRemove,   \* clients may remove each other from their rosters
          MayPreapprove \* clients may approve a request that has not come

ASSUME RosterAssumption ==
  MaxOps \in Nat /\ MayRemove \in BOOLEAN /\ MayPreapprove \in BOOLEAN

User == {"A", "B"}
Peer(u) == IF u = "A" THEN "B" ELSE "A"

VARIABLES
  item,     \* item[u]: u's roster item for the peer
  pending,  \* pending[u]: the peer's request waits for u's answer
  online,   \* online[u]: u has sent available presence
  sees,     \* sees[u]: u's client was told that the peer is available
  chan,     \* chan[u]: stanzas on their way to u's server
  ops,      \* requests made so far
  unheard   \* history: the users whose request was granted ahead of time by a
            \* contact that was offline, and that were told nothing of its presence

vars == <<item, pending, online, sees, chan, ops, unheard>>

NoItem == [exists |-> FALSE, subscription |-> "none", ask |-> FALSE, approved |-> FALSE]

RosterInit ==
  /\ item = [u \in User |-> NoItem]
  /\ pending = [u \in User |-> FALSE]
  /\ online = [u \in User |-> FALSE]
  /\ sees = [u \in User |-> FALSE]
  /\ chan = [u \in User |-> <<>>]
  /\ ops = 0
  /\ unheard = {}

(* A subscription as two independent halves. *)
To(s) == s \in {"to", "both"}
From(s) == s \in {"from", "both"}
WithoutTo(s) == CASE s = "both" -> "from" [] s = "to" -> "none" [] OTHER -> s
WithoutFrom(s) == CASE s = "both" -> "to" [] s = "from" -> "none" [] OTHER -> s

UserTo(u) == To(item[u].subscription)
UserFrom(u) == From(item[u].subscription)
-----------------------------------------------------------------------------
(* core/rostermanager.lua: what becomes of u's item and pending request.   *)
(* Each operation is a record of the new item i, the new pending flag p    *)
(* and ok, whether it reports success.                                     *)

Result(i, p, ok) == [i |-> i, p |-> p, ok |-> ok]

set_contact_pending_out(i, p) ==
  IF i.ask \/ To(i.subscription) THEN Result(i, p, TRUE)
    ELSE Result([i EXCEPT !.exists = TRUE, !.ask = TRUE], p, TRUE)

rm_unsubscribe(i, p) ==
  Result([i EXCEPT !.ask = FALSE, !.subscription = WithoutTo(@)], p, i.exists)

(* Mutant: leaves the request it grants pending. *)
rm_subscribed_keep(i, p) ==
  CASE p -> Result([i EXCEPT !.exists = TRUE, !.subscription = IF @ = "none" THEN "from" ELSE "both"],
                   p, TRUE)
    [] ~p /\ ~From(i.subscription) ->
         Result([i EXCEPT !.exists = TRUE, !.approved = TRUE], p, TRUE)
    [] OTHER -> Result(i, p, FALSE)

rm_subscribed(i, p) ==
  CASE p -> Result([i EXCEPT !.exists = TRUE, !.subscription = IF @ = "none" THEN "from" ELSE "both"],
                   FALSE, TRUE)
    [] ~p /\ ~From(i.subscription) ->
         Result([i EXCEPT !.exists = TRUE, !.approved = TRUE], p, TRUE)
    [] OTHER -> Result(i, p, FALSE)

rm_unsubscribed(i, p) ==
  Result([i EXCEPT !.subscription = WithoutFrom(@)], FALSE, p \/ From(i.subscription))

set_contact_pending_in(i, p) ==
  IF From(i.subscription) THEN Result(i, p, FALSE) ELSE Result(i, TRUE, TRUE)

process_inbound_subscription_approval(i, p) ==
  IF i.ask THEN Result([i EXCEPT !.ask = FALSE,
                                 !.subscription = IF @ = "none" THEN "to" ELSE "both"], p, TRUE)
    ELSE Result(i, p, FALSE)

(* Mutant: keeps an established subscription. *)
process_inbound_subscription_cancellation_ask(i, p) ==
  Result([i EXCEPT !.ask = FALSE], p, i.ask)

process_inbound_subscription_cancellation(i, p) ==
  Result([i EXCEPT !.ask = FALSE, !.subscription = WithoutTo(@)], p,
         i.ask \/ To(i.subscription))

process_inbound_unsubscribe(i, p) ==
  Result([i EXCEPT !.subscription = WithoutFrom(@)], FALSE, p \/ From(i.subscription))
-----------------------------------------------------------------------------
Update(u, r) ==
  /\ item' = [item EXCEPT ![u] = r.i]
  /\ pending' = [pending EXCEPT ![u] = r.p]

Keep(u) == Result(item[u], pending[u], TRUE)
Available(u) == IF online[u] THEN <<"available">> ELSE <<>>
Unavailable(u) == IF online[u] THEN <<"unavailable">> ELSE <<>>

(* Mutant: renews the own request instead of probing. *)
OutboundSubscribed_renew(u, r) ==
  (IF From(r.i.subscription) THEN <<"subscribed">> \o Available(u) ELSE <<>>)
    \o (IF To(r.i.subscription) THEN <<"subscribe">> ELSE <<>>)

(* What handle_outbound_presence_subscriptions_and_probes sends to the     *)
(* peer, after the roster operation r of u.                                *)
OutboundSubscribed(u, r) ==
  (IF From(r.i.subscription) THEN <<"subscribed">> \o Available(u) ELSE <<>>)
    \o (IF To(r.i.subscription) THEN <<"probe">> ELSE <<>>)

OutboundUnsubscribed(u, r) ==
  IF r.ok THEN <<"unsubscribed">> \o (IF UserFrom(u) THEN Unavailable(u) ELSE <<>>) ELSE <<>>

(* One request by u's client: the roster operation and the stanzas that go *)
(* to the peer's server.                                                   *)
Request(u, r, stanzas) ==
  /\ ops < MaxOps /\ ops' = ops + 1
  /\ Update(u, r)
  /\ chan' = [chan EXCEPT ![Peer(u)] = @ \o stanzas]
  /\ UNCHANGED unheard

subscribe(u) ==
  /\ Request(u, set_contact_pending_out(item[u], pending[u]), <<"subscribe">>)
  /\ UNCHANGED <<online, sees>>

unsubscribe(u) ==
  /\ Request(u, rm_unsubscribe(item[u], pending[u]), <<"unsubscribe">>)
  /\ UNCHANGED <<online, sees>>

subscribed(u) ==
  LET r == rm_subscribed(item[u], pending[u])
  IN /\ MayPreapprove \/ pending[u] \/ UserFrom(u)
     /\ Request(u, r, OutboundSubscribed(u, r))
     /\ UNCHANGED <<online, sees>>

unsubscribed(u) ==
  LET r == rm_unsubscribed(item[u], pending[u])
  IN /\ Request(u, r, OutboundUnsubscribed(u, r))
     /\ UNCHANGED <<online, sees>>

(* A roster set replaces the item and copies subscription and ask only:    *)
(* the pre-approval is not carried over.                                   *)
roster_set(u) ==
  /\ Request(u, Result([item[u] EXCEPT !.exists = TRUE, !.approved = FALSE], pending[u], TRUE),
             <<>>)
  /\ UNCHANGED <<online, sees>>

(* The roster-item-removed hook tells the contact, then the item goes; a   *)
(* pending request of the contact stays.                                   *)
roster_remove(u) ==
  LET i == item[u]
  IN /\ MayRemove /\ i.exists
     /\ Request(u, Result(NoItem, pending[u], TRUE),
          (IF From(i.subscription) \/ pending[u] THEN <<"unsubscribed">> ELSE <<>>)
          \o (IF To(i.subscription) \/ i.ask THEN Unavailable(u) \o <<"unsubscribe">> ELSE <<>>))
     /\ UNCHANGED <<online, sees>>

(* Initial presence: broadcast, probe, and repeat an unanswered request. *)
initial_presence(u) ==
  /\ ~online[u]
  /\ Request(u, Keep(u),
       (IF UserFrom(u) THEN <<"available">> ELSE <<>>)
       \o (IF UserTo(u) THEN <<"probe">> ELSE <<>>)
       \o (IF item[u].ask THEN <<"subscribe">> ELSE <<>>))
  /\ online' = [online EXCEPT ![u] = TRUE]
  /\ UNCHANGED sees

(* Unavailable presence, sent or on behalf of a resource that went away. *)
unavailable_presence(u) ==
  /\ online[u]
  /\ Request(u, Keep(u), IF UserFrom(u) THEN <<"unavailable">> ELSE <<>>)
  /\ online' = [online EXCEPT ![u] = FALSE]
  /\ sees' = [sees EXCEPT ![u] = FALSE]
-----------------------------------------------------------------------------
(* The server of u has handled a stanza with roster operation r. *)
Handle(u, r, reply) ==
  /\ Update(u, r)
  /\ chan' = [chan EXCEPT ![u] = Tail(@), ![Peer(u)] = @ \o reply]

PresenceOf(u) == IF online[u] THEN <<"available">> ELSE <<"unavailable">>

(* An inbound subscription request: the contact is subscribed already,     *)
(* pre-approved, or has to wait for u's answer.  A reply posted with       *)
(* preevents goes through u's outbound handler first.                      *)
InboundSubscribe(u) ==
  LET i == item[u]
      p == pending[u]
      again == rm_subscribed(i, p)
      asked == set_contact_pending_in(i, p)
      preapproved == rm_subscribed(asked.i, asked.p)
  IN CASE UserFrom(u) -> Handle(u, again, OutboundSubscribed(u, again) \o PresenceOf(u))
       [] ~UserFrom(u) /\ i.approved /\ p -> Handle(u, Keep(u), <<>>)
       [] ~UserFrom(u) /\ i.approved /\ ~p ->
            Handle(u, preapproved, OutboundSubscribed(u, preapproved))
       [] OTHER -> Handle(u, IF p THEN Keep(u) ELSE asked, <<"unavailable">>)

InboundProbe(u) ==
  LET refused == rm_unsubscribed(item[u], pending[u])
  IN IF UserFrom(u) THEN Handle(u, Keep(u), PresenceOf(u))
       ELSE Handle(u, refused, OutboundUnsubscribed(u, refused))

(* The server of u handles the next stanza from the peer. *)
Inbound(u) ==
  LET s == Head(chan[u])
      i == item[u]
      p == pending[u]
  IN /\ chan[u] # <<>>
     /\ CASE s = "probe" -> InboundProbe(u)
          [] s = "subscribe" -> InboundSubscribe(u)
          [] s = "subscribed" -> Handle(u, process_inbound_subscription_approval(i, p), <<>>)
          [] s = "unsubscribe" -> Handle(u, process_inbound_unsubscribe(i, p), <<>>)
          [] s = "unsubscribed" -> Handle(u, process_inbound_subscription_cancellation(i, p), <<>>)
          [] s \in {"available", "unavailable"} -> Handle(u, Keep(u), <<>>)
     /\ sees' = [sees EXCEPT ![u] = IF online[u] /\ s \in {"available", "unavailable"}
                                      THEN s = "available" ELSE @]
     /\ unheard' = IF s = "subscribe" /\ ~UserFrom(u) /\ i.approved /\ ~p /\ ~online[u]
                     THEN unheard \cup {Peer(u)} ELSE unheard
     /\ UNCHANGED <<online, ops>>

ClientStep(u) ==
  \/ subscribe(u) \/ unsubscribe(u) \/ subscribed(u) \/ unsubscribed(u)
  \/ roster_set(u) \/ roster_remove(u) \/ initial_presence(u) \/ unavailable_presence(u)

Next == \E u \in User : ClientStep(u) \/ Inbound(u)

Spec == RosterInit /\ [][Next]_vars
FairSpec == Spec /\ \A u \in User : WF_vars(Inbound(u))
-----------------------------------------------------------------------------
Stanza == {"subscribe", "subscribed", "unsubscribe", "unsubscribed", "probe",
           "available", "unavailable"}

TypeOK ==
  /\ item \in [User -> [exists : BOOLEAN, subscription : {"none", "to", "from", "both"},
                        ask : BOOLEAN, approved : BOOLEAN]]
  /\ pending \in [User -> BOOLEAN] /\ online \in [User -> BOOLEAN] /\ sees \in [User -> BOOLEAN]
  /\ chan \in [User -> Seq(Stanza)]
  /\ ops \in 0..MaxOps
  /\ unheard \subseteq User

Quiet == \A u \in User : chan[u] = <<>>

(* The item is well formed: a request or a subscription needs an item, and *)
(* one does not ask for what one has.                                      *)
ItemWellFormed ==
  \A u \in User :
    /\ ~item[u].exists => item[u] = NoItem
    /\ ~(item[u].ask /\ UserTo(u))
    /\ ~(pending[u] /\ UserFrom(u))

RosterInv == TypeOK /\ ItemWellFormed

(* When nothing is under way, a user who takes itself for subscribed is    *)
(* served by the contact, or the contact has its request to answer: no     *)
(* crossing of requests, answers and removals leaves a subscription that   *)
(* only the subscriber believes in and the contact cannot restore.  (The   *)
(* converse is not promised: a contact may serve a user who no longer      *)
(* asks.)                                                                  *)
SubscriberIsServed ==
  Quiet => \A u \in User : UserTo(u) => UserFrom(Peer(u)) \/ pending[Peer(u)]

(* When nothing is under way, an unanswered request is pending at the      *)
(* other side, so the contact can still answer it.                         *)
RequestsArrive == Quiet => \A u \in User : item[u].ask => pending[Peer(u)]

(* When nothing is under way, a subscriber who is online has been told     *)
(* whether the contact is.  (Not claimed: that it knows the contact to be  *)
(* offline once its request was granted by pre-approval.  An inbound       *)
(* unsubscribe is not answered with unavailable presence, and a request    *)
(* that is granted ahead of time is answered with the presence of          *)
(* available resources only, so what the client last saw may be out of     *)
(* date.)                                                                  *)
PresenceKnown ==
  Quiet => \A u \in User :
             (online[u] /\ UserTo(u) /\ UserFrom(Peer(u))) =>
               /\ online[Peer(u)] => sees[u]
               /\ sees[u] => online[Peer(u)] \/ u \in unheard

(* Once nothing is under way the two rosters agree, whatever requests,     *)
(* answers, removals and presence crossed on the way: nobody believes in a *)
(* subscription that is not served, no request is lost, and subscribers    *)
(* know who is online.                                                     *)
QuietMeansAgreed == SubscriberIsServed /\ RequestsArrive /\ PresenceKnown

(* The exchange dies out: probes and answers do not chase one another      *)
(* forever.                                                                *)
ExchangeEnds == <>[]Quiet
=============================================================================
