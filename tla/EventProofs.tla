----------------------------- MODULE EventProofs -----------------------------
(***************************************************************************)
(* Proofs about the two ways events reach the loop and about the           *)
(* connections made in it.  For any number of descriptors and any sizes of *)
(* the poller's arrays, the poller and the event loop agree with each of   *)
(* the three back ends, and no event the kernel reported is skipped.  For  *)
(* any set of signals, any queue length and any number of descriptors,     *)
(* util-src/signal.c keeps every signal until Lua has seen it, with signal *)
(* handlers, signalfd and the pipe fallback, short of the known ways to    *)
(* lose one.  For any SRV records with any number of addresses,            *)
(* net.connect knows what p.conns holds and tells its caller.              *)
(***************************************************************************)
EXTENDS Poll, Signals, NetConnect, FiniteSetTheorems, WellFoundedInduction, TLAPS

(* What the kernel says of a descriptor, and the entries of the back ends. *)
Ev == SUBSET {"in", "out", "hup"}
EpollEvent == [fd : Fd, ev : Ev]
PollEntry == [fd : Fd, want : Want, revents : Ev]
SelectSets == [wantread : SUBSET Fd, wantwrite : SUBSET Fd, readable : SUBSET Fd,
               writable : SUBSET Fd, all : SUBSET Fd, err : SUBSET Fd]

Distinct(e) == \A m, j \in DOMAIN e : e[m].fd = e[j].fd => m = j
Listed(e) == {e[m].fd : m \in DOMAIN e}

(* What is outstanding of the kernel's last answer is what history says it *)
(* is, in the words of each back end.                                      *)
EpollBatch(p, e, d, rem) ==
  /\ e \in Seq(EpollEvent) /\ p = Len(e) /\ Distinct(e)
  /\ \A m \in DOMAIN e : e[m].fd \in rem \/ d[e[m].fd] = Said(e[m].ev)
  /\ \A fd \in Fd : d[fd] # {} => fd \in Listed(e)

(* The events the poll back end still has to report are those due. *)
PollBatch(p, e, d) ==
  /\ e \in Seq(PollEntry) /\ p \in Int /\ Distinct(e)
  /\ \A m \in DOMAIN e : d[e[m].fd] = Said(e[m].revents) /\ (m > p => e[m].revents = {})
  /\ \A fd \in Fd : d[fd] # {} => fd \in Listed(e)

SelectSaid(s, fd) == (IF fd \in s.readable \cup s.err THEN {"r"} ELSE {})
                       \cup (IF fd \in s.writable THEN {"w"} ELSE {})

(* The events the select back end still has to report are those due. *)
SelectBatch(p, s, d, fail) ==
  /\ s \in SelectSets /\ p \in Int
  /\ s.wantread \cup s.wantwrite \subseteq s.all
  /\ s.readable \cup s.writable \cup s.err \subseteq s.all
  /\ fail => \A fd \in Fd : d[fd] = {}
  /\ ~fail => \A fd \in Fd : d[fd] = SelectSaid(s, fd) /\ (d[fd] # {} => fd > p)

(* The loop's table, and the invariant of each back end. *)
LoopInv ==
  /\ api \in {"epoll", "poll", "select"}
  /\ open \subseteq Fd /\ fds \subseteq open
  /\ turn \in {"wait", "dispatch", "timers"} /\ t \in Nat
  /\ due \in [Fd -> SUBSET {"r", "w"}] /\ removed \subseteq Fd /\ failed \in BOOLEAN

EpollInv ==
  /\ EpollBatch(processed, events, due, removed)
  /\ interest \in [Fd -> Want \cup {Off}] /\ fds = {fd \in Fd : interest[fd] # Off}

PollEntriesInv ==
  PollBatch(processed, events, due) /\ fds = Listed(events) /\ Len(events) <= MaxWatched

SelectInv == SelectBatch(processed, sets, due, failed) /\ events = <<>> /\ fds = sets.all

EventInv ==
  /\ LoopInv
  /\ api = "epoll" => EpollInv
  /\ api = "poll" => PollEntriesInv
  /\ api = "select" => SelectInv
  /\ EventsAreReal
  /\ BatchCompleteThenTimers
-----------------------------------------------------------------------------
(* The first and the last place of a nonempty set. *)
LEMMA LeastIs ==
  ASSUME NEW S \in SUBSET Nat, S # {}
  PROVE  Least(S) \in S /\ \A y \in S : Least(S) <= y
<1>1. PICK x \in S : \A y \in S : ~(<<y, x>> \in OpToRel(<, Nat)) BY NatLessThanWellFounded, WFMin
<1>2. \A y \in S : ~(y < x) BY <1>1 DEF OpToRel
<1>3. \A y \in S : x <= y BY <1>2
<1> QED BY <1>3 DEF Least

(* An element of a sequence over a set is in the set. *)
LEMMA ElementIn ==
  ASSUME NEW S, NEW q \in Seq(S)
  PROVE  \A k \in DOMAIN q : k \in 1..Len(q) /\ q[k] \in S
OBVIOUS

(* A non-empty finite set of numbers has a greatest member. *)
LEMMA BiggestIs ==
  ASSUME NEW n \in Nat, NEW S \in SUBSET (1..n), S # {}
  PROVE  Biggest(S) \in S /\ \A y \in S : y <= Biggest(S)
<1> DEFINE T == {n - x : x \in S}
<1>1. T \in SUBSET Nat /\ T # {}
  <2>1. \A x \in S : n - x \in Nat OBVIOUS
  <2>2. PICK x \in S : TRUE OBVIOUS
  <2>3. n - x \in T OBVIOUS
  <2> QED BY <2>1, <2>3
<1>2. Least(T) \in T /\ \A y \in T : Least(T) <= y BY <1>1, LeastIs
<1>3. PICK x \in S : Least(T) = n - x BY <1>2
<1>4. ASSUME NEW y \in S PROVE y <= x
  <2>1. n - y \in T OBVIOUS
  <2>2. n - x <= n - y BY <1>2, <1>3, <2>1
  <2> QED BY <2>2
<1> QED BY <1>4 DEF Biggest

(* Whatever the kernel answers is seen by the caller. *)
LEMMA SaidIs ==
  ASSUME NEW ev \in Ev
  PROVE  Said(ev) \in SUBSET {"r", "w"} /\ (Said(ev) = {} <=> ev = {})
<1>1. Said(ev) \in SUBSET {"r", "w"} BY DEF Said
<1>2. ev = {} => Said(ev) = {} BY DEF Said
<1>3. ASSUME ev # {} PROVE Said(ev) # {}
  <2>1. "in" \in ev \/ "out" \in ev \/ "hup" \in ev BY <1>3 DEF Ev
  <2>2. "r" \in Said(ev) \/ "w" \in Said(ev) BY <2>1 DEF Said
  <2> QED BY <2>2
<1> QED BY <1>1, <1>2, <1>3

Due == [Fd -> SUBSET {"r", "w"}]

(* Reporting an event takes it out of what is outstanding: epoll, from the *)
(* end of its array;                                                       *)
LEMMA EpollPush ==
  ASSUME api = "epoll", NEW p, NEW e, NEW s, NEW d \in Due, EpollBatch(p, e, d, removed'),
         Pending(p, e, s) # {}, Lpushevent(p, e, s, d)
  PROVE  EpollBatch(processed', events', due', removed') /\ due' \in Due /\ EventsAreReal'
<1>1. e \in Seq(EpollEvent) /\ p = Len(e) /\ p \in Nat BY DEF EpollBatch
<1>2. Pending(p, e, s) = {p} /\ p > 0 BY <1>1 DEF Pending
<1>3. Biggest(Pending(p, e, s)) = p BY <1>2 DEF Biggest
<1>4. p \in DOMAIN e /\ e[p] \in EpollEvent BY <1>1, <1>2
<1> DEFINE fd == e[p].fd
<1>5. fd \in Fd BY <1>4 DEF EpollEvent
<1>6. /\ processed' = p - 1 /\ events' = SubSeq(e, 1, p - 1) /\ due' = [d EXCEPT ![fd] = {}]
      /\ last' = [said |-> Said(e[p].ev), due |-> d[fd], removed |-> fd \in removed', failed |-> failed']
      /\ api' = api
  BY <1>3 DEF Lpushevent
<1>7. last'.said = last'.due \/ (api' = "epoll" /\ last'.removed)
  <2>1. fd \in removed' \/ d[fd] = Said(e[p].ev) BY <1>4 DEF EpollBatch
  <2> QED BY <1>6, <2>1
<1>8. /\ events' \in Seq(EpollEvent) /\ Len(events') = p - 1 /\ DOMAIN events' = 1..(p - 1)
      /\ \A m \in 1..(p - 1) : events'[m] = e[m] /\ m \in DOMAIN e /\ m # p
  BY <1>1, <1>2, <1>6
<1>9. Distinct(events') BY <1>8 DEF EpollBatch, Distinct
<1>10. \A m \in 1..(p - 1) : e[m].fd # fd BY <1>4, <1>8 DEF EpollBatch, Distinct
<1>11. due' \in Due BY <1>6 DEF Due
<1>12. \A m \in DOMAIN events' : events'[m].fd \in removed' \/ due'[events'[m].fd] = Said(events'[m].ev)
  <2> SUFFICES ASSUME NEW m \in 1..(p - 1) PROVE e[m].fd \in removed' \/ due'[e[m].fd] = Said(e[m].ev)
    BY <1>8
  <2>0. e[m] \in EpollEvent BY <1>1, <1>8, ElementIn
  <2>1. e[m].fd \in Fd BY <2>0 DEF EpollEvent
  <2>2. due'[e[m].fd] = d[e[m].fd] BY <1>6, <1>10, <2>1 DEF Due
  <2> QED BY <1>8, <2>2 DEF EpollBatch
<1>13. ASSUME NEW f \in Fd, due'[f] # {} PROVE f \in Listed(events')
  <2>1. f # fd /\ d[f] # {} BY <1>5, <1>6, <1>13 DEF Due
  <2>2. PICK m \in DOMAIN e : e[m].fd = f BY <2>1 DEF EpollBatch, Listed
  <2>3. m \in 1..(p - 1) BY <1>1, <2>1, <2>2
  <2> QED BY <1>8, <2>2, <2>3 DEF Listed
<1>14. EpollBatch(processed', events', due', removed') BY <1>6, <1>8, <1>9, <1>12, <1>13 DEF EpollBatch
<1> QED BY <1>7, <1>11, <1>14 DEF EventsAreReal

(* poll, downwards from where it was;                                      *)
LEMMA PollPush ==
  ASSUME api = "poll", NEW p, NEW e, NEW s, NEW d \in Due, PollBatch(p, e, d),
         Pending(p, e, s) # {}, Lpushevent(p, e, s, d)
  PROVE  /\ PollBatch(processed', events', due') /\ due' \in Due /\ EventsAreReal'
         /\ Listed(events') = Listed(e) /\ Len(events') = Len(e)
<1> DEFINE S == Pending(p, e, s)
           n == Len(e)
           at == Biggest(S)
           fd == e[at].fd
<1>1. e \in Seq(PollEntry) /\ p \in Int /\ n \in Nat BY DEF PollBatch
<1>2. S = {m \in 1..(IF p < n THEN p ELSE n) : e[m].revents # {}} BY DEF Pending
<1>3. S \subseteq 1..n BY <1>1, <1>2
<1> HIDE DEF S
<1>4. at \in S /\ \A m \in S : m <= at BY <1>1, <1>3, BiggestIs DEF S
<1>5. at \in 1..n /\ at \in DOMAIN e /\ e[at] \in PollEntry
  <2>1. at \in 1..n BY <1>3, <1>4
  <2>2. at \in DOMAIN e BY <1>1, <2>1
  <2> QED BY <1>1, <2>1, <2>2, ElementIn
<1>6. fd \in Fd BY <1>5 DEF PollEntry
<1>7. /\ processed' = at - 1 /\ events' = [e EXCEPT ![at].revents = {}] /\ due' = [d EXCEPT ![fd] = {}]
      /\ last' = [said |-> Said(e[at].revents), due |-> d[fd], removed |-> fd \in removed', failed |-> failed']
      /\ api' = api
  BY DEF Lpushevent, S
<1> HIDE DEF at
<1>8. last'.said = last'.due BY <1>5, <1>7 DEF PollBatch
<1>9. /\ events' \in Seq(PollEntry) /\ Len(events') = n /\ DOMAIN events' = DOMAIN e
      /\ events'[at].revents = {} /\ events'[at].fd = fd
      /\ \A m \in DOMAIN e : m # at => events'[m] = e[m]
  <2>1. [e[at] EXCEPT !.revents = {}] \in PollEntry BY <1>5 DEF PollEntry, Ev
  <2>2. events' = [e EXCEPT ![at] = [e[at] EXCEPT !.revents = {}]] BY <1>7
  <2>3. [e[at] EXCEPT !.revents = {}].revents = {} /\ [e[at] EXCEPT !.revents = {}].fd = fd BY <1>5 DEF PollEntry
  <2> DEFINE x == [e[at] EXCEPT !.revents = {}]
  <2>4. x \in PollEntry /\ events' = [e EXCEPT ![at] = x] BY <2>1, <2>2
  <2> HIDE DEF x
  <2>5. events' \in Seq(PollEntry) /\ Len(events') = n /\ DOMAIN events' = DOMAIN e BY <1>1, <1>5, <2>4
  <2>6. events'[at] = x /\ \A m \in DOMAIN e : m # at => events'[m] = e[m] BY <1>1, <1>5, <2>4
  <2> QED BY <2>3, <2>5, <2>6 DEF x
<1>10. \A m \in DOMAIN e : events'[m].fd = e[m].fd BY <1>9
<1>11. Distinct(events') BY <1>9, <1>10 DEF PollBatch, Distinct
<1>12. Listed(events') = Listed(e) BY <1>9, <1>10 DEF Listed
<1>13. due' \in Due BY <1>7 DEF Due
<1>14. ASSUME NEW m \in DOMAIN events'
       PROVE  due'[events'[m].fd] = Said(events'[m].revents) /\ (m > processed' => events'[m].revents = {})
  <2>1. CASE m = at
    <3>1. Said({}) = {} BY DEF Said
    <3>2. due'[fd] = {} BY <1>6, <1>7 DEF Due
    <3> QED BY <1>9, <2>1, <3>1, <3>2
  <2>2. CASE m # at
    <3>0. m \in DOMAIN e /\ events'[m] = e[m] /\ e[m] \in PollEntry BY <1>1, <1>9, <2>2, ElementIn
    <3>1. m \in DOMAIN e /\ events'[m] = e[m] /\ e[m].fd \in Fd BY <3>0 DEF PollEntry
    <3>2. e[m].fd # fd BY <1>5, <2>2, <3>1 DEF PollBatch, Distinct
    <3>3. due'[e[m].fd] = d[e[m].fd] BY <1>7, <3>1, <3>2 DEF Due
    <3>4. ASSUME m > processed' PROVE e[m].revents = {}
      <4>1. m > at /\ m \in 1..n BY <1>1, <1>5, <1>7, <2>2, <3>1, <3>4
      <4>2. m \notin S BY <1>4, <1>5, <4>1
      <4>3. CASE m <= p BY <1>1, <1>2, <4>1, <4>2, <4>3
      <4>4. CASE m > p BY <3>1, <4>4 DEF PollBatch
      <4> QED BY <1>1, <4>1, <4>3, <4>4
    <3> QED BY <3>1, <3>3, <3>4 DEF PollBatch
  <2> QED BY <2>1, <2>2
<1>15. ASSUME NEW f \in Fd, due'[f] # {} PROVE f \in Listed(events')
  <2>1. d[f] # {} BY <1>6, <1>7, <1>15 DEF Due
  <2> QED BY <1>12, <2>1 DEF PollBatch
<1>16. PollBatch(processed', events', due')
  <2>1. processed' \in Int BY <1>5, <1>7
  <2>2. events' \in Seq(PollEntry) BY <1>9
  <2> QED BY <1>11, <1>14, <1>15, <2>1, <2>2 DEF PollBatch
<1> QED BY <1>8, <1>9, <1>12, <1>13, <1>16 DEF EventsAreReal

(* select, upwards.                                                        *)
LEMMA SelectPush ==
  ASSUME api = "select", NEW p, NEW e, NEW s, NEW d \in Due, SelectBatch(p, s, d, failed'),
         failed' \in BOOLEAN, Pending(p, e, s) # {}, Lpushevent(p, e, s, d)
  PROVE  /\ SelectBatch(processed', sets', due', failed') /\ due' \in Due /\ EventsAreReal'
         /\ sets'.all = s.all /\ events' = e
<1> DEFINE S == Pending(p, e, s)
           fd == Least(S)
<1>1. S = {f \in Fd : f > p /\ f \in s.readable \cup s.writable \cup s.err} BY DEF Pending
<1>2. S \subseteq Nat BY <1>1, PollBounds DEF Fd
<1> HIDE DEF S
<1>3. fd \in S /\ \A f \in S : fd <= f BY <1>2, LeastIs DEF S
<1>4. fd \in Fd /\ Fd \subseteq Nat /\ p \in Int /\ s \in SelectSets BY <1>1, <1>3, PollBounds DEF Fd, SelectBatch
<1>5. /\ processed' = fd /\ events' = e /\ due' = [d EXCEPT ![fd] = {}] /\ api' = api
      /\ sets' = [s EXCEPT !.readable = @ \ {fd}, !.writable = @ \ {fd}, !.err = @ \ {fd}]
      /\ last' = [said |-> SelectSaid(s, fd), due |-> d[fd], removed |-> fd \in removed', failed |-> failed']
  BY DEF Lpushevent, S, SelectSaid
<1> HIDE DEF fd
<1>6. last'.said = last'.due \/ (api' = "select" /\ last'.failed) BY <1>4, <1>5 DEF SelectBatch
<1>7. /\ sets' \in SelectSets /\ sets'.all = s.all /\ sets'.readable = s.readable \ {fd}
      /\ sets'.writable = s.writable \ {fd} /\ sets'.err = s.err \ {fd}
      /\ sets'.wantread = s.wantread /\ sets'.wantwrite = s.wantwrite
  BY <1>4, <1>5 DEF SelectSets
<1>8. due' \in Due BY <1>5 DEF Due
<1>9. /\ sets'.readable \cup sets'.writable \cup sets'.err \subseteq sets'.all
      /\ sets'.wantread \cup sets'.wantwrite \subseteq sets'.all
  BY <1>7 DEF SelectBatch
<1>10. \A f \in Fd : due'[f] = IF f = fd THEN {} ELSE d[f] BY <1>4, <1>5 DEF Due
<1>11. failed' => \A f \in Fd : due'[f] = {} BY <1>10 DEF SelectBatch
<1>12. ASSUME ~failed', NEW f \in Fd PROVE due'[f] = SelectSaid(sets', f) /\ (due'[f] # {} => f > processed')
  <2>1. CASE f = fd
    <3>1. SelectSaid(sets', f) = {} BY <1>7, <2>1 DEF SelectSaid
    <3> QED BY <1>10, <2>1, <3>1
  <2>2. CASE f # fd
    <3>1. SelectSaid(sets', f) = SelectSaid(s, f) BY <1>7, <2>2 DEF SelectSaid
    <3>2. d[f] = SelectSaid(s, f) /\ (d[f] # {} => f > p) BY <1>12 DEF SelectBatch
    <3>3. SelectSaid(s, f) # {} => f \in s.readable \cup s.writable \cup s.err BY DEF SelectSaid
    <3>4. d[f] # {} => f \in S BY <1>1, <3>2, <3>3
    <3>5. d[f] # {} => f > fd BY <1>3, <1>4, <2>2, <3>4
    <3> QED BY <1>5, <1>10, <2>2, <3>1, <3>2, <3>5
  <2> QED BY <2>1, <2>2
<1>13. SelectBatch(processed', sets', due', failed')
  BY <1>4, <1>5, <1>7, <1>9, <1>11, <1>12 DEF SelectBatch
<1> QED BY <1>5, <1>6, <1>7, <1>8, <1>13 DEF EventsAreReal
-----------------------------------------------------------------------------
(* The poller watches what the loop has handlers for. *)
LEMMA WatchedIs ==
  ASSUME EventInv
  PROVE  Watched = fds /\ fds \subseteq Fd /\ due \in Due
<1>1. fds \subseteq Fd /\ due \in Due /\ api \in {"epoll", "poll", "select"} BY DEF EventInv, LoopInv, Due
<1>2. CASE api = "epoll" BY <1>1, <1>2 DEF Watched, EventInv, EpollInv
<1>3. CASE api = "poll"
  <2>1. Watched = {fd \in Fd : EntryOf(fd) # {}} BY <1>3 DEF Watched
  <2>2. fds = Listed(events) BY <1>3 DEF EventInv, PollEntriesInv
  <2> QED BY <1>1, <2>1, <2>2 DEF EntryOf, Listed
<1>4. CASE api = "select" BY <1>1, <1>4 DEF Watched, EventInv, SelectInv
<1> QED BY <1>1, <1>2, <1>3, <1>4

(* When the poller finds nothing left, nothing is outstanding. *)
LEMMA NothingDue ==
  ASSUME EventInv, Pending(processed, events, sets) = {}
  PROVE  \A fd \in Fd : due[fd] = {}
<1> SUFFICES ASSUME NEW fd \in Fd, due[fd] # {} PROVE FALSE OBVIOUS
<1>1. CASE api = "epoll"
  <2>1. EpollBatch(processed, events, due, removed) BY <1>1 DEF EventInv, EpollInv
  <2>2. PICK m \in DOMAIN events : events[m].fd = fd BY <2>1 DEF EpollBatch, Listed
  <2>3. events \in Seq(EpollEvent) /\ processed = Len(events) BY <2>1 DEF EpollBatch
  <2>4. processed \in Pending(processed, events, sets) BY <1>1, <2>2, <2>3 DEF Pending
  <2> QED BY <2>4
<1>2. CASE api = "poll"
  <2>1. PollBatch(processed, events, due) BY <1>2 DEF EventInv, PollEntriesInv
  <2>2. PICK m \in DOMAIN events : events[m].fd = fd BY <2>1 DEF PollBatch, Listed
  <2>3. events \in Seq(PollEntry) /\ processed \in Int BY <2>1 DEF PollBatch
  <2>4. events[m].revents # {} /\ ~(m > processed)
    <3>1. due[fd] = Said(events[m].revents) /\ (m > processed => events[m].revents = {}) BY <2>1, <2>2 DEF PollBatch
    <3>2. Said({}) = {} BY DEF Said
    <3> QED BY <3>1, <3>2
  <2>5. m \in 1..Len(events) BY <2>3
  <2>6. m \in Pending(processed, events, sets) BY <1>2, <2>3, <2>4, <2>5 DEF Pending
  <2> QED BY <2>6
<1>3. CASE api = "select"
  <2>1. SelectBatch(processed, sets, due, failed) /\ failed \in BOOLEAN BY <1>3 DEF EventInv, SelectInv, LoopInv
  <2>2. due[fd] = SelectSaid(sets, fd) /\ fd > processed BY <2>1 DEF SelectBatch
  <2>3. fd \in sets.readable \cup sets.writable \cup sets.err BY <2>2 DEF SelectSaid
  <2>4. fd \in Pending(processed, events, sets) BY <1>3, <2>2, <2>3 DEF Pending
  <2> QED BY <2>4
<1> QED BY <1>1, <1>2, <1>3 DEF EventInv, LoopInv

(* An event left over is reported. *)
LEMMA PendingKeeps ==
  ASSUME EventInv, WaitPending
  PROVE  EventInv'
<1>1. /\ api' = api /\ interest' = interest /\ open' = open /\ fds' = fds /\ asked' = asked
      /\ removed' = removed /\ failed' = failed /\ t' = 0 /\ turn' \in {"wait", "dispatch"}
  BY DEF WaitPending, Lpushevent
<1>2. due \in Due /\ Pending(processed, events, sets) # {} /\ Lpushevent(processed, events, sets, due)
  BY WatchedIs DEF WaitPending
<1>3. CASE api = "epoll"
  <2>1. EpollBatch(processed, events, due, removed') BY <1>1, <1>3 DEF EventInv, EpollInv
  <2>2. EpollBatch(processed', events', due', removed') /\ due' \in Due /\ EventsAreReal'
    BY <1>2, <1>3, <2>1, EpollPush
  <2>3. EpollInv' BY <1>1, <1>3, <2>2 DEF EventInv, EpollInv
  <2> QED BY <1>1, <1>3, <2>2, <2>3 DEF EventInv, LoopInv, Due, BatchCompleteThenTimers
<1>4. CASE api = "poll"
  <2>1. PollBatch(processed, events, due) BY <1>1, <1>4 DEF EventInv, PollEntriesInv
  <2>2. /\ PollBatch(processed', events', due') /\ due' \in Due /\ EventsAreReal'
        /\ Listed(events') = Listed(events) /\ Len(events') = Len(events)
    BY <1>2, <1>4, <2>1, PollPush
  <2>3. PollEntriesInv' BY <1>1, <1>4, <2>2 DEF EventInv, PollEntriesInv
  <2> QED BY <1>1, <1>4, <2>2, <2>3 DEF EventInv, LoopInv, Due, BatchCompleteThenTimers
<1>5. CASE api = "select"
  <2>1. SelectBatch(processed, sets, due, failed') /\ failed' \in BOOLEAN
    BY <1>1, <1>5 DEF EventInv, SelectInv, LoopInv
  <2>2. /\ SelectBatch(processed', sets', due', failed') /\ due' \in Due /\ EventsAreReal'
        /\ sets'.all = sets.all /\ events' = events
    BY <1>2, <1>5, <2>1, SelectPush
  <2>3. SelectInv' BY <1>1, <1>5, <2>2 DEF EventInv, SelectInv
  <2> QED BY <1>1, <1>5, <2>2, <2>3 DEF EventInv, LoopInv, Due, BatchCompleteThenTimers
<1> QED BY <1>3, <1>4, <1>5 DEF EventInv, LoopInv

(* What history notes when the kernel is asked: all has been reported, and *)
(* the timers have run.                                                    *)
LEMMA AskKeeps ==
  ASSUME EventInv, AsksKernel, Ask
  PROVE  BatchCompleteThenTimers'
<1>1. \A fd \in Fd : due[fd] = {} BY NothingDue DEF AsksKernel
<1>2. t \in Nat /\ t > 0 BY DEF AsksKernel, EventInv, LoopInv
<1>3. asked' = [missed |-> {fd \in Fd : due[fd] # {}}, events |-> t = 0] BY DEF Ask
<1>4. {fd \in Fd : due[fd] # {}} = {} BY <1>1
<1>5. asked'.missed = {} BY <1>3, <1>4
<1>6. (t = 0) = FALSE BY <1>2
<1>7. asked'.events = FALSE BY <1>3, <1>6
<1> QED BY <1>5, <1>7 DEF BatchCompleteThenTimers

(* The parts of an answer a: the descriptors with events, what is due, and *)
(* what epoll_wait returns of it in some order.                            *)
Hit(a) == {fd \in Watched : a[fd] # {}}
DueOf(a) == [fd \in Fd |-> IF fd \in Watched THEN Said(a[fd]) ELSE {}]
Returned(a, order) == [m \in DOMAIN order |-> [fd |-> order[m], ev |-> a[order[m]]]]

(* The kernel answers epoll_wait: each descriptor once, in any order. *)
LEMMA EpollAnswer ==
  ASSUME EventInv, api = "epoll", NEW a \in Answers, NEW order,
         order \in [1..Cardinality(Hit(a)) -> Hit(a)],
         \A f \in Hit(a) : \E m \in DOMAIN order : order[m] = f
  PROVE  LET e == Returned(a, order)
         IN  /\ DueOf(a) \in Due /\ EpollBatch(Len(e), e, DueOf(a), {})
             /\ Pending(Len(e), e, sets) # {}
<1> DEFINE hit == Hit(a)
           n == Cardinality(hit)
           e == Returned(a, order)
           d == DueOf(a)
<1>1. Watched \subseteq Fd BY WatchedIs
<1>2. IsFiniteSet(hit) /\ n \in Nat
  <2>0. 0 \in Int /\ MaxFd \in Int BY PollBounds
  <2>1. IsFiniteSet(Fd) BY <2>0, FS_Interval DEF Fd
  <2>2. hit \in SUBSET Fd BY <1>1 DEF Hit
  <2>3. IsFiniteSet(hit) BY <2>1, <2>2, FS_Subset
  <2> QED BY <2>3, FS_CardinalityType
<1>3. /\ \A fd \in Watched : a[fd] \in Ev
      /\ \E fd \in Watched : a[fd] # {}
  <2> DEFINE P(x) == /\ x \in [Watched -> SUBSET {"in", "out", "hup"}]
                     /\ \E fd \in Watched : x[fd] # {}
  <2>1. P(a) BY DEF Answers
  <2> QED BY <2>1 DEF Ev
<1>4. order \in [1..n -> hit] /\ \A f \in hit : \E m \in 1..n : order[m] = f
  <2>1. DOMAIN order = 1..n OBVIOUS
  <2> QED BY <2>1
<1>5. \A m, j \in 1..n : order[m] = order[j] => m = j
  <2>1. order \in Surjection(1..n, hit) BY <1>4 DEF Surjection
  <2>a. Cardinality(hit) = n OBVIOUS
  <2> HIDE DEF n, hit
  <2>0. 1 \in Int /\ n \in Int /\ (IF 1 > n THEN 0 ELSE n - 1 + 1) = n BY <1>2
  <2>2. IsFiniteSet(1..n) /\ Cardinality(1..n) = n BY <2>0, FS_Interval
  <2>3. order \in Injection(1..n, hit) BY <1>2, <2>a, <2>1, <2>2, FS_SurjSameCardinalityImpliesInj
  <2> QED BY <2>3 DEF Injection, IsInjective
<1>6. \A f \in hit : f \in Fd /\ f \in Watched /\ a[f] \in Ev /\ a[f] # {} BY <1>1, <1>3 DEF Hit
<1> HIDE DEF hit
<1> HIDE DEF n
<1>7. DOMAIN order = 1..n BY <1>4
<1>8. /\ DOMAIN e = 1..n /\ \A m \in 1..n : order[m] \in hit /\ e[m] = [fd |-> order[m], ev |-> a[order[m]]]
  BY <1>4, <1>7 DEF Returned
<1>9. \A m \in 1..n : e[m] \in EpollEvent BY <1>6, <1>8 DEF EpollEvent
<1>10. e \in Seq(EpollEvent) /\ Len(e) = n
  <2>1. e = [m \in 1..n |-> e[m]] BY <1>7 DEF Returned
  <2>2. e \in [1..n -> EpollEvent] BY <1>9, <2>1
  <2> QED BY <1>2, <2>2
<1>11. \A f \in Fd : d[f] = IF f \in Watched THEN Said(a[f]) ELSE {} BY DEF DueOf
<1>12. d \in Due
  <2>1. \A f \in Fd : d[f] \in SUBSET {"r", "w"} BY <1>3, <1>11, SaidIs
  <2>2. d = [f \in Fd |-> d[f]] BY DEF DueOf
  <2> QED BY <2>1, <2>2 DEF Due
<1>13. Distinct(e)
  <2> SUFFICES ASSUME NEW m \in 1..n, NEW j \in 1..n, e[m].fd = e[j].fd PROVE m = j BY <1>8 DEF Distinct
  <2>1. e[m].fd = order[m] /\ e[j].fd = order[j] BY <1>8
  <2> QED BY <1>5, <2>1
<1>14. \A m \in DOMAIN e : d[e[m].fd] = Said(e[m].ev) BY <1>6, <1>8, <1>11
<1>15. ASSUME NEW f \in Fd, d[f] # {} PROVE f \in Listed(e)
  <2>1. f \in Watched /\ Said(a[f]) # {} BY <1>11, <1>15
  <2>2. a[f] # {} BY <1>3, <2>1, SaidIs
  <2>3. f \in hit BY <2>1, <2>2 DEF hit, Hit
  <2>4. PICK m \in 1..n : order[m] = f BY <1>4, <2>3
  <2>5. e[m].fd = f BY <1>8, <2>4
  <2> QED BY <1>8, <2>4, <2>5 DEF Listed
<1>16. EpollBatch(Len(e), e, d, {}) BY <1>10, <1>13, <1>14, <1>15 DEF EpollBatch
<1>17. n > 0
  <2>1. PICK f \in hit : TRUE BY <1>3 DEF hit, Hit
  <2>2. PICK m \in 1..n : order[m] = f BY <1>4
  <2> QED BY <1>2, <2>2
<1>18. n \in Pending(Len(e), e, sets) BY <1>2, <1>10, <1>17 DEF Pending
<1> QED BY <1>12, <1>16, <1>18

(* The kernel's answer, for each watched descriptor. *)
LEMMA AnswerIs ==
  ASSUME EventInv, NEW a \in Answers, NEW d,
         d = [fd \in Fd |-> IF fd \in Watched THEN Said(a[fd]) ELSE {}]
  PROVE  /\ \A fd \in Watched : fd \in Fd /\ a[fd] \in Ev
         /\ \E fd \in Watched : a[fd] # {}
         /\ \A fd \in Fd : d[fd] = IF fd \in Watched THEN Said(a[fd]) ELSE {}
         /\ d \in Due
<1>1. Watched \subseteq Fd BY WatchedIs
<1>2. a \in [Watched -> SUBSET {"in", "out", "hup"}] /\ \E fd \in Watched : a[fd] # {} BY DEF Answers
<1>3. \A fd \in Watched : a[fd] \in Ev BY <1>2 DEF Ev
<1>4. \A fd \in Fd : d[fd] = IF fd \in Watched THEN Said(a[fd]) ELSE {} OBVIOUS
<1>5. \A fd \in Fd : d[fd] \in SUBSET {"r", "w"} BY <1>3, <1>4, SaidIs
<1>6. d = [fd \in Fd |-> d[fd]] OBVIOUS
<1>7. d \in Due BY <1>5, <1>6 DEF Due
<1> QED BY <1>1, <1>2, <1>3, <1>4, <1>7

(* poll(2) answers in place. *)
LEMMA PollAnswer ==
  ASSUME EventInv, api = "poll", NEW a \in Answers, NEW d, NEW e,
         e = [m \in DOMAIN events |-> [events[m] EXCEPT !.revents = a[events[m].fd]]],
         d = [fd \in Fd |-> IF fd \in Watched THEN Said(a[fd]) ELSE {}]
  PROVE  /\ d \in Due /\ PollBatch(Len(e), e, d)
         /\ Pending(Len(e), e, sets) # {}
         /\ Listed(e) = Listed(events) /\ Len(e) = Len(events)
<1> DEFINE n == Len(events)
<1>1. /\ \A fd \in Watched : fd \in Fd /\ a[fd] \in Ev
      /\ \E fd \in Watched : a[fd] # {}
      /\ \A fd \in Fd : d[fd] = IF fd \in Watched THEN Said(a[fd]) ELSE {}
      /\ d \in Due
  BY AnswerIs
<1>2. PollBatch(processed, events, due) /\ fds = Listed(events) BY DEF EventInv, PollEntriesInv
<1>3. Watched = Listed(events) BY <1>2, WatchedIs
<1>4. events \in Seq(PollEntry) /\ n \in Nat /\ DOMAIN events = 1..n BY <1>2 DEF PollBatch
<1>5. ASSUME NEW m \in 1..n
      PROVE  /\ e[m] \in PollEntry /\ e[m].fd = events[m].fd /\ e[m].revents = a[events[m].fd]
             /\ events[m].fd \in Watched
  <2>1. events[m] \in PollEntry BY <1>4, ElementIn
  <2>2. events[m].fd \in Watched BY <1>3, <1>4 DEF Listed
  <2>3. e[m] = [events[m] EXCEPT !.revents = a[events[m].fd]] BY <1>4
  <2>4. a[events[m].fd] \in Ev BY <1>1, <2>2
  <2> QED BY ONLY <2>1, <2>2, <2>3, <2>4 DEF PollEntry
<1>6. e \in Seq(PollEntry) /\ Len(e) = n /\ DOMAIN e = 1..n
  <2>1. e = [m \in 1..n |-> e[m]] BY <1>4
  <2>2. e \in [1..n -> PollEntry] BY <1>5, <2>1
  <2> QED BY <1>4, <2>2
<1> HIDE DEF n
<1>7. Listed(e) = Listed(events) BY <1>4, <1>5, <1>6 DEF Listed
<1>8. Distinct(e)
  <2> SUFFICES ASSUME NEW m \in 1..n, NEW j \in 1..n, e[m].fd = e[j].fd PROVE m = j
    BY <1>6, ZenonT(60) DEF Distinct
  <2>1. events[m].fd = events[j].fd BY <1>5
  <2> QED BY <1>2, <1>4, <2>1 DEF PollBatch, Distinct
<1>9. \A m \in DOMAIN e : d[e[m].fd] = Said(e[m].revents) /\ ~(m > Len(e))
  <2> SUFFICES ASSUME NEW m \in 1..n PROVE d[e[m].fd] = Said(e[m].revents) /\ ~(m > n) BY <1>6
  <2>1. events[m].fd \in Watched /\ e[m].fd = events[m].fd /\ e[m].revents = a[events[m].fd] BY <1>5
  <2>2. events[m].fd \in Fd BY <1>1, <2>1
  <2>3. d[events[m].fd] = Said(a[events[m].fd]) BY <1>1, <2>1, <2>2
  <2>4. ~(m > n) BY <1>4
  <2> QED BY <2>1, <2>3, <2>4
<1>10. \A fd \in Fd : d[fd] # {} => fd \in Listed(e) BY <1>1, <1>3, <1>7
<1>11. PollBatch(Len(e), e, d)
  <2>1. Len(e) \in Int BY <1>4, <1>6
  <2> QED BY <1>6, <1>8, <1>9, <1>10, <2>1 DEF PollBatch
<1>12. Pending(Len(e), e, sets) # {}
  <2>1. PICK fd \in Listed(events) : a[fd] # {} BY <1>1, <1>3
  <2>2. PICK m \in 1..n : events[m].fd = fd BY <1>4, <2>1 DEF Listed
  <2>3. e[m].revents # {} BY <1>5, <2>1, <2>2
  <2>4. m \in Pending(Len(e), e, sets) BY <1>4, <1>6, <2>3 DEF Pending
  <2> QED BY <2>4
<1> QED BY <1>1, <1>6, <1>7, <1>11, <1>12 DEF n

(* select(2) answers in the three sets. *)
LEMMA SelectAnswer ==
  ASSUME EventInv, api = "select", NEW a \in Answers, NEW d, NEW s, NEW e,
         LET hit == {fd \in Watched : a[fd] # {}} IN
         s = [sets EXCEPT !.readable = {fd \in hit : "in" \in a[fd]},
                          !.writable = {fd \in hit : "out" \in a[fd]},
                          !.err = {fd \in hit : "hup" \in a[fd]}],
         d = [fd \in Fd |-> IF fd \in Watched THEN Said(a[fd]) ELSE {}]
  PROVE  /\ d \in Due /\ SelectBatch(-1, s, d, FALSE)
         /\ Pending(-1, e, s) # {} /\ s.all = sets.all
<1> DEFINE hit == {fd \in Watched : a[fd] # {}}
           R == {fd \in hit : "in" \in a[fd]}
           W == {fd \in hit : "out" \in a[fd]}
           E == {fd \in hit : "hup" \in a[fd]}
<1>1. /\ \A fd \in Watched : fd \in Fd /\ a[fd] \in Ev
      /\ \E fd \in Watched : a[fd] # {}
      /\ \A fd \in Fd : d[fd] = IF fd \in Watched THEN Said(a[fd]) ELSE {}
      /\ d \in Due
  BY AnswerIs
<1>2. SelectBatch(processed, sets, due, failed) /\ fds = sets.all BY DEF EventInv, SelectInv
<1>3. Watched = sets.all /\ sets \in SelectSets BY <1>2, WatchedIs DEF SelectBatch
<1>4. \A fd \in Fd : /\ fd \in R <=> fd \in Watched /\ "in" \in a[fd]
                     /\ fd \in W <=> fd \in Watched /\ "out" \in a[fd]
                     /\ fd \in E <=> fd \in Watched /\ "hup" \in a[fd]
  OBVIOUS
<1>5. R \subseteq Watched /\ W \subseteq Watched /\ E \subseteq Watched /\ Watched \subseteq Fd BY <1>1
<1>6. s = [sets EXCEPT !.readable = R, !.writable = W, !.err = E] OBVIOUS
<1> HIDE DEF R, W, E
<1>7. /\ s.readable = R /\ s.writable = W /\ s.err = E /\ s.all = sets.all /\ s \in SelectSets
      /\ s.wantread = sets.wantread /\ s.wantwrite = sets.wantwrite
  BY <1>3, <1>5, <1>6, ZenonT(60) DEF SelectSets
<1>8. s.readable \cup s.writable \cup s.err \subseteq s.all /\ s.wantread \cup s.wantwrite \subseteq s.all
  BY <1>2, <1>3, <1>5, <1>7 DEF SelectBatch
<1>9. ASSUME NEW fd \in Fd PROVE d[fd] = SelectSaid(s, fd) /\ fd > -1
  <2>1. fd > -1 BY PollBounds DEF Fd
  <2>2. CASE fd \in Watched
    <3>1. SelectSaid(s, fd) = Said(a[fd]) BY <1>4, <1>7, <2>2 DEF SelectSaid, Said
    <3> QED BY <1>1, <2>1, <2>2, <3>1
  <2>3. CASE fd \notin Watched
    <3>1. SelectSaid(s, fd) = {} BY <1>4, <1>7, <2>3 DEF SelectSaid
    <3> QED BY <1>1, <2>1, <2>3, <3>1
  <2> QED BY <2>2, <2>3
<1>10. SelectBatch(-1, s, d, FALSE)
  <2>1. -1 \in Int /\ s \in SelectSets BY <1>7
  <2>2. \A fd \in Fd : d[fd] = SelectSaid(s, fd) /\ (d[fd] # {} => fd > -1) BY <1>9
  <2> QED BY <1>8, <2>1, <2>2 DEF SelectBatch
<1>11. Pending(-1, e, s) # {}
  <2>1. PICK fd \in Watched : a[fd] # {} BY <1>1
  <2>2. fd \in Fd /\ a[fd] \in Ev BY <1>1
  <2>3. "in" \in a[fd] \/ "out" \in a[fd] \/ "hup" \in a[fd] BY <2>1, <2>2 DEF Ev
  <2>4. fd \in s.readable \cup s.writable \cup s.err BY <1>4, <1>7, <2>1, <2>2, <2>3
  <2>5. fd \in Pending(-1, e, s) BY <1>9, <2>2, <2>4 DEF Pending
  <2> QED BY <2>5
<1> QED BY <1>1, <1>7, <1>10, <1>11

(* A wait that the kernel answers with events. *)
LEMMA EventsKeep ==
  ASSUME EventInv, LwaitEvents
  PROVE  EventInv'
<1>1. failed' = FALSE /\ removed' = {} /\ BatchCompleteThenTimers' BY AskKeeps DEF LwaitEvents
<1>2. PICK a \in Answers :
       LET d == [fd \in Fd |-> IF fd \in Watched THEN Said(a[fd]) ELSE {}]
           hit == {fd \in Watched : a[fd] # {}}
       IN \/ /\ api = "epoll"
             /\ Cardinality(hit) <= MaxEvents
             /\ \E order \in [1..Cardinality(hit) -> hit] :
                  /\ {order[m] : m \in DOMAIN order} = hit
                  /\ LET e == [m \in DOMAIN order |-> [fd |-> order[m], ev |-> a[order[m]]]]
                     IN Lpushevent(Len(e), e, sets, d)
          \/ /\ api = "poll"
             /\ LET e == [m \in DOMAIN events |-> [events[m] EXCEPT !.revents = a[events[m].fd]]]
                IN Lpushevent(Len(e), e, sets, d)
          \/ /\ api = "select"
             /\ Lpushevent(-1, events,
                           [sets EXCEPT !.readable = {fd \in hit : "in" \in a[fd]},
                                        !.writable = {fd \in hit : "out" \in a[fd]},
                                        !.err = {fd \in hit : "hup" \in a[fd]}], d)
  BY DEF LwaitEvents
<1> DEFINE d == [fd \in Fd |-> IF fd \in Watched THEN Said(a[fd]) ELSE {}]
           hit == {fd \in Watched : a[fd] # {}}
<1>3. CASE api = "epoll"
  <2>1. PICK order \in [1..Cardinality(hit) -> hit] :
          /\ {order[m] : m \in DOMAIN order} = hit
          /\ LET e == [m \in DOMAIN order |-> [fd |-> order[m], ev |-> a[order[m]]]]
             IN Lpushevent(Len(e), e, sets, d)
    BY <1>2, <1>3
  <2> DEFINE e == Returned(a, order)
  <2>2. d \in Due /\ EpollBatch(Len(e), e, d, {}) /\ Pending(Len(e), e, sets) # {}
    <3>1. hit = Hit(a) /\ d = DueOf(a) BY DEF Hit, DueOf
    <3>2. order \in [1..Cardinality(hit) -> hit] /\ \A f \in hit : \E m \in DOMAIN order : order[m] = f
      BY <2>1
    <3> HIDE DEF d, hit
    <3> QED BY <1>3, <3>1, <3>2, EpollAnswer
  <2>3. Lpushevent(Len(e), e, sets, d) BY <2>1 DEF Returned
  <2> HIDE DEF e, d
  <2>4. EpollBatch(processed', events', due', removed') /\ due' \in Due /\ EventsAreReal'
    BY <1>1, <1>3, <2>2, <2>3, EpollPush
  <2>5. /\ api' = api /\ interest' = interest /\ open' = open /\ fds' = fds /\ t' = 0
        /\ turn' \in {"wait", "dispatch"}
    BY <2>3 DEF Lpushevent
  <2>6. EpollInv' BY <1>3, <2>4, <2>5 DEF EventInv, EpollInv
  <2> QED BY <1>1, <1>3, <2>4, <2>5, <2>6 DEF EventInv, LoopInv, Due
<1>4. CASE api = "poll"
  <2> DEFINE e == [m \in DOMAIN events |-> [events[m] EXCEPT !.revents = a[events[m].fd]]]
  <2>1. Lpushevent(Len(e), e, sets, d) BY <1>2, <1>4
  <2>2. /\ d \in Due /\ PollBatch(Len(e), e, d) /\ Pending(Len(e), e, sets) # {}
        /\ Listed(e) = Listed(events) /\ Len(e) = Len(events)
    BY <1>4, PollAnswer
  <2> HIDE DEF e, d
  <2>3. /\ PollBatch(processed', events', due') /\ due' \in Due /\ EventsAreReal'
        /\ Listed(events') = Listed(e) /\ Len(events') = Len(e)
    BY <1>4, <2>1, <2>2, PollPush
  <2>4. /\ api' = api /\ interest' = interest /\ open' = open /\ fds' = fds /\ t' = 0
        /\ turn' \in {"wait", "dispatch"}
    BY <2>1 DEF Lpushevent
  <2>5. PollEntriesInv' BY <1>4, <2>2, <2>3, <2>4 DEF EventInv, PollEntriesInv
  <2> QED BY <1>1, <1>4, <2>3, <2>4, <2>5 DEF EventInv, LoopInv, Due
<1>5. CASE api = "select"
  <2> DEFINE s == [sets EXCEPT !.readable = {fd \in hit : "in" \in a[fd]},
                               !.writable = {fd \in hit : "out" \in a[fd]},
                               !.err = {fd \in hit : "hup" \in a[fd]}]
  <2>1. Lpushevent(-1, events, s, d) BY <1>2, <1>5
  <2>2. d \in Due /\ SelectBatch(-1, s, d, FALSE) /\ Pending(-1, events, s) # {} /\ s.all = sets.all
    BY <1>5, SelectAnswer
  <2> HIDE DEF s, d
  <2>3. SelectBatch(-1, s, d, failed') /\ failed' \in BOOLEAN BY <1>1, <2>2
  <2>4. /\ SelectBatch(processed', sets', due', failed') /\ due' \in Due /\ EventsAreReal'
        /\ sets'.all = s.all /\ events' = events
    BY <1>5, <2>1, <2>2, <2>3, SelectPush
  <2>5. /\ api' = api /\ interest' = interest /\ open' = open /\ fds' = fds /\ t' = 0
        /\ turn' \in {"wait", "dispatch"}
    BY <2>1 DEF Lpushevent
  <2>6. SelectInv' BY <1>5, <2>2, <2>4, <2>5 DEF EventInv, SelectInv
  <2> QED BY <1>1, <1>5, <2>3, <2>4, <2>5, <2>6 DEF EventInv, LoopInv, Due
<1> QED BY <1>3, <1>4, <1>5 DEF EventInv, LoopInv

(* A wait that times out, is interrupted or fails. *)
LEMMA NothingKeeps ==
  ASSUME EventInv, LwaitNothing
  PROVE  EventInv'
<1>1. BatchCompleteThenTimers' BY AskKeeps DEF LwaitNothing
<1>2. /\ api' = api /\ processed' = processed /\ interest' = interest /\ events' = events /\ open' = open
      /\ fds' = fds /\ t' = t /\ due' = due /\ removed' = {} /\ turn' \in {"wait", "timers"} /\ last' = last
      /\ failed' \in BOOLEAN
  BY DEF LwaitNothing
<1>3. \A fd \in Fd : due[fd] = {} BY NothingDue DEF LwaitNothing, AsksKernel
<1>4. LoopInv' BY <1>2 DEF EventInv, LoopInv
<1>5. CASE api = "epoll"
  <2>1. EpollBatch(processed, events, due, removed) BY <1>5 DEF EventInv, EpollInv
  <2>2. Pending(processed, events, sets) = {} BY DEF LwaitNothing, AsksKernel
  <2>3. DOMAIN events = {}
    <3>1. events \in Seq(EpollEvent) /\ processed = Len(events) BY <2>1 DEF EpollBatch
    <3>2. Len(events) = 0 BY <1>5, <2>2, <3>1 DEF Pending
    <3> QED BY <3>1, <3>2
  <2>4. EpollBatch(processed', events', due', removed') BY <1>2, <2>1, <2>3 DEF EpollBatch
  <2>5. EpollInv' BY <1>2, <1>5, <2>4 DEF EventInv, EpollInv
  <2>6. EventsAreReal' BY <1>2 DEF EventInv, EventsAreReal
  <2> QED BY <1>1, <1>2, <1>4, <1>5, <2>5, <2>6 DEF EventInv
<1>6. CASE api = "poll"
  <2>1. PollEntriesInv' BY <1>2, <1>6 DEF EventInv, PollEntriesInv
  <2>2. EventsAreReal' BY <1>2 DEF EventInv, EventsAreReal
  <2> QED BY <1>1, <1>2, <1>4, <1>6, <2>1, <2>2 DEF EventInv
<1>7. CASE api = "select"
  <2>1. SelectBatch(processed, sets, due, failed) /\ sets \in SelectSets BY <1>7 DEF EventInv, SelectInv, SelectBatch
  <2>2. ASSUME failed' = FALSE, sets' = [sets EXCEPT !.readable = {}, !.writable = {}, !.err = {}]
        PROVE  SelectInv'
    <3>1. /\ sets' \in SelectSets /\ sets'.readable = {} /\ sets'.writable = {} /\ sets'.err = {}
          /\ sets'.all = sets.all /\ sets'.wantread = sets.wantread /\ sets'.wantwrite = sets.wantwrite
      BY <2>1, <2>2 DEF SelectSets
    <3>2. \A fd \in Fd : SelectSaid(sets', fd) = {} BY <3>1 DEF SelectSaid
    <3>3. SelectBatch(processed', sets', due', failed') BY <1>2, <1>3, <2>1, <2>2, <3>1, <3>2 DEF SelectBatch
    <3> QED BY <1>2, <1>7, <3>1, <3>3 DEF EventInv, SelectInv
  <2>3. ASSUME failed' = TRUE, sets' = Copies PROVE SelectInv'
    <3>1. /\ sets' \in SelectSets /\ sets'.readable = sets.wantread /\ sets'.writable = sets.wantwrite
          /\ sets'.err = sets.all /\ sets'.all = sets.all /\ sets'.wantread = sets.wantread
          /\ sets'.wantwrite = sets.wantwrite
      BY <2>1, <2>3 DEF SelectSets, Copies
    <3>2. SelectBatch(processed', sets', due', failed') BY <1>2, <1>3, <2>1, <2>3, <3>1 DEF SelectBatch
    <3> QED BY <1>2, <1>7, <3>1, <3>2 DEF EventInv, SelectInv
  <2>4. SelectInv' BY <1>7, <2>2, <2>3 DEF LwaitNothing
  <2>5. EventsAreReal' BY <1>2 DEF EventInv, EventsAreReal
  <2> QED BY <1>1, <1>2, <1>4, <1>7, <2>4, <2>5 DEF EventInv
<1> QED BY <1>5, <1>6, <1>7 DEF EventInv, LoopInv
-----------------------------------------------------------------------------
(* A callback that leaves the open batch and the history alone. *)
LEMMA FrameKeeps ==
  ASSUME EventInv, UNCHANGED <<api, last, asked>>, LoopInv',
         api = "epoll" => EpollInv', api = "poll" => PollEntriesInv', api = "select" => SelectInv'
  PROVE  EventInv'
<1>1. EventsAreReal' BY DEF EventInv, EventsAreReal
<1>2. BatchCompleteThenTimers' BY DEF EventInv, BatchCompleteThenTimers
<1> QED BY <1>1, <1>2 DEF EventInv

(* A new registration has nothing outstanding. *)
LEMMA RegisterKeeps ==
  ASSUME EventInv, NEW fd \in Fd, NEW want \in Want, Register(fd, want)
  PROVE  EventInv'
<1>1. /\ fd \notin fds /\ fd \in open /\ fds' = fds \cup {fd} /\ Ladd(fd, want)
      /\ UNCHANGED <<api, open, turn, t, due, removed, failed, last, asked>>
  BY DEF Register, history
<1>2. LoopInv' BY <1>1 DEF EventInv, LoopInv
<1>3. ASSUME api = "epoll" PROVE EpollInv'
  <2>1. interest' = [interest EXCEPT ![fd] = want] /\ UNCHANGED <<processed, events>> BY <1>1, <1>3 DEF Ladd
  <2>2. want # Off BY DEF Want, Off
  <2>3. interest \in [Fd -> Want \cup {Off}] /\ fds = {f \in Fd : interest[f] # Off} BY <1>3 DEF EventInv, EpollInv
  <2>4. interest' \in [Fd -> Want \cup {Off}] BY <2>1, <2>3
  <2>5. fds' = {f \in Fd : interest'[f] # Off} BY <1>1, <2>1, <2>2, <2>3
  <2>6. EpollBatch(processed', events', due', removed') BY <1>1, <1>3, <2>1 DEF EventInv, EpollInv
  <2> QED BY <2>4, <2>5, <2>6 DEF EpollInv
<1>4. ASSUME api = "poll" PROVE PollEntriesInv'
  <2> DEFINE x == [fd |-> fd, want |-> want, revents |-> {}]
             n == Len(events)
  <2>1. events' = Append(events, x) /\ n < MaxWatched /\ processed' = processed BY <1>1, <1>4 DEF Ladd
  <2>2. x \in PollEntry /\ x.fd = fd /\ x.revents = {} BY DEF PollEntry, Ev
  <2> HIDE DEF x
  <2>3. PollBatch(processed, events, due) /\ fds = Listed(events) BY <1>4 DEF EventInv, PollEntriesInv
  <2>4. events \in Seq(PollEntry) /\ n \in Nat /\ DOMAIN events = 1..n BY <2>3 DEF PollBatch
  <2>5. /\ events' \in Seq(PollEntry) /\ Len(events') = n + 1 /\ DOMAIN events' = 1..(n + 1)
        /\ events'[n + 1] = x /\ \A m \in 1..n : events'[m] = events[m]
    BY <2>1, <2>2, <2>4
  <2>6. \A m \in 1..n : events[m].fd # fd BY <1>1, <2>3, <2>4 DEF Listed
  <2>7. \A m \in 1..(n + 1) : m \in 1..n \/ m = n + 1 BY <2>4
  <2>8. Distinct(events')
    <3> SUFFICES ASSUME NEW m \in 1..(n + 1), NEW j \in 1..(n + 1), events'[m].fd = events'[j].fd PROVE m = j
      BY <2>5 DEF Distinct
    <3>1. CASE m \in 1..n /\ j \in 1..n BY <2>3, <2>4, <2>5, <3>1 DEF PollBatch, Distinct
    <3>2. CASE m \in 1..n /\ j = n + 1 BY <2>2, <2>5, <2>6, <3>2
    <3>3. CASE m = n + 1 /\ j \in 1..n BY <2>2, <2>5, <2>6, <3>3
    <3> QED BY <2>7, <3>1, <3>2, <3>3
  <2>9. Listed(events') = Listed(events) \cup {fd}
    <3>1. ASSUME NEW f \in Listed(events') PROVE f \in Listed(events) \cup {fd}
      <4>1. PICK m \in 1..(n + 1) : f = events'[m].fd BY <2>5 DEF Listed
      <4> QED BY <2>2, <2>4, <2>5, <2>7, <4>1 DEF Listed
    <3>2. ASSUME NEW f \in Listed(events) PROVE f \in Listed(events')
      <4>1. PICK m \in 1..n : f = events[m].fd BY <2>4 DEF Listed
      <4>2. m \in 1..(n + 1) BY <2>4
      <4> QED BY <2>5, <4>1, <4>2 DEF Listed
    <3>3. fd \in Listed(events')
      <4>1. n + 1 \in 1..(n + 1) BY <2>4
      <4> QED BY <2>2, <2>5, <4>1 DEF Listed
    <3> QED BY <3>1, <3>2, <3>3
  <2>10. due[fd] = {} BY <1>1, <2>3 DEF PollBatch
  <2>11. Said({}) = {} BY DEF Said
  <2>12. ASSUME NEW m \in 1..(n + 1)
         PROVE  due[events'[m].fd] = Said(events'[m].revents) /\ (m > processed => events'[m].revents = {})
    <3>1. CASE m \in 1..n BY <2>3, <2>4, <2>5, <3>1 DEF PollBatch
    <3>2. CASE m = n + 1 BY <2>2, <2>5, <2>10, <2>11, <3>2
    <3> QED BY <2>7, <3>1, <3>2
  <2>13. \A f \in Fd : due[f] # {} => f \in Listed(events') BY <2>3, <2>9 DEF PollBatch
  <2>14. processed \in Int BY <2>3 DEF PollBatch
  <2>15. PollBatch(processed', events', due') BY <1>1, <2>1, <2>5, <2>8, <2>12, <2>13, <2>14 DEF PollBatch
  <2>16. Len(events') <= MaxWatched BY <2>1, <2>4, <2>5, PollBounds
  <2> QED BY <1>1, <2>3, <2>9, <2>15, <2>16 DEF PollEntriesInv
<1>5. ASSUME api = "select" PROVE SelectInv'
  <2>1. /\ sets' = [wantread  |-> Keep(fd, "in" \in want, sets.wantread),
                    wantwrite |-> Keep(fd, "out" \in want, sets.wantwrite),
                    readable  |-> sets.readable \ {fd},
                    writable  |-> sets.writable \ {fd},
                    err       |-> sets.err \ {fd},
                    all       |-> sets.all \cup {fd}]
        /\ processed' = processed /\ events' = events
    BY <1>1, <1>5 DEF Ladd
  <2>2. SelectBatch(processed, sets, due, failed) /\ events = <<>> /\ fds = sets.all BY <1>5 DEF EventInv, SelectInv
  <2>3. /\ sets \in SelectSets /\ sets.wantread \cup sets.wantwrite \subseteq sets.all
        /\ sets.readable \cup sets.writable \cup sets.err \subseteq sets.all
    BY <2>2 DEF SelectBatch
  <2>4. /\ sets.wantread \subseteq Fd /\ sets.wantwrite \subseteq Fd /\ sets.readable \subseteq Fd
        /\ sets.writable \subseteq Fd /\ sets.err \subseteq Fd /\ sets.all \subseteq Fd
    BY <2>3 DEF SelectSets
  <2>5. /\ sets'.readable = sets.readable /\ sets'.writable = sets.writable /\ sets'.err = sets.err
        /\ sets'.all = sets.all \cup {fd} /\ sets'.wantread \subseteq sets.wantread \cup {fd}
        /\ sets'.wantwrite \subseteq sets.wantwrite \cup {fd}
    BY <1>1, <2>1, <2>2, <2>3 DEF Keep
  <2>6. sets' \in SelectSets
    <3> DEFINE wr == Keep(fd, "in" \in want, sets.wantread)
               ww == Keep(fd, "out" \in want, sets.wantwrite)
    <3>1. wr \in SUBSET Fd /\ ww \in SUBSET Fd BY <2>4 DEF Keep
    <3> HIDE DEF wr, ww
    <3> QED BY <2>1, <2>4, <3>1 DEF SelectSets, wr, ww
  <2>7. \A f \in Fd : SelectSaid(sets', f) = SelectSaid(sets, f) BY <2>5 DEF SelectSaid
  <2>8. /\ sets'.wantread \cup sets'.wantwrite \subseteq sets'.all
        /\ sets'.readable \cup sets'.writable \cup sets'.err \subseteq sets'.all
    BY <2>3, <2>5
  <2>9. SelectBatch(processed', sets', due', failed') BY <1>1, <2>1, <2>2, <2>6, <2>7, <2>8 DEF SelectBatch
  <2> QED BY <1>1, <2>1, <2>2, <2>5, <2>9 DEF SelectInv
<1> QED BY <1>1, <1>2, <1>3, <1>4, <1>5, FrameKeeps

(* A change of what is wanted leaves what was reported alone. *)
LEMMA SetFlagsKeeps ==
  ASSUME EventInv, NEW fd \in Fd, NEW want \in Want, SetFlags(fd, want)
  PROVE  EventInv'
<1>1. /\ fd \in fds /\ Lset(fd, want)
      /\ UNCHANGED <<api, open, fds, turn, t, due, removed, failed, last, asked>>
  BY DEF SetFlags, history, loopState
<1>2. LoopInv' BY <1>1 DEF EventInv, LoopInv
<1>3. ASSUME api = "epoll" PROVE EpollInv'
  <2>1. interest' = [interest EXCEPT ![fd] = want] /\ UNCHANGED <<processed, events>> BY <1>1, <1>3 DEF Lset
  <2>2. want # Off BY DEF Want, Off
  <2>3. interest \in [Fd -> Want \cup {Off}] /\ fds = {f \in Fd : interest[f] # Off} BY <1>3 DEF EventInv, EpollInv
  <2>4. interest' \in [Fd -> Want \cup {Off}] BY <2>1, <2>3
  <2>5. fds' = {f \in Fd : interest'[f] # Off} BY <1>1, <2>1, <2>2, <2>3
  <2>6. EpollBatch(processed', events', due', removed') BY <1>1, <1>3, <2>1 DEF EventInv, EpollInv
  <2> QED BY <2>4, <2>5, <2>6 DEF EpollInv
<1>4. ASSUME api = "poll" PROVE PollEntriesInv'
  <2> DEFINE n == Len(events)
  <2>1. /\ processed' = processed
        /\ events' = [m \in DOMAIN events |->
                        IF events[m].fd = fd THEN [events[m] EXCEPT !.want = want] ELSE events[m]]
    BY <1>1, <1>4 DEF Lset
  <2>2. /\ PollBatch(processed, events, due) /\ fds = Listed(events) /\ n <= MaxWatched
    BY <1>4 DEF EventInv, PollEntriesInv
  <2>3. events \in Seq(PollEntry) /\ n \in Nat /\ DOMAIN events = 1..n BY <2>2 DEF PollBatch
  <2>4. ASSUME NEW m \in 1..n
        PROVE  events'[m] \in PollEntry /\ events'[m].fd = events[m].fd /\ events'[m].revents = events[m].revents
    <3>1. events[m] \in PollEntry BY <2>3, ElementIn
    <3>2. events'[m] = IF events[m].fd = fd THEN [events[m] EXCEPT !.want = want] ELSE events[m] BY <2>1, <2>3
    <3> QED BY <3>1, <3>2 DEF PollEntry
  <2>5. events' \in Seq(PollEntry) /\ Len(events') = n /\ DOMAIN events' = 1..n
    <3>1. events' = [m \in 1..n |-> events'[m]] BY <2>1, <2>3
    <3>2. events' \in [1..n -> PollEntry] BY <2>4, <3>1
    <3> QED BY <2>3, <3>2
  <2> HIDE DEF n
  <2>6. Listed(events') = Listed(events) BY <2>3, <2>4, <2>5 DEF Listed
  <2>7. Distinct(events')
    <3> SUFFICES ASSUME NEW m \in 1..n, NEW j \in 1..n, events'[m].fd = events'[j].fd PROVE m = j
      BY <2>5 DEF Distinct
    <3>1. events[m].fd = events[j].fd BY <2>4
    <3> QED BY <2>2, <2>3, <3>1 DEF PollBatch, Distinct
  <2>8. ASSUME NEW m \in 1..n
        PROVE  due[events'[m].fd] = Said(events'[m].revents) /\ (m > processed => events'[m].revents = {})
    <3>1. events'[m].fd = events[m].fd /\ events'[m].revents = events[m].revents BY <2>4
    <3> QED BY <2>2, <2>3, <3>1 DEF PollBatch
  <2>9. \A f \in Fd : due[f] # {} => f \in Listed(events') BY <2>2, <2>6 DEF PollBatch
  <2>10. processed \in Int BY <2>2 DEF PollBatch
  <2>11. PollBatch(processed', events', due') BY <1>1, <2>1, <2>5, <2>7, <2>8, <2>9, <2>10 DEF PollBatch
  <2> QED BY <1>1, <2>2, <2>5, <2>6, <2>11 DEF PollEntriesInv
<1>5. ASSUME api = "select" PROVE SelectInv'
  <2> DEFINE wr == Keep(fd, "in" \in want, sets.wantread)
             ww == Keep(fd, "out" \in want, sets.wantwrite)
  <2>1. sets' = [sets EXCEPT !.wantread = wr, !.wantwrite = ww] /\ processed' = processed /\ events' = events
    BY <1>1, <1>5 DEF Lset
  <2>2. SelectBatch(processed, sets, due, failed) /\ events = <<>> /\ fds = sets.all BY <1>5 DEF EventInv, SelectInv
  <2>3. /\ sets \in SelectSets /\ sets.wantread \cup sets.wantwrite \subseteq sets.all
        /\ sets.readable \cup sets.writable \cup sets.err \subseteq sets.all
    BY <2>2 DEF SelectBatch
  <2>4. sets.all \subseteq Fd BY <2>3 DEF SelectSets
  <2>5. wr \subseteq sets.all /\ ww \subseteq sets.all BY <1>1, <2>2, <2>3 DEF Keep
  <2> HIDE DEF wr, ww
  <2>6. /\ sets' \in SelectSets /\ sets'.wantread = wr /\ sets'.wantwrite = ww
        /\ sets'.readable = sets.readable /\ sets'.writable = sets.writable /\ sets'.err = sets.err
        /\ sets'.all = sets.all
    BY <2>1, <2>3, <2>4, <2>5 DEF SelectSets
  <2>7. \A f \in Fd : SelectSaid(sets', f) = SelectSaid(sets, f) BY <2>6 DEF SelectSaid
  <2>8. /\ sets'.wantread \cup sets'.wantwrite \subseteq sets'.all
        /\ sets'.readable \cup sets'.writable \cup sets'.err \subseteq sets'.all
    BY <2>3, <2>5, <2>6
  <2>9. SelectBatch(processed', sets', due', failed') BY <1>1, <2>1, <2>2, <2>6, <2>7, <2>8 DEF SelectBatch
  <2> QED BY <1>1, <2>1, <2>2, <2>6, <2>9 DEF SelectInv
<1> QED BY <1>1, <1>2, <1>3, <1>4, <1>5, FrameKeeps

(* Unregistering forgets what was reported for the descriptor: in epoll's  *)
(* array it stays, noted as removed.                                       *)
LEMMA UnregisterKeeps ==
  ASSUME EventInv, NEW fd \in Fd, Unregister(fd), UNCHANGED <<api, turn, t, failed, last, asked>>,
         open' \subseteq Fd, fds' \subseteq open'
  PROVE  EventInv'
<1>1. /\ fd \in fds /\ Ldel(fd) /\ fds' = fds \ {fd} /\ due' = [due EXCEPT ![fd] = {}]
      /\ removed' = removed \cup {fd}
  BY DEF Unregister
<1>2. due \in Due /\ fd \in Watched BY <1>1, WatchedIs
<1>3. \A f \in Fd : due'[f] = IF f = fd THEN {} ELSE due[f] BY <1>1, <1>2 DEF Due
<1>4. LoopInv'
  <2>1. due' \in Due BY <1>1, <1>2 DEF Due
  <2> QED BY <1>1, <2>1 DEF EventInv, LoopInv, Due
<1>5. ASSUME api = "epoll" PROVE EpollInv'
  <2>1. interest' = [interest EXCEPT ![fd] = Off] /\ UNCHANGED <<processed, events>> BY <1>1, <1>2, <1>5 DEF Ldel
  <2>2. interest \in [Fd -> Want \cup {Off}] /\ fds = {f \in Fd : interest[f] # Off} BY <1>5 DEF EventInv, EpollInv
  <2>3. interest' \in [Fd -> Want \cup {Off}] BY <2>1, <2>2
  <2>4. fds' = {f \in Fd : interest'[f] # Off} BY <1>1, <2>1, <2>2
  <2>5. EpollBatch(processed, events, due, removed) BY <1>5 DEF EventInv, EpollInv
  <2>6. ASSUME NEW m \in DOMAIN events
        PROVE  events[m].fd \in removed' \/ due'[events[m].fd] = Said(events[m].ev)
    <3>1. events \in Seq(EpollEvent) BY <2>5 DEF EpollBatch
    <3>2. events[m] \in EpollEvent BY <3>1, ElementIn
    <3>3. events[m].fd \in Fd BY <3>2 DEF EpollEvent
    <3>4. events[m].fd \in removed \/ due[events[m].fd] = Said(events[m].ev) BY <2>5 DEF EpollBatch
    <3> QED BY <1>1, <1>3, <3>3, <3>4
  <2>7. \A f \in Fd : due'[f] # {} => f \in Listed(events) BY <1>3, <2>5 DEF EpollBatch
  <2>8. EpollBatch(processed', events', due', removed') BY <2>1, <2>5, <2>6, <2>7 DEF EpollBatch
  <2> QED BY <2>3, <2>4, <2>8 DEF EpollInv
<1>6. ASSUME api = "poll" PROVE PollEntriesInv'
  <2> DEFINE n == Len(events)
  <2>1. PollBatch(processed, events, due) /\ fds = Listed(events) /\ n <= MaxWatched BY <1>6 DEF EventInv, PollEntriesInv
  <2>2. events \in Seq(PollEntry) /\ n \in Nat /\ DOMAIN events = 1..n BY <2>1 DEF PollBatch
  <2>3. PICK k \in EntryOf(fd) : events' = WithoutEntry(k) BY <1>1, <1>2, <1>6 DEF Ldel
  <2>4. processed' = processed BY <1>1, <1>2, <1>6 DEF Ldel
  <2>5. k \in 1..n /\ events[k].fd = fd /\ n > 0
    <3>1. k \in DOMAIN events /\ events[k].fd = fd BY DEF EntryOf
    <3> QED BY <2>2, <3>1
  <2>6. events[n] \in PollEntry
    <3>1. n \in DOMAIN events BY <2>2, <2>5
    <3> QED BY <2>2, <3>1, ElementIn
  <2> DEFINE moved == [events EXCEPT ![k] = events[n]]
             from(m) == IF m = k THEN n ELSE m
  <2>7. /\ moved \in Seq(PollEntry) /\ Len(moved) = n
        /\ \A m \in 1..n : moved[m] = IF m = k THEN events[n] ELSE events[m]
    BY <2>2, <2>5, <2>6
  <2>8. events' = SubSeq(moved, 1, n - 1) BY <2>3 DEF WithoutEntry
  <2> HIDE DEF moved
  <2>9. /\ events' \in Seq(PollEntry) /\ Len(events') = n - 1 /\ DOMAIN events' = 1..(n - 1)
        /\ \A m \in 1..(n - 1) : events'[m] = moved[m]
    BY <2>2, <2>5, <2>7, <2>8
  <2>a. n \in Nat BY <2>2
  <2> HIDE DEF n
  <2>10. ASSUME NEW m \in 1..(n - 1)
         PROVE  from(m) \in 1..n /\ from(m) # k /\ events'[m] = events[from(m)] /\ from(m) >= m /\ m \in 1..n
    <3>1. m \in 1..n /\ m # n BY <2>a
    <3>2. events'[m] = IF m = k THEN events[n] ELSE events[m] BY <2>7, <2>9, <3>1
    <3>3. CASE m = k BY <2>a, <2>5, <3>1, <3>2, <3>3
    <3>4. CASE m # k BY <2>a, <2>5, <3>1, <3>2, <3>4
    <3> QED BY <3>3, <3>4
  <2>11. \A m \in 1..n : m # k => events[m].fd # fd BY <2>1, <2>2, <2>5 DEF PollBatch, Distinct
  <2>12. \A m \in 1..n : events[m].fd \in Fd
    <3> SUFFICES ASSUME NEW m \in 1..n PROVE events[m].fd \in Fd OBVIOUS
    <3>1. events[m] \in PollEntry BY <2>2, ElementIn
    <3> QED BY <3>1 DEF PollEntry
  <2>13. Distinct(events')
    <3> SUFFICES ASSUME NEW m \in 1..(n - 1), NEW j \in 1..(n - 1), events'[m].fd = events'[j].fd PROVE m = j
      BY <2>9 DEF Distinct
    <3>1. from(m) \in 1..n /\ from(j) \in 1..n /\ events[from(m)].fd = events[from(j)].fd BY <2>10
    <3> HIDE DEF from
    <3>2. from(m) = from(j) BY <2>1, <2>2, <3>1 DEF PollBatch, Distinct
    <3>3. m # n /\ j # n BY <2>a
    <3> QED BY <3>2, <3>3 DEF from
  <2>14. ASSUME NEW m \in 1..(n - 1)
         PROVE  due'[events'[m].fd] = Said(events'[m].revents) /\ (m > processed => events'[m].revents = {})
    <3> DEFINE j == from(m)
    <3>1. j \in 1..n /\ j # k /\ events'[m] = events[j] /\ j >= m /\ m \in 1..n BY <2>10
    <3> HIDE DEF j
    <3>2. events[j].fd # fd /\ events[j].fd \in Fd BY <2>11, <2>12, <3>1
    <3>3. due'[events[j].fd] = due[events[j].fd] BY <1>3, <3>2
    <3>4. due[events[j].fd] = Said(events[j].revents) /\ (j > processed => events[j].revents = {})
      BY <2>1, <2>2, <3>1 DEF PollBatch
    <3>5. processed \in Int BY <2>1 DEF PollBatch
    <3>6. m > processed => j > processed BY <2>a, <3>1, <3>5
    <3> QED BY <3>1, <3>3, <3>4, <3>6
  <2>15. Listed(events') = Listed(events) \ {fd}
    <3>1. ASSUME NEW f \in Listed(events') PROVE f \in Listed(events) \ {fd}
      <4>1. PICK m \in 1..(n - 1) : f = events'[m].fd BY <2>9 DEF Listed
      <4>2. from(m) \in 1..n /\ from(m) # k /\ f = events[from(m)].fd BY <2>10, <4>1
      <4> HIDE DEF from
      <4> QED BY <2>2, <2>11, <4>2 DEF Listed
    <3>2. ASSUME NEW f \in Listed(events), f # fd PROVE f \in Listed(events')
      <4>1. PICK j \in 1..n : f = events[j].fd BY <2>2 DEF Listed
      <4>2. j # k BY <2>5, <3>2, <4>1
      <4>3. CASE j = n
        <5>1. k \in 1..(n - 1) BY <2>a, <2>5, <4>2, <4>3
        <5>2. events'[k] = events[n] BY <2>10, <5>1
        <5> QED BY <2>9, <4>1, <4>3, <5>1, <5>2 DEF Listed
      <4>4. CASE j # n
        <5>1. j \in 1..(n - 1) BY <2>a, <4>4
        <5>2. events'[j] = events[j] BY <2>10, <4>2, <5>1
        <5> QED BY <2>9, <4>1, <5>1, <5>2 DEF Listed
      <4> QED BY <4>3, <4>4
    <3> QED BY <3>1, <3>2
  <2>16. ASSUME NEW f \in Fd, due'[f] # {} PROVE f \in Listed(events')
    <3>1. f # fd /\ due[f] # {} BY <1>3, <2>16
    <3> QED BY <2>1, <2>15, <3>1 DEF PollBatch
  <2>17. processed \in Int BY <2>1 DEF PollBatch
  <2>18. PollBatch(processed', events', due')
    BY <2>4, <2>9, <2>13, <2>14, <2>16, <2>17 DEF PollBatch
  <2>19. Len(events') <= MaxWatched BY <2>1, <2>a, <2>9, PollBounds
  <2> QED BY <1>1, <2>1, <2>15, <2>18, <2>19 DEF PollEntriesInv
<1>7. ASSUME api = "select" PROVE SelectInv'
  <2>1. sets' = [f \in DOMAIN sets |-> sets[f] \ {fd}] /\ processed' = processed /\ events' = events
    BY <1>1, <1>2, <1>7 DEF Ldel, WithoutFd
  <2>2. SelectBatch(processed, sets, due, failed) /\ events = <<>> /\ fds = sets.all BY <1>7 DEF EventInv, SelectInv
  <2>3. /\ sets \in SelectSets /\ sets.wantread \cup sets.wantwrite \subseteq sets.all
        /\ sets.readable \cup sets.writable \cup sets.err \subseteq sets.all
    BY <2>2 DEF SelectBatch
  <2>4. DOMAIN sets = {"wantread", "wantwrite", "readable", "writable", "all", "err"} BY <2>3 DEF SelectSets
  <2>5. /\ sets'.wantread = sets.wantread \ {fd} /\ sets'.wantwrite = sets.wantwrite \ {fd}
        /\ sets'.readable = sets.readable \ {fd} /\ sets'.writable = sets.writable \ {fd}
        /\ sets'.all = sets.all \ {fd} /\ sets'.err = sets.err \ {fd}
    BY <2>1, <2>4
  <2>6. sets' \in SelectSets BY <2>1, <2>3, <2>4, <2>5 DEF SelectSets
  <2>7. /\ sets'.wantread \cup sets'.wantwrite \subseteq sets'.all
        /\ sets'.readable \cup sets'.writable \cup sets'.err \subseteq sets'.all
    BY <2>3, <2>5
  <2>8. ASSUME ~failed, NEW f \in Fd PROVE due'[f] = SelectSaid(sets', f) /\ (due'[f] # {} => f > processed)
    <3>1. CASE f = fd
      <4>1. SelectSaid(sets', f) = {} BY <2>5, <3>1 DEF SelectSaid
      <4> QED BY <1>3, <3>1, <4>1
    <3>2. CASE f # fd
      <4>1. SelectSaid(sets', f) = SelectSaid(sets, f) BY <2>5, <3>2 DEF SelectSaid
      <4>2. due[f] = SelectSaid(sets, f) /\ (due[f] # {} => f > processed) BY <2>2, <2>8 DEF SelectBatch
      <4> QED BY <1>3, <3>2, <4>1, <4>2
    <3> QED BY <3>1, <3>2
  <2>9. failed => \A f \in Fd : due'[f] = {} BY <1>3, <2>2 DEF SelectBatch
  <2>10. processed \in Int /\ failed' = failed BY <2>2 DEF SelectBatch
  <2>11. SelectBatch(processed', sets', due', failed') BY <2>1, <2>6, <2>7, <2>8, <2>9, <2>10 DEF SelectBatch
  <2> QED BY <1>1, <2>1, <2>2, <2>5, <2>11 DEF SelectInv
<1> QED BY <1>4, <1>5, <1>6, <1>7, FrameKeeps

(* A step that touches neither the poller nor what is outstanding. *)
LEMMA IdleKeeps ==
  ASSUME EventInv, UNCHANGED <<api, pollState, fds, due, removed, failed, asked>>,
         open' \subseteq Fd, fds' \subseteq open', turn' \in {"wait", "dispatch", "timers"}, t' \in Nat,
         last' = last \/ last' = NoEvent
  PROVE  EventInv'
<1>1. UNCHANGED <<processed, interest, events, sets>> BY DEF pollState
<1>2. LoopInv' BY DEF EventInv, LoopInv
<1>3. api = "epoll" => EpollInv' BY <1>1 DEF EventInv, EpollInv
<1>4. api = "poll" => PollEntriesInv' BY <1>1 DEF EventInv, PollEntriesInv
<1>5. api = "select" => SelectInv' BY <1>1 DEF EventInv, SelectInv
<1>6. EventsAreReal'
  <2>1. CASE last' = last BY <2>1 DEF EventInv, EventsAreReal
  <2>2. CASE last' = NoEvent BY <2>2 DEF EventsAreReal, NoEvent
  <2> QED BY <2>1, <2>2
<1>7. BatchCompleteThenTimers' BY DEF EventInv, BatchCompleteThenTimers
<1> QED BY <1>2, <1>3, <1>4, <1>5, <1>6, <1>7 DEF EventInv

(* A new poller watches nothing. *)
LEMMA EventInit ==
  ASSUME PollInit
  PROVE  EventInv
<1>1. LoopInv
  <2>1. due \in [Fd -> SUBSET {"r", "w"}] BY DEF PollInit, Nothing
  <2> QED BY <2>1 DEF PollInit, Lnew, LoopInv
<1>2. \A fd \in Fd : due[fd] = {} BY DEF PollInit, Nothing
<1>3. events = <<>> /\ fds = {} /\ interest = [fd \in Fd |-> Off] /\ sets = NoSets BY DEF PollInit, Lnew
<1>4. Listed(<<>>) = {} /\ Distinct(<<>>) BY DEF Listed, Distinct
<1>5. ASSUME api = "epoll" PROVE EpollInv
  <2>1. processed = 0 BY <1>5 DEF PollInit, Lnew
  <2>2. EpollBatch(processed, events, due, removed) BY <1>2, <1>3, <1>4, <2>1 DEF EpollBatch
  <2> QED BY <1>3, <2>2 DEF EpollInv
<1>6. ASSUME api = "poll" PROVE PollEntriesInv
  <2>1. processed = -1 BY <1>6 DEF PollInit, Lnew
  <2>2. processed \in Int BY <2>1
  <2>3. PollBatch(processed, events, due) BY <1>2, <1>3, <1>4, <2>2 DEF PollBatch
  <2>4. Len(events) <= MaxWatched BY <1>3, PollBounds
  <2> QED BY <1>3, <1>4, <2>3, <2>4 DEF PollEntriesInv
<1>7. ASSUME api = "select" PROVE SelectInv
  <2>1. processed = MaxFd + 1 BY <1>7 DEF PollInit, Lnew
  <2>2. processed \in Int BY <2>1, PollBounds
  <2>3. sets \in SelectSets BY <1>3 DEF NoSets, SelectSets
  <2>4. \A fd \in Fd : SelectSaid(sets, fd) = {} BY <1>3 DEF SelectSaid, NoSets
  <2>5. SelectBatch(processed, sets, due, failed) BY <1>2, <1>3, <2>2, <2>3, <2>4 DEF SelectBatch, NoSets
  <2> QED BY <1>3, <2>5 DEF SelectInv, NoSets
<1>8. EventsAreReal BY DEF PollInit, NoEvent, EventsAreReal
<1>9. BatchCompleteThenTimers BY DEF PollInit, BatchCompleteThenTimers
<1> QED BY <1>1, <1>5, <1>6, <1>7, <1>8, <1>9 DEF EventInv

(* Every step of the loop keeps the invariant. *)
LEMMA EventStep ==
  ASSUME EventInv, [PollNext]_pollVars
  PROVE  EventInv'
<1>0. open \subseteq Fd /\ fds \subseteq open /\ turn \in {"wait", "dispatch", "timers"} /\ t \in Nat
  BY DEF EventInv, LoopInv
<1>1. CASE WaitPending BY <1>1, PendingKeeps
<1>2. CASE WaitZero
  <2>1. /\ UNCHANGED <<api, pollState, fds, due, removed, failed, asked>> /\ open' = open /\ turn' = "timers"
        /\ t' = t /\ last' = last /\ fds' = fds
    BY <1>2 DEF WaitZero, history
  <2> QED BY <1>0, <2>1, IdleKeeps
<1>3. CASE LwaitEvents BY <1>3, EventsKeep
<1>4. CASE LwaitNothing BY <1>4, NothingKeeps
<1>5. CASE DispatchDone
  <2>1. /\ UNCHANGED <<api, pollState, fds, due, removed, failed, asked>> /\ open' = open /\ turn' = "wait"
        /\ t' = t /\ last' = NoEvent /\ fds' = fds
    BY <1>5 DEF DispatchDone
  <2> QED BY <1>0, <2>1, IdleKeeps
<1>6. CASE TimersDone
  <2>1. /\ UNCHANGED <<api, pollState, fds, due, removed, failed, asked>> /\ open' = open /\ turn' = "wait"
        /\ t' \in Nat /\ last' = last /\ fds' = fds
    BY <1>6 DEF TimersDone, history
  <2> QED BY <1>0, <2>1, IdleKeeps
<1>7. ASSUME NEW fd \in Fd, OpenSocket(fd) PROVE EventInv'
  <2>1. /\ UNCHANGED <<api, pollState, fds, due, removed, failed, asked>> /\ open' = open \cup {fd} /\ turn' = turn
        /\ t' = t /\ last' = last /\ fds' = fds
    BY <1>7 DEF OpenSocket, history
  <2>2. open' \subseteq Fd /\ fds' \subseteq open' BY <1>0, <2>1
  <2> QED BY <1>0, <2>1, <2>2, IdleKeeps
<1>8. ASSUME NEW fd \in Fd, Deregister(fd) PROVE EventInv'
  <2>1. Unregister(fd) /\ UNCHANGED <<api, turn, t, failed, last, asked>> /\ open' = open /\ fds' = fds \ {fd}
    BY <1>8 DEF Deregister, Unregister
  <2>2. open' \subseteq Fd /\ fds' \subseteq open' BY <1>0, <2>1
  <2> QED BY <2>1, <2>2, UnregisterKeeps
<1>9. ASSUME NEW fd \in Fd, Destroy(fd) PROVE EventInv'
  <2>1. open' = open \ {fd} /\ UNCHANGED <<api, turn, t, failed, last, asked>> BY <1>9 DEF Destroy
  <2>2. CASE Unregister(fd)
    <3>1. fds' = fds \ {fd} BY <2>2 DEF Unregister
    <3>2. open' \subseteq Fd /\ fds' \subseteq open' BY <1>0, <2>1, <3>1
    <3> QED BY <2>1, <2>2, <3>2, UnregisterKeeps
  <2>3. CASE fd \notin fds /\ UNCHANGED <<pollState, fds, due, removed>>
    <3>1. open' \subseteq Fd /\ fds' \subseteq open' BY <1>0, <2>1, <2>3
    <3>2. UNCHANGED <<api, pollState, fds, due, removed, failed, asked>> /\ turn' = turn /\ t' = t /\ last' = last
      BY <2>1, <2>3
    <3> QED BY <1>0, <3>1, <3>2, IdleKeeps
  <2> QED BY <1>9, <2>2, <2>3 DEF Destroy
<1>10. ASSUME NEW fd \in Fd, NEW want \in Want, Register(fd, want) PROVE EventInv' BY <1>10, RegisterKeeps
<1>11. ASSUME NEW fd \in Fd, NEW want \in Want, SetFlags(fd, want) PROVE EventInv' BY <1>11, SetFlagsKeeps
<1>12. CASE UNCHANGED pollVars
  <2>1. /\ UNCHANGED <<api, pollState, fds, due, removed, failed, asked>> /\ open' = open /\ turn' = turn
        /\ t' = t /\ last' = last /\ fds' = fds
    BY <1>12 DEF pollVars, loopState, history
  <2> QED BY <1>0, <2>1, IdleKeeps
<1> QED BY <1>1, <1>2, <1>3, <1>4, <1>5, <1>6, <1>7, <1>8, <1>9, <1>10, <1>11, <1>12 DEF PollNext

(* What is outstanding of the kernel's last answer, as the history of the  *)
(* loop has it, is at every moment exactly what the poller still has       *)
(* stored, in the words of its back end: an event above or below where     *)
(* Lpushevent stopped, once, under a descriptor that is still registered.  *)
THEOREM AlwaysEventInv == PollSpec => []EventInv
<1>1. PollInit => EventInv BY EventInit
<1>2. EventInv /\ [PollNext]_pollVars => EventInv' BY EventStep
<1> QED BY <1>1, <1>2, PTL DEF PollSpec

(* The poller watches each descriptor the loop has a handler for, once, and *)
(* never reports an event that is old, made up or for somebody else, with  *)
(* the two exceptions its definition names.                                *)
THEOREM PollerMatchesLoopHolds == PollSpec => []PollerMatchesLoop
<1>1. ASSUME EventInv PROVE PollerMatchesLoop
  <2>1. Watched = fds /\ fds \subseteq open /\ api \in {"epoll", "poll", "select"}
    BY <1>1, WatchedIs DEF EventInv, LoopInv
  <2>2. Distinct(events)
    <3>1. CASE api = "epoll" BY <1>1, <3>1 DEF EventInv, EpollInv, EpollBatch
    <3>2. CASE api = "poll" BY <1>1, <3>2 DEF EventInv, PollEntriesInv, PollBatch
    <3>3. CASE api = "select" BY <1>1, <3>3 DEF EventInv, SelectInv, Distinct
    <3> QED BY <2>1, <3>1, <3>2, <3>3
  <2>3. ASSUME NEW fd \in Fd PROVE Cardinality(EntryOf(fd)) <= (IF api = "epoll" THEN MaxEvents ELSE 1)
    <3>1. Cardinality(EntryOf(fd)) \in {0, 1}
      <4>1. CASE EntryOf(fd) = {} BY <4>1, FS_EmptySet
      <4>2. CASE EntryOf(fd) # {}
        <5>1. PICK m \in EntryOf(fd) : TRUE BY <4>2
        <5>2. EntryOf(fd) = {m} BY <2>2, <5>1 DEF EntryOf, Distinct
        <5>3. Cardinality({m}) = 1 BY FS_Singleton
        <5> QED BY <5>2, <5>3
      <4> QED BY <4>1, <4>2
    <3> QED BY <3>1, PollBounds
  <2>4. api = "poll" => Len(events) <= MaxWatched BY <1>1 DEF EventInv, PollEntriesInv
  <2>5. EventsAreReal BY <1>1 DEF EventInv
  <2> QED BY <2>1, <2>3, <2>4, <2>5 DEF PollerMatchesLoop, TablesAgree
<1> QED BY <1>1, AlwaysEventInv, PTL

(* When the kernel is asked again, every event of its last answer has been *)
(* reported or its descriptor unregistered, and the timers have run.       *)
THEOREM BatchCompleteHolds == PollSpec => []BatchCompleteThenTimers
<1>1. EventInv => BatchCompleteThenTimers BY DEF EventInv
<1> QED BY <1>1, AlwaysEventInv, PTL
-----------------------------------------------------------------------------

HookPc == {"hook", "save", "install", "queue", "store"}
HookFrame == [sig : Sig, pc : HookPc, idx : 0..(MaxPending - 1)]

(* Where Lua's side is: sighook is installed exactly when something is     *)
(* queued, or is about to be by a C handler past its first part, and is    *)
(* not installed while it runs.  No C handler begins to install it then.   *)
SighookPlace ==
  /\ lua \in {"run", "loop", "reset"} /\ hook \in {"old", "sighook"} /\ Hsig = "old"
  /\ lua = "run" => /\ i = 0
                    /\ nsig > 0 => hook = "sighook"
                    /\ nsig = 0 /\ Running => hook = "old"
                    /\ \A f \in DOMAIN frames : frames[f].pc \in {"queue", "store"} => hook = "sighook"
  /\ lua # "run" => hook = "old" /\ nsig > 0
  /\ \A f \in DOMAIN frames : frames[f].pc \in {"save", "install"} => lua = "run"
  /\ lua = "reset" => i = nsig

(* The table of the hook is as large as its counter says. *)
HookTypes ==
  /\ handler \subseteq Sig /\ nsig \in 0..MaxPending /\ i \in 0..nsig
  /\ signals \in [0..(MaxPending - 1) -> Sig \cup {0}]
  /\ frames \in Seq(HookFrame) /\ owed \in [Sig -> Nat]

HookInv == HookTypes /\ SighookPlace /\ \A s \in Sig : owed[s] = Queued(s) + InHand(s)

(* signalfd: the C handlers play no part; what is pending was blocked, and *)
(* what was blocked has a descriptor or is getting one.                    *)
SignalfdInv ==
  /\ frames = <<>> /\ hook = "old" /\ lua = "run"
  /\ handler \subseteq Sig /\ pending \subseteq handler /\ owed \in [Sig -> Nat]
  /\ opening \in Sig \cup {0} /\ sfd \in [FdNum -> Sig \cup {0}]
  /\ \A s \in Sig : owed[s] = 1 <=> s \in pending
  /\ \A s \in handler : opening = s \/ \E d \in FdNum : sfd[d] = s

PipeFrame == [sig : Sig, pc : {"write"}, idx : {0}]
TableEntry == [fd : 0..MaxSfd, sig : Sig \cup {0}]
InUse == 0..(signalfd_num - 1)

(* The fallback's table lists every open descriptor, once and under its    *)
(* signal, and has room for the one that is being made.                    *)
TableInv ==
  /\ sfd \in [FdNum -> Sig \cup {0}] /\ signalfd_num \in 0..MaxSfd
  /\ signalfds \in [0..MaxSfd -> TableEntry]
  /\ opening \in Sig \cup {0} /\ (opening # 0 => signalfd_num < MaxSfd)
  /\ \A k \in InUse :
       signalfds[k].fd \in FdNum /\ signalfds[k].sig \in Sig /\ sfd[signalfds[k].fd] = signalfds[k].sig
  /\ \A j, k \in InUse : signalfds[j].fd = signalfds[k].fd => j = k
  /\ \A d \in FdNum : sfd[d] # 0 => \E k \in InUse : signalfds[k].fd = d

(* Each descriptor's pipe and the C handlers that will write to it hold    *)
(* what is due to it; nothing is due to a closed one.                      *)
PipeInv ==
  /\ hook = "old" /\ lua = "run" /\ handler \subseteq Sig
  /\ frames \in Seq(PipeFrame)
  /\ TableInv
  /\ pipe \in [FdNum -> Seq(Sig)] /\ unread \in [FdNum -> Int]
  /\ \A d \in FdNum : unread[d] = IF sfd[d] = 0 THEN 0 ELSE Len(pipe[d]) + InHand(sfd[d])

(* Until one of the known ways to lose a signal has happened; for the      *)
(* fallback, until a descriptor was closed.                                *)
SigInv ==
  /\ mode \in {"hook", "signalfd", "pipe"}
  /\ mode = "hook" /\ excuse = {} => HookInv
  /\ mode = "signalfd" /\ excuse = {} => SignalfdInv
  /\ mode = "pipe" /\ "closed" \notin excuse => PipeInv
-----------------------------------------------------------------------------
(* The handlers that have s in hand are counted by their frames. *)
LEMMA InHandType ==
  ASSUME NEW F, frames \in Seq(F), NEW s
  PROVE  InHand(s) \in Nat /\ IsFiniteSet({f \in DOMAIN frames : frames[f].sig = s})
<1>1. 1 \in Int /\ Len(frames) \in Int /\ DOMAIN frames = 1..Len(frames) OBVIOUS
<1>2. IsFiniteSet(1..Len(frames)) BY <1>1, FS_Interval
<1>3. {f \in DOMAIN frames : frames[f].sig = s} \in SUBSET (1..Len(frames)) BY <1>1
<1>4. IsFiniteSet({f \in DOMAIN frames : frames[f].sig = s}) BY <1>2, <1>3, FS_Subset
<1> QED BY <1>4, FS_CardinalityType DEF InHand

(* A handler starts ... *)
LEMMA InHandPush ==
  ASSUME NEW F, frames \in Seq(F), NEW x \in F, frames' = Append(frames, x), NEW s
  PROVE  InHand(s)' = InHand(s) + (IF x.sig = s THEN 1 ELSE 0)
<1> DEFINE H == {f \in DOMAIN frames : frames[f].sig = s}
           n == Len(frames)
<1>1. n \in Nat /\ DOMAIN frames = 1..n /\ DOMAIN frames' = 1..(n + 1) /\ frames'[n + 1] = x
      /\ \A f \in 1..n : frames'[f] = frames[f]
  OBVIOUS
<1>2. IsFiniteSet(H) /\ InHand(s) \in Nat BY InHandType
<1> HIDE DEF n
<1>3. n + 1 \notin H BY <1>1
<1>4. CASE x.sig = s
  <2>1. {f \in DOMAIN frames' : frames'[f].sig = s} = H \cup {n + 1}
    <3>1. \A f \in 1..(n + 1) : f \in 1..n \/ f = n + 1 BY <1>1
    <3>2. \A f \in 1..n : f \in 1..(n + 1) BY <1>1
    <3>3. n + 1 \in 1..(n + 1) BY <1>1
    <3> QED BY <1>1, <1>4, <3>1, <3>2, <3>3
  <2>2. Cardinality(H \cup {n + 1}) = Cardinality(H) + 1 BY <1>2, <1>3, FS_AddElement
  <2> QED BY <1>4, <2>1, <2>2 DEF InHand
<1>5. CASE x.sig # s
  <2>1. {f \in DOMAIN frames' : frames'[f].sig = s} = H
    <3>1. \A f \in 1..(n + 1) : f \in 1..n \/ f = n + 1 BY <1>1
    <3>2. \A f \in 1..n : f \in 1..(n + 1) BY <1>1
    <3> QED BY <1>1, <1>5, <3>1, <3>2
  <2>2. InHand(s)' = InHand(s) BY <2>1 DEF InHand
  <2> QED BY ONLY <1>2, <1>5, <2>2
<1> QED BY <1>4, <1>5

(* ... and returns. *)
LEMMA InHandPop ==
  ASSUME NEW F, frames \in Seq(F), frames # <<>>, frames' = Return, NEW s
  PROVE  /\ InHand(s)' = InHand(s) - (IF Top.sig = s THEN 1 ELSE 0)
         /\ frames' \in Seq(F) /\ Top \in F /\ Len(frames) \in DOMAIN frames
         /\ \A f \in DOMAIN frames' : f \in DOMAIN frames /\ frames'[f] = frames[f]
<1> DEFINE H == {f \in DOMAIN frames : frames[f].sig = s}
           n == Len(frames)
<1>1. /\ n \in Nat /\ n > 0 /\ DOMAIN frames = 1..n /\ Top = frames[n] /\ Top \in F
      /\ frames' \in Seq(F) /\ DOMAIN frames' = 1..(n - 1)
      /\ \A f \in 1..(n - 1) : frames'[f] = frames[f]
  BY DEF Return, Top
<1>2. IsFiniteSet(H) /\ InHand(s) \in Nat BY InHandType
<1> HIDE DEF n
<1>3. \A f \in 1..n : f \in 1..(n - 1) \/ f = n BY <1>1
<1>4. \A f \in 1..(n - 1) : f \in 1..n /\ f # n BY <1>1
<1>5. n \in 1..n BY <1>1
<1>6. CASE Top.sig = s
  <2>1. {f \in DOMAIN frames' : frames'[f].sig = s} = H \ {n} BY <1>1, <1>3, <1>4
  <2>2. n \in H BY <1>1, <1>5, <1>6
  <2>3. Cardinality(H \ {n}) = Cardinality(H) - 1 BY <1>2, <2>2, FS_RemoveElement
  <2>4. InHand(s)' = InHand(s) - 1 BY <2>1, <2>3 DEF InHand
  <2> QED BY <1>1, <1>4, <1>5, <1>6, <2>4 DEF n
<1>7. CASE Top.sig # s
  <2>1. {f \in DOMAIN frames' : frames'[f].sig = s} = H BY <1>1, <1>3, <1>4, <1>7
  <2>2. InHand(s)' = InHand(s) BY <2>1 DEF InHand
  <2>3. InHand(s)' = InHand(s) - (IF Top.sig = s THEN 1 ELSE 0) BY ONLY <1>2, <1>7, <2>2
  <2> QED BY <1>1, <1>4, <1>5, <2>3 DEF n
<1> QED BY <1>6, <1>7

(* A handler that goes on keeps its signal. *)
LEMMA InHandGoto ==
  ASSUME frames \in Seq(HookFrame), frames # <<>>, NEW pc \in HookPc,
         NEW idx \in 0..(MaxPending - 1), Goto(pc, idx), NEW s
  PROVE  /\ InHand(s)' = InHand(s) /\ frames' \in Seq(HookFrame) /\ frames' # <<>>
         /\ DOMAIN frames' = DOMAIN frames /\ frames'[Len(frames)].pc = pc
         /\ \A f \in DOMAIN frames : f # Len(frames) => frames'[f] = frames[f]
<1> DEFINE n == Len(frames)
           x == [sig |-> Top.sig, pc |-> pc, idx |-> idx]
<1>1. n \in Nat /\ n > 0 /\ DOMAIN frames = 1..n /\ Top = frames[n] /\ Top \in HookFrame BY DEF Top
<1>2. x \in HookFrame /\ x.sig = Top.sig /\ x.pc = pc BY <1>1 DEF HookFrame
<1>3. frames' = [frames EXCEPT ![n] = x] BY DEF Goto
<1> HIDE DEF x
<1>4. /\ frames' \in Seq(HookFrame) /\ DOMAIN frames' = 1..n /\ frames'[n] = x /\ frames' # <<>>
      /\ \A f \in 1..n : f # n => frames'[f] = frames[f]
  BY <1>1, <1>2, <1>3
<1>5. \A f \in 1..n : frames'[f].sig = frames[f].sig BY <1>1, <1>2, <1>4
<1>6. {f \in DOMAIN frames' : frames'[f].sig = s} = {f \in DOMAIN frames : frames[f].sig = s} BY <1>1, <1>4, <1>5
<1> QED BY <1>1, <1>2, <1>4, <1>6 DEF InHand

(* The queue is counted by its places. *)
LEMMA QueuedType ==
  ASSUME nsig \in Nat, NEW s
  PROVE  Queued(s) \in Nat /\ IsFiniteSet({k \in 0..(nsig - 1) : k >= i /\ signals[k] = s})
<1>1. 0 \in Int /\ nsig - 1 \in Int OBVIOUS
<1>2. IsFiniteSet(0..(nsig - 1)) BY <1>1, FS_Interval
<1>3. {k \in 0..(nsig - 1) : k >= i /\ signals[k] = s} \in SUBSET (0..(nsig - 1)) OBVIOUS
<1>4. IsFiniteSet({k \in 0..(nsig - 1) : k >= i /\ signals[k] = s}) BY <1>2, <1>3, FS_Subset
<1> QED BY <1>4, FS_CardinalityType DEF Queued

(* A signal is put behind the others. *)
LEMMA QueuedPush ==
  ASSUME nsig \in 0..(MaxPending - 1), i \in 0..nsig, signals \in [0..(MaxPending - 1) -> Sig \cup {0}],
         NEW g \in Sig, signals' = [signals EXCEPT ![nsig] = g], nsig' = nsig + 1, i' = i, NEW s
  PROVE  Queued(s)' = Queued(s) + (IF g = s THEN 1 ELSE 0)
<1> DEFINE Q == {k \in 0..(nsig - 1) : k >= i /\ signals[k] = s}
           R == {k \in 0..(nsig' - 1) : k >= i' /\ signals'[k] = s}
<1>0. MaxPending \in Nat /\ nsig \in Nat /\ i \in Nat /\ nsig <= MaxPending - 1 BY SignalBounds
<1>1. IsFiniteSet(Q) /\ Queued(s) \in Nat BY <1>0, QueuedType
<1>2. \A k \in 0..(nsig - 1) : signals'[k] = signals[k] /\ k # nsig /\ k \in 0..nsig BY <1>0
<1>3. signals'[nsig] = g /\ nsig \in 0..nsig /\ nsig >= i BY <1>0
<1>4. nsig' - 1 = nsig /\ \A k \in 0..nsig : k \in 0..(nsig - 1) \/ k = nsig BY <1>0
<1>5. nsig \notin Q BY <1>0
<1>6. R = {k \in 0..nsig : k >= i /\ signals'[k] = s} BY <1>4
<1>7. CASE g = s
  <2>1. R = Q \cup {nsig} BY <1>2, <1>3, <1>4, <1>6, <1>7
  <2>2. Cardinality(Q \cup {nsig}) = Cardinality(Q) + 1 BY <1>1, <1>5, FS_AddElement
  <2> QED BY <1>7, <2>1, <2>2 DEF Queued
<1>8. CASE g # s
  <2>1. R = Q BY <1>2, <1>3, <1>4, <1>6, <1>8
  <2>2. Queued(s)' = Queued(s) BY <2>1 DEF Queued
  <2> QED BY ONLY <1>1, <1>8, <2>2
<1> QED BY <1>7, <1>8

(* sighook passes the first of them. *)
LEMMA QueuedPass ==
  ASSUME nsig \in Nat, i \in Nat, i < nsig, UNCHANGED <<nsig, signals>>, i' = i + 1, NEW s
  PROVE  /\ Queued(s)' = Queued(s) - (IF signals[i] = s THEN 1 ELSE 0)
         /\ signals[i] = s => Queued(s) > 0
<1> DEFINE Q == {k \in 0..(nsig - 1) : k >= i /\ signals[k] = s}
           R == {k \in 0..(nsig - 1) : k >= i + 1 /\ signals[k] = s}
<1>1. IsFiniteSet(Q) /\ Queued(s) \in Nat BY QueuedType
<1>2. Queued(s)' = Cardinality(R) BY DEF Queued
<1>3. \A k \in 0..(nsig - 1) : k >= i + 1 <=> k >= i /\ k # i OBVIOUS
<1>4. R = Q \ {i} BY <1>3
<1>5. Cardinality(Q \ {i}) = IF i \in Q THEN Cardinality(Q) - 1 ELSE Cardinality(Q) BY <1>1, FS_RemoveElement
<1>6. i \in Q <=> signals[i] = s OBVIOUS
<1>7. i \in Q => Cardinality(Q) # 0 BY <1>1, FS_EmptySet
<1> HIDE DEF Q, R
<1>8. Cardinality(Q) = Queued(s) BY DEF Q, Queued
<1> QED BY <1>1, <1>2, <1>4, <1>5, <1>6, <1>7, <1>8
-----------------------------------------------------------------------------
(* A signal with a handler arrives. *)
LEMMA HookArrive ==
  ASSUME HookInv, mode = "hook", NEW s \in Sig, Arrive(s)
  PROVE  HookInv'
<1> DEFINE x == [sig |-> s, idx |-> 0, pc |-> "hook"]
           n == Len(frames)
<1>1. /\ frames' = Append(frames, x) /\ owed' = [owed EXCEPT ![s] = @ + 1]
      /\ UNCHANGED <<handler, nsig, signals, hook, Hsig, lua, i>>
  BY DEF Arrive, hookVars
<1>2. HookTypes /\ SighookPlace /\ frames \in Seq(HookFrame) /\ owed \in [Sig -> Nat] BY DEF HookInv, HookTypes
<1>3. x \in HookFrame /\ x.sig = s /\ x.pc = "hook" BY SignalBounds DEF HookFrame, HookPc
<1> HIDE DEF x
<1>4. /\ frames' \in Seq(HookFrame) /\ DOMAIN frames = 1..n /\ DOMAIN frames' = 1..(n + 1)
      /\ frames' # <<>> /\ frames'[n + 1] = x /\ n \in Nat
      /\ \A f \in 1..n : frames'[f] = frames[f]
  BY <1>1, <1>2, <1>3
<1> HIDE DEF n
<1>5. owed' \in [Sig -> Nat] BY <1>1, <1>2
<1>6. HookTypes' BY <1>1, <1>2, <1>4, <1>5 DEF HookTypes
<1>7. ASSUME lua = "run", NEW f \in DOMAIN frames', frames'[f].pc \in {"queue", "store"} PROVE hook = "sighook"
  <2>1. f # n + 1 BY <1>3, <1>4, <1>7
  <2>2. f \in 1..n /\ frames'[f] = frames[f] BY <1>4, <2>1
  <2> QED BY <1>2, <1>4, <1>7, <2>2 DEF SighookPlace
<1>8. ASSUME NEW f \in DOMAIN frames', frames'[f].pc \in {"save", "install"} PROVE lua = "run"
  <2>1. f # n + 1 BY <1>3, <1>4, <1>8
  <2>2. f \in 1..n /\ frames'[f] = frames[f] BY <1>4, <2>1
  <2> QED BY <1>2, <1>4, <1>8, <2>2 DEF SighookPlace
<1>9. SighookPlace' BY <1>1, <1>2, <1>4, <1>7, <1>8 DEF SighookPlace, Running
<1>10. ASSUME NEW g \in Sig PROVE owed'[g] = Queued(g)' + InHand(g)'
  <2>1. owed[g] = Queued(g) + InHand(g) BY DEF HookInv
  <2>2. InHand(g)' = InHand(g) + (IF s = g THEN 1 ELSE 0) BY <1>1, <1>2, <1>3, InHandPush
  <2>3. Queued(g)' = Queued(g) BY <1>1 DEF Queued
  <2>4. owed'[g] = owed[g] + (IF s = g THEN 1 ELSE 0) BY <1>1, <1>2
  <2>5. nsig \in Nat BY <1>2 DEF HookTypes
  <2>6. InHand(g) \in Nat /\ Queued(g) \in Nat BY <1>2, <2>5, InHandType, QueuedType
  <2> QED BY <2>1, <2>2, <2>3, <2>4, <2>6
<1> QED BY <1>6, <1>9, <1>10 DEF HookInv

(* The first part of handle reads nsig, ... *)
LEMMA HookHandleHook ==
  ASSUME HookInv, HandleHook, excuse' = {}
  PROVE  HookInv'
<1>1. HookTypes /\ SighookPlace /\ frames \in Seq(HookFrame) /\ nsig \in Nat BY DEF HookInv, HookTypes
<1>2. /\ frames # <<>> /\ Top.pc = "hook"
      /\ UNCHANGED <<handler, nsig, signals, hook, Hsig, lua, i, owed>>
  BY DEF HandleHook, At, hookVars
<1>3. PICK pc \in HookPc : pc = (IF nsig = 0 THEN "save" ELSE "queue") /\ Goto(pc, 0)
  BY DEF HandleHook, HookPc
<1>4. /\ frames' \in Seq(HookFrame) /\ frames' # <<>> /\ DOMAIN frames' = DOMAIN frames
      /\ frames'[Len(frames)].pc = pc
      /\ \A f \in DOMAIN frames : f # Len(frames) => frames'[f] = frames[f]
      /\ \A s : InHand(s)' = InHand(s)
  <2>1. 0 \in 0..(MaxPending - 1) BY SignalBounds
  <2> QED BY <1>1, <1>2, <1>3, <2>1, InHandGoto
<1>6. SighookPlace'
  <2>1. nsig = 0 => lua = "run" BY <1>1 DEF SighookPlace
  <2>2. nsig # 0 /\ lua = "run" => hook = "sighook" BY <1>1 DEF SighookPlace
  <2> QED BY <1>1, <1>2, <1>3, <1>4, <2>1, <2>2 DEF SighookPlace, Running
<1>5. HookTypes' BY <1>1, <1>2, <1>4 DEF HookTypes
<1>7. ASSUME NEW g \in Sig PROVE owed'[g] = Queued(g)' + InHand(g)'
  <2>1. Queued(g)' = Queued(g) BY <1>2 DEF Queued
  <2> QED BY <1>2, <1>4, <2>1 DEF HookInv
<1> QED BY <1>5, <1>6, <1>7 DEF HookInv

(* ... the next saves the program's own hook, as sighook is not installed, *)
LEMMA HookHandleSave ==
  ASSUME HookInv, HandleSave, excuse' = {}
  PROVE  HookInv'
<1>1. HookTypes /\ SighookPlace /\ frames \in Seq(HookFrame) /\ nsig \in Nat BY DEF HookInv, HookTypes
<1>2. /\ frames # <<>> /\ Top.pc = "save"
      /\ UNCHANGED <<handler, nsig, signals, hook, lua, i, owed>>
  BY DEF HandleSave, At, hookVars
<1>3. PICK pc \in HookPc : pc = "install" /\ Goto(pc, 0)
  BY DEF HandleSave, HookPc
<1>4. /\ frames' \in Seq(HookFrame) /\ frames' # <<>> /\ DOMAIN frames' = DOMAIN frames
      /\ frames'[Len(frames)].pc = pc
      /\ \A f \in DOMAIN frames : f # Len(frames) => frames'[f] = frames[f]
      /\ \A s : InHand(s)' = InHand(s)
  <2>1. 0 \in 0..(MaxPending - 1) BY SignalBounds
  <2> QED BY <1>1, <1>2, <1>3, <2>1, InHandGoto
<1>6. SighookPlace'
  <2>1. hook # "sighook" /\ Hsig' = hook BY DEF HandleSave
  <2>2. Hsig' = "old" BY <1>1, <2>1 DEF SighookPlace
  <2>3. Len(frames) \in DOMAIN frames BY <1>1, <1>2
  <2>4. lua = "run" BY <1>1, <1>2, <2>3 DEF SighookPlace, Top
  <2> QED BY <1>1, <1>2, <1>3, <1>4, <2>2, <2>4 DEF SighookPlace, Running
<1>5. HookTypes' BY <1>1, <1>2, <1>4 DEF HookTypes
<1>7. ASSUME NEW g \in Sig PROVE owed'[g] = Queued(g)' + InHand(g)'
  <2>1. Queued(g)' = Queued(g) BY <1>2 DEF Queued
  <2> QED BY <1>2, <1>4, <2>1 DEF HookInv
<1> QED BY <1>5, <1>6, <1>7 DEF HookInv

(* ... and the next installs sighook. *)
LEMMA HookHandleInstall ==
  ASSUME HookInv, HandleInstall, excuse' = {}
  PROVE  HookInv'
<1>1. HookTypes /\ SighookPlace /\ frames \in Seq(HookFrame) /\ nsig \in Nat BY DEF HookInv, HookTypes
<1>2. /\ frames # <<>> /\ Top.pc = "install"
      /\ UNCHANGED <<handler, nsig, signals, Hsig, lua, i, owed>>
  BY DEF HandleInstall, At, hookVars
<1>3. PICK pc \in HookPc : pc = "queue" /\ Goto(pc, 0)
  BY DEF HandleInstall, HookPc
<1>4. /\ frames' \in Seq(HookFrame) /\ frames' # <<>> /\ DOMAIN frames' = DOMAIN frames
      /\ frames'[Len(frames)].pc = pc
      /\ \A f \in DOMAIN frames : f # Len(frames) => frames'[f] = frames[f]
      /\ \A s : InHand(s)' = InHand(s)
  <2>1. 0 \in 0..(MaxPending - 1) BY SignalBounds
  <2> QED BY <1>1, <1>2, <1>3, <2>1, InHandGoto
<1>6. SighookPlace'
  <2>1. hook' = "sighook" BY DEF HandleInstall
  <2>3. Len(frames) \in DOMAIN frames BY <1>1, <1>2
  <2>4. lua = "run" BY <1>1, <1>2, <2>3 DEF SighookPlace, Top
  <2> QED BY <1>1, <1>2, <1>3, <1>4, <2>1, <2>4 DEF SighookPlace, Running
<1>5. HookTypes' BY <1>1, <1>2, <1>4 DEF HookTypes
<1>7. ASSUME NEW g \in Sig PROVE owed'[g] = Queued(g)' + InHand(g)'
  <2>1. Queued(g)' = Queued(g) BY <1>2 DEF Queued
  <2> QED BY <1>2, <1>4, <2>1 DEF HookInv
<1> QED BY <1>5, <1>6, <1>7 DEF HookInv

(* The second part reads nsig: a full queue is one of the excuses. *)
LEMMA HookHandleQueue ==
  ASSUME HookInv, HandleQueue, excuse' = {}
  PROVE  HookInv'
<1>1. HookTypes /\ SighookPlace /\ frames \in Seq(HookFrame) /\ nsig \in Nat BY DEF HookInv, HookTypes
<1>2. /\ frames # <<>> /\ Top.pc = "queue" /\ nsig < MaxPending /\ Goto("store", nsig)
      /\ UNCHANGED <<handler, nsig, signals, hook, Hsig, lua, i, owed>>
  BY DEF HandleQueue, At, hookVars
<1>3. nsig \in 0..(MaxPending - 1) /\ "store" \in HookPc BY <1>1, <1>2, SignalBounds DEF HookPc
<1>4. /\ frames' \in Seq(HookFrame) /\ frames' # <<>> /\ DOMAIN frames' = DOMAIN frames
      /\ frames'[Len(frames)].pc = "store"
      /\ \A f \in DOMAIN frames : f # Len(frames) => frames'[f] = frames[f]
      /\ \A s : InHand(s)' = InHand(s)
  BY <1>1, <1>2, <1>3, InHandGoto
<1>5. HookTypes' BY <1>1, <1>2, <1>4 DEF HookTypes
<1>6. SighookPlace'
  <2>1. Len(frames) \in DOMAIN frames BY <1>1, <1>2
  <2>2. frames[Len(frames)].pc = "queue" BY <1>2 DEF Top
  <2>3. lua = "run" => hook = "sighook" BY <1>1, <2>1, <2>2 DEF SighookPlace
  <2> QED BY <1>1, <1>2, <1>4, <2>3 DEF SighookPlace, Running
<1>7. ASSUME NEW g \in Sig PROVE owed'[g] = Queued(g)' + InHand(g)'
  <2>1. Queued(g)' = Queued(g) BY <1>2 DEF Queued
  <2> QED BY <1>2, <1>4, <2>1 DEF HookInv
<1> QED BY <1>5, <1>6, <1>7 DEF HookInv

(* The number is stored: what was in hand is in the queue. *)
LEMMA HookHandleStore ==
  ASSUME HookInv, HandleStore, excuse' = {}
  PROVE  HookInv'
<1>1. HookTypes /\ SighookPlace /\ frames \in Seq(HookFrame) /\ nsig \in Nat BY DEF HookInv, HookTypes
<1>2. /\ frames # <<>> /\ Top.pc = "store" /\ Top.idx = nsig /\ lua # "reset"
      /\ signals' = [signals EXCEPT ![nsig] = Top.sig] /\ nsig' = nsig + 1 /\ frames' = Return
      /\ UNCHANGED <<handler, hook, Hsig, lua, i, owed>>
  BY DEF HandleStore, At
<1>3. /\ \A s : InHand(s)' = InHand(s) - (IF Top.sig = s THEN 1 ELSE 0)
      /\ frames' \in Seq(HookFrame) /\ Top \in HookFrame /\ Len(frames) \in DOMAIN frames
      /\ \A f \in DOMAIN frames' : f \in DOMAIN frames /\ frames'[f] = frames[f]
  BY <1>1, <1>2, InHandPop
<1>4. Top.sig \in Sig /\ nsig \in 0..(MaxPending - 1) BY <1>2, <1>3 DEF HookFrame
<1>5. HookTypes'
  <2>1. signals \in [0..(MaxPending - 1) -> Sig \cup {0}] /\ i \in 0..nsig BY <1>1 DEF HookTypes
  <2>2. signals' \in [0..(MaxPending - 1) -> Sig \cup {0}] BY <1>2, <1>4, <2>1
  <2>3. nsig' \in 0..MaxPending /\ i' \in 0..nsig' BY <1>1, <1>2, <1>4, <2>1, SignalBounds
  <2> QED BY <1>1, <1>2, <1>3, <2>2, <2>3 DEF HookTypes
<1>6. SighookPlace'
  <2>1. frames[Len(frames)].pc = "store" BY <1>2 DEF Top
  <2>2. lua = "run" => hook = "sighook" BY <1>1, <1>3, <2>1 DEF SighookPlace
  <2>3. nsig' > 0 BY <1>1, <1>2
  <2> QED BY <1>1, <1>2, <1>3, <2>2, <2>3 DEF SighookPlace, Running
<1>7. ASSUME NEW g \in Sig PROVE owed'[g] = Queued(g)' + InHand(g)'
  <2>1. owed[g] = Queued(g) + InHand(g) BY DEF HookInv
  <2>2. i \in 0..nsig /\ signals \in [0..(MaxPending - 1) -> Sig \cup {0}] BY <1>1 DEF HookTypes
  <2>3. Queued(g)' = Queued(g) + (IF Top.sig = g THEN 1 ELSE 0) BY <1>2, <1>4, <2>2, QueuedPush
  <2>4. InHand(g) \in Nat /\ Queued(g) \in Nat BY <1>1, InHandType, QueuedType
  <2> QED BY <1>2, <1>3, <2>1, <2>3, <2>4
<1> QED BY <1>5, <1>6, <1>7 DEF HookInv

(* sighook, and Lua code that installs or removes a handler. *)
LEMMA HookLua ==
  ASSUME HookInv, excuse' = {},
         \/ SighookStart \/ SighookCall \/ SighookEnd \/ SighookReset
         \/ \E s \in Sig : l_signal(s)
  PROVE  HookInv'
<1>1. /\ HookTypes /\ SighookPlace /\ frames \in Seq(HookFrame) /\ nsig \in Nat /\ i \in 0..nsig /\ i \in Nat
      /\ handler \subseteq Sig /\ owed \in [Sig -> Nat]
  BY DEF HookInv, HookTypes
<1>2. \A s : InHand(s) \in Nat /\ Queued(s) \in Nat BY <1>1, InHandType, QueuedType
<1>3. frames' = frames /\ signals' = signals /\ \A s : InHand(s)' = InHand(s)
  BY DEF SighookStart, SighookCall, SighookEnd, SighookReset, l_signal, InHand
<1>4. CASE SighookStart
  <2>1. /\ Running /\ lua = "run" /\ hook = "sighook" /\ hook' = Hsig /\ lua' = "loop" /\ i' = 0
        /\ UNCHANGED <<handler, nsig, Hsig, owed>>
    BY <1>4 DEF SighookStart
  <2>2. HookTypes' BY <1>1, <1>3, <2>1 DEF HookTypes
  <2>3. SighookPlace' BY <1>1, <1>3, <2>1 DEF SighookPlace, Running
  <2>4. i' = i BY <1>1, <2>1 DEF SighookPlace
  <2>5. \A g \in Sig : Queued(g)' = Queued(g) BY <1>3, <2>1, <2>4 DEF Queued
  <2> QED BY <1>3, <2>1, <2>2, <2>3, <2>5 DEF HookInv
<1>5. CASE SighookCall
  <2>1. /\ Running /\ lua = "loop" /\ i < nsig /\ signals[i] \in handler /\ i' = i + 1
        /\ owed' = [owed EXCEPT ![signals[i]] = IF @ > 0 THEN @ - 1 ELSE 0]
        /\ UNCHANGED <<handler, nsig, signals, hook, Hsig, lua>>
    BY <1>5 DEF SighookCall
  <2>2. owed' \in [Sig -> Nat] BY <1>1, <2>1
  <2>3. i' \in 0..nsig BY <1>1, <2>1
  <2>4. HookTypes' BY <1>1, <1>3, <2>1, <2>2, <2>3 DEF HookTypes
  <2>5. SighookPlace' BY <1>1, <1>3, <2>1 DEF SighookPlace
  <2>6. ASSUME NEW g \in Sig PROVE owed'[g] = Queued(g)' + InHand(g)'
    <3>1. owed[g] = Queued(g) + InHand(g) BY DEF HookInv
    <3>2. /\ Queued(g)' = Queued(g) - (IF signals[i] = g THEN 1 ELSE 0)
          /\ signals[i] = g => Queued(g) > 0
      BY <1>1, <2>1, QueuedPass
    <3>3. CASE signals[i] = g
      <4>1. owed[g] > 0 BY <1>2, <3>1, <3>2, <3>3
      <4>2. owed'[g] = owed[g] - 1 BY <1>1, <2>1, <3>3, <4>1
      <4> QED BY <1>2, <1>3, <3>1, <3>2, <3>3, <4>2
    <3>4. CASE signals[i] # g
      <4>1. owed'[g] = owed[g] BY <1>1, <2>1, <3>4
      <4> QED BY <1>2, <1>3, <3>1, <3>2, <3>4, <4>1
    <3> QED BY <3>3, <3>4
  <2> QED BY <2>4, <2>5, <2>6 DEF HookInv
<1>6. CASE SighookEnd
  <2>1. /\ Running /\ lua = "loop" /\ i >= nsig /\ lua' = "reset"
        /\ UNCHANGED <<handler, nsig, signals, hook, Hsig, i, owed>>
    BY <1>6 DEF SighookEnd
  <2>2. HookTypes' BY <1>1, <1>3, <2>1 DEF HookTypes
  <2>3. i = nsig BY <1>1, <2>1
  <2>4. SighookPlace' BY <1>1, <1>3, <2>1, <2>3 DEF SighookPlace, Running
  <2>5. \A g \in Sig : Queued(g)' = Queued(g) BY <2>1 DEF Queued
  <2> QED BY <1>3, <2>1, <2>2, <2>4, <2>5 DEF HookInv
<1>7. CASE SighookReset
  <2>1. /\ Running /\ lua = "reset" /\ nsig' = 0 /\ lua' = "run" /\ i' = 0
        /\ UNCHANGED <<handler, signals, hook, Hsig, owed>>
    BY <1>7 DEF SighookReset
  <2>2. i = nsig /\ hook = "old" BY <1>1, <2>1 DEF SighookPlace
  <2>3. nsig' \in 0..MaxPending /\ i' \in 0..nsig' BY <2>1, SignalBounds
  <2>4. HookTypes' BY <1>1, <1>3, <2>1, <2>3 DEF HookTypes
  <2>5. frames = <<>> /\ frames' = <<>> BY <1>3, <2>1 DEF Running
  <2>6. SighookPlace' BY <1>1, <2>1, <2>2, <2>5 DEF SighookPlace, Running
  <2>7. ASSUME NEW g \in Sig PROVE Queued(g)' = Queued(g)
    <3>1. {k \in 0..(nsig - 1) : k >= i /\ signals[k] = g} = {} BY <1>1, <2>2
    <3>2. {k \in 0..(nsig' - 1) : k >= i' /\ signals'[k] = g} = {} BY <2>1
    <3> QED BY <3>1, <3>2 DEF Queued
  <2> QED BY <1>3, <2>1, <2>4, <2>6, <2>7 DEF HookInv
<1>8. ASSUME NEW s \in Sig, l_signal(s) PROVE HookInv'
  <2>1. handler' \subseteq Sig /\ UNCHANGED <<nsig, signals, hook, Hsig, lua, i, owed>> BY <1>1, <1>8 DEF l_signal
  <2>2. HookTypes' BY <1>1, <1>3, <2>1 DEF HookTypes
  <2>3. SighookPlace' BY <1>1, <1>3, <2>1 DEF SighookPlace, Running
  <2>4. \A g \in Sig : Queued(g)' = Queued(g) BY <2>1 DEF Queued
  <2> QED BY <1>3, <2>1, <2>2, <2>3, <2>4 DEF HookInv
<1> QED BY <1>4, <1>5, <1>6, <1>7, <1>8
-----------------------------------------------------------------------------
(* signalfd: the kernel holds a signal from its arrival until it is read. *)
LEMMA SignalfdStep ==
  ASSUME SignalfdInv, mode = "signalfd", excuse' = {}, SigNext
  PROVE  SignalfdInv'
<1>1. /\ frames = <<>> /\ hook = "old" /\ lua = "run" /\ handler \subseteq Sig /\ pending \subseteq handler
      /\ owed \in [Sig -> Nat] /\ \A s \in Sig : owed[s] = 1 <=> s \in pending
      /\ opening \in Sig \cup {0} /\ sfd \in [FdNum -> Sig \cup {0}]
      /\ \A s \in handler : opening = s \/ \E d \in FdNum : sfd[d] = s
  BY DEF SignalfdInv
<1>2. ASSUME NEW s \in Sig, Arrive(s) PROVE SignalfdInv'
  <2>1. /\ pending' = pending \cup {s} /\ owed' = [owed EXCEPT ![s] = 1] /\ s \in handler
        /\ UNCHANGED <<frames, hook, lua, handler, opening, sfd>>
    BY <1>2 DEF Arrive, hookVars
  <2>2. owed' \in [Sig -> Nat] /\ \A g \in Sig : owed'[g] = IF g = s THEN 1 ELSE owed[g] BY <1>1, <2>1
  <2> QED BY <1>1, <2>1, <2>2 DEF SignalfdInv
<1>3. ASSUME NEW s \in Sig, l_signalfd(s) PROVE SignalfdInv'
  <2>1. /\ handler' = handler \cup {s} /\ opening = 0 /\ opening' = s
        /\ UNCHANGED <<frames, hook, lua, pending, owed, sfd>>
    BY <1>3 DEF l_signalfd
  <2>2. 0 \notin Sig BY SignalNumbers
  <2>3. \A g \in handler' : opening' = g \/ \E d \in FdNum : sfd[d] = g BY <1>1, <2>1, <2>2
  <2> QED BY <1>1, <2>1, <2>3 DEF SignalfdInv
<1>4. ASSUME l_signalfd_open PROVE SignalfdInv'
  <2>1. opening # 0 /\ opening' = 0 /\ UNCHANGED <<frames, hook, lua, handler, pending, owed>>
    BY <1>4 DEF l_signalfd_open, hookVars
  <2>2. PICK d \in FdNum : sfd[d] = 0 /\ sfd' = [sfd EXCEPT ![d] = opening] BY <1>4 DEF l_signalfd_open
  <2>3. sfd' \in [FdNum -> Sig \cup {0}] /\ \A c \in FdNum : sfd'[c] = IF c = d THEN opening ELSE sfd[c]
    BY <1>1, <2>2
  <2>4. ASSUME NEW s \in handler PROVE \E c \in FdNum : sfd'[c] = s
    <3>1. CASE opening = s BY <2>3, <3>1
    <3>2. CASE opening # s
      <4>1. PICK c \in FdNum : sfd[c] = s BY <1>1, <3>2
      <4>2. c # d BY <1>1, <2>2, <4>1, SignalNumbers
      <4> QED BY <2>3, <4>1, <4>2
    <3> QED BY <3>1, <3>2
  <2> QED BY <1>1, <2>1, <2>3, <2>4 DEF SignalfdInv
<1>5. ASSUME NEW d \in FdNum, l_signalfd_read(d) PROVE SignalfdInv'
  <2> DEFINE s == sfd[d]
  <2>1. /\ s \in pending /\ pending' = pending \ {s} /\ owed' = [owed EXCEPT ![s] = 0]
        /\ UNCHANGED <<frames, hook, lua, handler, opening, sfd>>
    BY <1>5 DEF l_signalfd_read, hookVars
  <2> HIDE DEF s
  <2>2. owed' \in [Sig -> Nat] /\ \A g \in Sig : owed'[g] = IF g = s THEN 0 ELSE owed[g] BY <1>1, <2>1
  <2> QED BY <1>1, <2>1, <2>2 DEF SignalfdInv
<1>6. ~(\E s \in Sig : l_signal(s)) /\ ~(\E d \in FdNum : l_signalfd_close(d))
  BY DEF l_signal, l_signalfd_close
<1>7. ~HandleHook /\ ~HandleSave /\ ~HandleInstall /\ ~HandleQueue /\ ~HandleStore /\ ~signal2fd
  BY <1>1 DEF HandleHook, HandleSave, HandleInstall, HandleQueue, HandleStore, signal2fd, At
<1>8. ~SighookStart /\ ~SighookCall /\ ~SighookEnd /\ ~SighookReset
  BY <1>1 DEF SighookStart, SighookCall, SighookEnd, SighookReset
<1> QED BY <1>2, <1>3, <1>4, <1>5, <1>6, <1>7, <1>8 DEF SigNext
-----------------------------------------------------------------------------
(* The fallback: a caught signal is due to every descriptor for it;        *)
LEMMA PipeArrive ==
  ASSUME PipeInv, mode = "pipe", NEW s \in Sig, Arrive(s)
  PROVE  PipeInv'
<1> DEFINE x == [sig |-> s, idx |-> 0, pc |-> "write"]
<1>1. /\ frames' = Append(frames, x)
      /\ unread' = [d \in FdNum |-> IF sfd[d] = s THEN unread[d] + 1 ELSE unread[d]]
      /\ UNCHANGED <<handler, hook, lua, opening, sfd, signalfds, signalfd_num, pipe>>
  BY DEF Arrive, hookVars
<1>2. /\ frames \in Seq(PipeFrame) /\ pipe \in [FdNum -> Seq(Sig)] /\ unread \in [FdNum -> Int]
      /\ \A d \in FdNum : unread[d] = IF sfd[d] = 0 THEN 0 ELSE Len(pipe[d]) + InHand(sfd[d])
  BY DEF PipeInv
<1>3. x \in PipeFrame /\ x.sig = s BY DEF PipeFrame
<1> HIDE DEF x
<1>4. frames' \in Seq(PipeFrame) BY <1>1, <1>2, <1>3
<1>5. \A g : InHand(g)' = InHand(g) + (IF s = g THEN 1 ELSE 0) /\ InHand(g) \in Nat
  BY <1>1, <1>2, <1>3, InHandPush, InHandType
<1>6. TableInv' BY <1>1 DEF PipeInv, TableInv, InUse
<1>7. s # 0 BY SignalNumbers
<1>8. unread' \in [FdNum -> Int] BY <1>1, <1>2
<1>9. ASSUME NEW d \in FdNum
      PROVE  unread'[d] = IF sfd'[d] = 0 THEN 0 ELSE Len(pipe'[d]) + InHand(sfd[d])'
  <2>1. InHand(sfd[d])' = InHand(sfd[d]) + (IF s = sfd[d] THEN 1 ELSE 0) BY <1>1, <1>5
  <2>2. unread'[d] = IF sfd[d] = s THEN unread[d] + 1 ELSE unread[d] BY <1>1
  <2>3. Len(pipe[d]) \in Nat /\ InHand(sfd[d]) \in Nat BY <1>2, <1>5
  <2>4. sfd'[d] = sfd[d] /\ pipe'[d] = pipe[d] BY <1>1
  <2> QED BY <1>2, <1>7, <2>1, <2>2, <2>3, <2>4
<1> QED BY <1>1, <1>4, <1>6, <1>8, <1>9 DEF PipeInv

(* a descriptor is to be made;                                             *)
LEMMA PipeCatch ==
  ASSUME PipeInv, mode = "pipe", NEW s \in Sig, l_signalfd(s)
  PROVE  PipeInv'
<1>1. /\ handler' = handler \cup {s} /\ opening' = s /\ signalfd_num < MaxSfd
      /\ UNCHANGED <<hook, lua, frames, sfd, signalfds, signalfd_num, pipe, unread>>
  BY DEF l_signalfd
<1>2. TableInv' BY <1>1 DEF PipeInv, TableInv, InUse
<1>3. \A g : InHand(g)' = InHand(g) BY <1>1 DEF InHand
<1> QED BY <1>1, <1>2, <1>3 DEF PipeInv

(* it is made, and listed with an empty pipe, or the call failed;          *)
LEMMA PipeOpen ==
  ASSUME PipeInv, mode = "pipe", l_signalfd_open
  PROVE  PipeInv'
<1> DEFINE n == signalfd_num
<1>1. /\ opening # 0 /\ opening' = 0 /\ frames = <<>>
      /\ UNCHANGED <<handler, hook, lua, frames, unread>>
  BY DEF l_signalfd_open, Running, hookVars
<1>2. /\ sfd \in [FdNum -> Sig \cup {0}] /\ n \in 0..MaxSfd /\ n \in Nat /\ n < MaxSfd
      /\ signalfds \in [0..MaxSfd -> TableEntry] /\ opening \in Sig
      /\ \A k \in 0..(n - 1) :
           signalfds[k].fd \in FdNum /\ signalfds[k].sig \in Sig /\ sfd[signalfds[k].fd] = signalfds[k].sig
      /\ \A j, k \in 0..(n - 1) : signalfds[j].fd = signalfds[k].fd => j = k
      /\ \A d \in FdNum : sfd[d] # 0 => \E k \in 0..(n - 1) : signalfds[k].fd = d
  <2>1. TableInv /\ n \in 0..MaxSfd BY DEF PipeInv, TableInv
  <2> QED BY <1>1, <2>1 DEF TableInv, InUse
<1>3. /\ frames \in Seq(PipeFrame) /\ pipe \in [FdNum -> Seq(Sig)] /\ unread \in [FdNum -> Int]
      /\ \A d \in FdNum : unread[d] = IF sfd[d] = 0 THEN 0 ELSE Len(pipe[d]) + InHand(sfd[d])
  BY DEF PipeInv
<1>4. \A g : InHand(g) = 0 /\ InHand(g)' = 0
  <2> SUFFICES ASSUME NEW g PROVE InHand(g) = 0 /\ InHand(g)' = 0 OBVIOUS
  <2>1. {f \in DOMAIN frames : frames[f].sig = g} = {} BY <1>1
  <2> QED BY <1>1, <2>1, FS_EmptySet DEF InHand
<1>5. opening # 0 /\ 0 \notin Sig BY <1>1, SignalNumbers
<1>6. CASE UNCHANGED <<sfd, signalfds, signalfd_num, pipe>>
  <2>1. TableInv' BY <1>1, <1>6 DEF PipeInv, TableInv, InUse
  <2> QED BY <1>1, <1>3, <1>4, <1>6, <2>1 DEF PipeInv
<1>7. ASSUME NEW d \in FdNum, sfd[d] = 0, sfd' = [sfd EXCEPT ![d] = opening],
             signalfds' = [signalfds EXCEPT ![n] = [fd |-> d, sig |-> opening]],
             signalfd_num' = n + 1, pipe' = [pipe EXCEPT ![d] = <<>>]
      PROVE  PipeInv'
  <2> DEFINE x == [fd |-> d, sig |-> opening]
  <2>1. x \in TableEntry /\ x.fd = d /\ x.sig = opening BY <1>2 DEF TableEntry, FdNum
  <2>2. signalfds' = [signalfds EXCEPT ![n] = x] BY <1>7
  <2> HIDE DEF x
  <2>3. /\ signalfds' \in [0..MaxSfd -> TableEntry] /\ signalfds'[n] = x
        /\ \A k \in 0..(n - 1) : signalfds'[k] = signalfds[k] /\ k \in 0..n /\ k # n
        /\ n \in 0..n /\ \A k \in 0..n : k \in 0..(n - 1) \/ k = n
    BY <1>2, <2>1, <2>2, SignalBounds
  <2>4. sfd' \in [FdNum -> Sig \cup {0}] /\ \A c \in FdNum : sfd'[c] = IF c = d THEN opening ELSE sfd[c]
    BY <1>2, <1>7
  <2>5. signalfd_num' \in 0..MaxSfd /\ signalfd_num' - 1 = n BY <1>2, <1>7, SignalBounds
  <2>6. \A k \in 0..(n - 1) : signalfds[k].fd # d BY <1>2, <1>5, <1>7
  <2>7. ASSUME NEW k \in 0..n
        PROVE  /\ signalfds'[k].fd \in FdNum /\ signalfds'[k].sig \in Sig
               /\ sfd'[signalfds'[k].fd] = signalfds'[k].sig
    <3>1. CASE k = n BY <1>2, <2>1, <2>3, <2>4, <3>1
    <3>2. CASE k \in 0..(n - 1)
      <4>1. signalfds'[k] = signalfds[k] /\ signalfds[k].fd # d BY <2>3, <2>6, <3>2
      <4>2. /\ signalfds[k].fd \in FdNum /\ signalfds[k].sig \in Sig /\ sfd[signalfds[k].fd] = signalfds[k].sig
        BY <1>2, <3>2
      <4> QED BY <2>4, <4>1, <4>2
    <3> QED BY <2>3, <3>1, <3>2
  <2>8. ASSUME NEW j \in 0..n, NEW k \in 0..n, signalfds'[j].fd = signalfds'[k].fd PROVE j = k
    <3>1. CASE j \in 0..(n - 1) /\ k \in 0..(n - 1) BY <1>2, <2>3, <2>8, <3>1
    <3>2. CASE j = n \/ k = n BY <2>1, <2>3, <2>6, <2>8, <3>2
    <3> QED BY <2>3, <3>1, <3>2
  <2>9. ASSUME NEW c \in FdNum, sfd'[c] # 0 PROVE \E k \in 0..n : signalfds'[k].fd = c
    <3>1. CASE c = d BY <2>1, <2>3, <3>1
    <3>2. CASE c # d
      <4>1. PICK k \in 0..(n - 1) : signalfds[k].fd = c BY <1>2, <2>4, <2>9, <3>2
      <4> QED BY <2>3, <4>1
    <3> QED BY <3>1, <3>2
  <2> HIDE DEF n
  <2>10. TableInv' BY <1>1, <2>3, <2>4, <2>5, <2>7, <2>8, <2>9 DEF TableInv, InUse
  <2>11. /\ pipe' \in [FdNum -> Seq(Sig)]
         /\ \A c \in FdNum : pipe'[c] = IF c = d THEN <<>> ELSE pipe[c]
    <3>1. <<>> \in Seq(Sig) OBVIOUS
    <3> QED BY <1>3, <1>7, <3>1
  <2>12. ASSUME NEW c \in FdNum
         PROVE  unread'[c] = IF sfd'[c] = 0 THEN 0 ELSE Len(pipe'[c]) + InHand(sfd[c])'
    <3>1. InHand(sfd[c])' = 0 /\ InHand(sfd[c]) = 0 BY <1>4
    <3>2. Len(<<>>) = 0 OBVIOUS
    <3>3. unread'[c] = unread[c] BY <1>1
    <3>4. CASE c = d BY <1>3, <1>7, <2>4, <2>11, <3>1, <3>2, <3>3, <3>4
    <3>5. CASE c # d BY <1>3, <2>4, <2>11, <3>1, <3>3, <3>5
    <3> QED BY <3>4, <3>5
  <2> QED BY <1>1, <1>3, <2>10, <2>11, <2>12 DEF PipeInv
<1> QED BY <1>6, <1>7 DEF l_signalfd_open

(* the C handler writes once to every descriptor that is for its signal;   *)
LEMMA PipeWrite ==
  ASSUME PipeInv, signal2fd
  PROVE  PipeInv'
<1> DEFINE s == Top.sig
           N(d) == Cardinality(Entries(d, s))
<1>1. /\ frames # <<>> /\ frames' = Return
      /\ pipe' = [d \in FdNum |-> IF sfd[d] = 0 THEN pipe[d] ELSE pipe[d] \o [k \in 1..N(d) |-> s]]
      /\ UNCHANGED <<handler, hook, lua, opening, sfd, signalfds, signalfd_num, unread>>
  BY DEF signal2fd, At, hookVars
<1>2. /\ frames \in Seq(PipeFrame) /\ pipe \in [FdNum -> Seq(Sig)] /\ unread \in [FdNum -> Int]
      /\ \A d \in FdNum : unread[d] = IF sfd[d] = 0 THEN 0 ELSE Len(pipe[d]) + InHand(sfd[d])
      /\ handler \subseteq Sig /\ hook = "old" /\ lua = "run" /\ TableInv
  BY DEF PipeInv
<1>3. /\ \A g : InHand(g)' = InHand(g) - (IF s = g THEN 1 ELSE 0) /\ InHand(g) \in Nat
      /\ frames' \in Seq(PipeFrame) /\ Top \in PipeFrame
  BY <1>1, <1>2, InHandPop, InHandType
<1>4. s \in Sig BY <1>3 DEF PipeFrame
<1> HIDE DEF s
<1>5. ASSUME NEW d \in FdNum, sfd[d] # 0 PROVE N(d) = IF sfd[d] = s THEN 1 ELSE 0
  <2>1. PICK k \in InUse : signalfds[k].fd = d BY <1>2, <1>5 DEF TableInv
  <2>2. signalfds[k].sig = sfd[d] /\ \A j \in InUse : signalfds[j].fd = d => j = k BY <1>2, <2>1 DEF TableInv
  <2>3. k \in 0..MaxSfd BY <1>2, SignalBounds DEF TableInv, InUse
  <2>4. signalfds[k] = [fd |-> d, sig |-> sfd[d]] BY <1>2, <2>1, <2>2, <2>3 DEF TableInv, TableEntry
  <2>5. CASE sfd[d] = s
    <3>1. Entries(d, s) = {k} BY <2>1, <2>2, <2>4, <2>5 DEF Entries, InUse
    <3> QED BY <2>5, <3>1, FS_Singleton
  <2>6. CASE sfd[d] # s
    <3>1. Entries(d, s) = {} BY <2>2, <2>6 DEF Entries, InUse
    <3> QED BY <2>6, <3>1, FS_EmptySet
  <2> QED BY <2>5, <2>6
<1> HIDE DEF N
<1>6. ASSUME NEW d \in FdNum
      PROVE  /\ pipe'[d] \in Seq(Sig)
             /\ sfd[d] # 0 => Len(pipe'[d]) = Len(pipe[d]) + (IF sfd[d] = s THEN 1 ELSE 0)
  <2>1. CASE sfd[d] = 0 BY <1>1, <1>2, <2>1
  <2>2. CASE sfd[d] # 0
    <3> DEFINE c == pipe[d]
               w == [k \in 1..N(d) |-> s]
    <3>1. pipe'[d] = c \o w /\ c \in Seq(Sig) BY <1>1, <1>2, <2>2
    <3>2. N(d) \in Nat /\ N(d) = IF sfd[d] = s THEN 1 ELSE 0 BY <1>5, <2>2
    <3>3. w \in Seq(Sig) /\ Len(w) = N(d)
      <4>1. w \in [1..N(d) -> Sig] BY <1>4
      <4> HIDE DEF w
      <4> QED BY <3>2, <4>1
    <3> HIDE DEF c, w
    <3>4. c \in Seq(Sig) /\ w \in Seq(Sig) BY <3>1, <3>3
    <3>5. c \o w \in Seq(Sig) BY ONLY <3>4
    <3>6. Len(c \o w) = Len(c) + Len(w) BY ONLY <3>4
    <3> QED BY <3>1, <3>2, <3>3, <3>5, <3>6 DEF c
  <2> QED BY <2>1, <2>2
<1>7. pipe' \in [FdNum -> Seq(Sig)]
  <2>1. pipe' = [d \in FdNum |-> pipe'[d]] BY <1>1
  <2> QED BY <1>6, <2>1
<1>8. TableInv' BY <1>1, <1>2 DEF TableInv, InUse
<1>9. ASSUME NEW d \in FdNum
      PROVE  unread'[d] = IF sfd'[d] = 0 THEN 0 ELSE Len(pipe'[d]) + InHand(sfd[d])'
  <2>1. InHand(sfd[d])' = InHand(sfd[d]) - (IF s = sfd[d] THEN 1 ELSE 0) BY <1>1, <1>3
  <2>2. Len(pipe[d]) \in Nat /\ InHand(sfd[d]) \in Nat BY <1>2, <1>3
  <2>3. unread'[d] = unread[d] /\ sfd'[d] = sfd[d] BY <1>1
  <2>4. CASE sfd[d] = 0 BY <1>2, <2>3, <2>4
  <2>5. CASE sfd[d] # 0 BY <1>2, <1>6, <2>1, <2>2, <2>3, <2>5
  <2> QED BY <2>4, <2>5
<1> QED BY <1>1, <1>2, <1>3, <1>7, <1>8, <1>9 DEF PipeInv

(* and the loop reads a number.                                            *)
LEMMA PipeRead ==
  ASSUME PipeInv, mode = "pipe", NEW d \in FdNum, l_signalfd_read(d)
  PROVE  PipeInv'
<1> DEFINE c == pipe[d]
<1>1. /\ sfd[d] # 0 /\ c # <<>> /\ pipe' = [pipe EXCEPT ![d] = Tail(c)]
      /\ unread' = [unread EXCEPT ![d] = @ - 1]
      /\ UNCHANGED <<frames, handler, hook, lua, opening, sfd, signalfds, signalfd_num>>
  BY DEF l_signalfd_read, hookVars
<1>2. /\ frames \in Seq(PipeFrame) /\ pipe \in [FdNum -> Seq(Sig)] /\ unread \in [FdNum -> Int]
      /\ \A e \in FdNum : unread[e] = IF sfd[e] = 0 THEN 0 ELSE Len(pipe[e]) + InHand(sfd[e])
  BY DEF PipeInv
<1>3. c \in Seq(Sig) BY <1>2
<1> HIDE DEF c
<1>4. Tail(c) \in Seq(Sig) /\ Len(Tail(c)) = Len(c) - 1 /\ Len(c) \in Nat BY <1>1, <1>3
<1>5. pipe' \in [FdNum -> Seq(Sig)] /\ \A e \in FdNum : pipe'[e] = IF e = d THEN Tail(c) ELSE pipe[e]
  BY <1>1, <1>2, <1>4
<1>6. unread' \in [FdNum -> Int] /\ \A e \in FdNum : unread'[e] = IF e = d THEN unread[d] - 1 ELSE unread[e]
  BY <1>1, <1>2
<1>7. TableInv' BY <1>1 DEF PipeInv, TableInv, InUse
<1>8. \A g : InHand(g)' = InHand(g) /\ InHand(g) \in Nat BY <1>1, <1>2, InHandType DEF InHand
<1>9. ASSUME NEW e \in FdNum
      PROVE  unread'[e] = IF sfd'[e] = 0 THEN 0 ELSE Len(pipe'[e]) + InHand(sfd[e])'
  <2>1. sfd'[e] = sfd[e] /\ InHand(sfd[e])' = InHand(sfd[e]) /\ InHand(sfd[e]) \in Nat BY <1>1, <1>8
  <2>2. CASE e = d
    <3>1. Len(pipe'[e]) = Len(pipe[e]) - 1 /\ Len(pipe[e]) \in Nat BY <1>4, <1>5, <2>2 DEF c
    <3>2. unread'[e] = unread[e] - 1 BY <1>6, <2>2
    <3> QED BY <1>1, <1>2, <2>1, <2>2, <3>1, <3>2
  <2>3. CASE e # d BY <1>2, <1>5, <1>6, <2>1, <2>3
  <2> QED BY <2>2, <2>3
<1> QED BY <1>1, <1>2, <1>5, <1>6, <1>7, <1>9 DEF PipeInv

(* Every step of the fallback. *)
LEMMA PipeStep ==
  ASSUME PipeInv, mode = "pipe", "closed" \notin excuse', SigNext
  PROVE  PipeInv'
<1>1. frames \in Seq(PipeFrame) /\ hook = "old" /\ lua = "run" BY DEF PipeInv
<1>2. frames # <<>> => Top.pc = "write"
  <2>1. ASSUME frames # <<>> PROVE Top \in PipeFrame BY <1>1, <2>1 DEF Top
  <2> QED BY <2>1 DEF PipeFrame
<1>3. ~HandleHook /\ ~HandleSave /\ ~HandleInstall /\ ~HandleQueue /\ ~HandleStore
  BY <1>2 DEF HandleHook, HandleSave, HandleInstall, HandleQueue, HandleStore, At
<1>4. ~SighookStart /\ ~SighookCall /\ ~SighookEnd /\ ~SighookReset
  BY <1>1 DEF SighookStart, SighookCall, SighookEnd, SighookReset
<1>5. ~(\E s \in Sig : l_signal(s)) /\ ~(\E d \in FdNum : l_signalfd_close(d))
  BY DEF l_signal, l_signalfd_close
<1> QED BY <1>3, <1>4, <1>5, PipeArrive, PipeCatch, PipeOpen, PipeWrite, PipeRead DEF SigNext

(* Every step with handlers of signal(). *)
LEMMA HookStep ==
  ASSUME HookInv, mode = "hook", excuse' = {}, SigNext
  PROVE  HookInv'
<1>1. ~(\E s \in Sig : l_signalfd(s)) /\ ~(\E d \in FdNum : l_signalfd_read(d) \/ l_signalfd_close(d))
  BY DEF l_signalfd, l_signalfd_read, l_signalfd_close
<1>2. ~signal2fd
  <2>1. frames \in Seq(HookFrame) BY DEF HookInv, HookTypes
  <2>2. ASSUME frames # <<>> PROVE Top \in HookFrame BY <2>1, <2>2 DEF Top
  <2> QED BY <2>2 DEF HookFrame, HookPc, signal2fd, At
<1>3. CASE \E s \in Sig : Arrive(s) BY <1>3, HookArrive
<1>4. CASE HandleHook BY <1>4, HookHandleHook
<1>5. CASE HandleQueue BY <1>5, HookHandleQueue
<1>6. CASE HandleStore BY <1>6, HookHandleStore
<1>7. CASE \/ SighookStart \/ SighookCall \/ SighookEnd \/ SighookReset
           \/ \E s \in Sig : l_signal(s)
  BY <1>7, HookLua
<1>8. CASE HandleSave BY <1>8, HookHandleSave
<1>9. CASE HandleInstall BY <1>9, HookHandleInstall
<1>10. CASE l_signalfd_open
  <2>1. UNCHANGED <<handler, nsig, signals, hook, Hsig, lua, i, frames, owed>>
    BY <1>10 DEF l_signalfd_open, hookVars
  <2>2. \A s \in Sig : Queued(s)' = Queued(s) /\ InHand(s)' = InHand(s) BY <2>1 DEF Queued, InHand
  <2>3. HookTypes' BY <2>1 DEF HookInv, HookTypes
  <2>4. SighookPlace' BY <2>1 DEF HookInv, SighookPlace, Running
  <2> QED BY <2>1, <2>2, <2>3, <2>4 DEF HookInv
<1> QED BY <1>1, <1>2, <1>3, <1>4, <1>5, <1>6, <1>7, <1>8, <1>9, <1>10 DEF SigNext

(* No step takes an excuse back or changes how signals are received. *)
LEMMA ExcusesStay ==
  ASSUME SigNext
  PROVE  excuse \subseteq excuse' /\ mode' = mode
BY DEF SigNext, l_signal, Arrive, l_signalfd, l_signalfd_open, HandleHook, HandleSave, HandleInstall,
       HandleQueue, HandleStore, SighookStart, SighookCall, SighookEnd, SighookReset, signal2fd,
       l_signalfd_read, l_signalfd_close

(* Before anything happens nothing is owed. *)
LEMMA SigInitInv ==
  ASSUME SigInit
  PROVE  SigInv
<1>0. \A s : InHand(s) = 0 /\ Queued(s) = 0
  <2> SUFFICES ASSUME NEW s PROVE InHand(s) = 0 /\ Queued(s) = 0 OBVIOUS
  <2>1. {f \in DOMAIN frames : frames[f].sig = s} = {} BY DEF SigInit
  <2>2. {k \in 0..(nsig - 1) : k >= i /\ signals[k] = s} = {} BY DEF SigInit
  <2> QED BY <2>1, <2>2, FS_EmptySet DEF InHand, Queued
<1>1. owed \in [Sig -> Nat] /\ \A s \in Sig : owed[s] = 0 BY DEF SigInit
<1>2. HookInv
  <2>1. HookTypes BY <1>1, SignalBounds DEF SigInit, HookTypes
  <2>2. SighookPlace BY DEF SigInit, SighookPlace
  <2>3. \A s \in Sig : owed[s] = Queued(s) + InHand(s) BY <1>0, <1>1
  <2> QED BY <2>1, <2>2, <2>3 DEF HookInv
<1>3. SignalfdInv BY <1>1 DEF SigInit, SignalfdInv
<1>4. PipeInv
  <2>1. TableInv
    <3>1. NoEntry \in TableEntry BY SignalBounds DEF NoEntry, TableEntry
    <3>2. signalfds \in [0..MaxSfd -> TableEntry] BY <3>1 DEF SigInit
    <3>3. InUse = {} BY DEF SigInit, InUse
    <3>4. sfd \in [FdNum -> Sig \cup {0}] /\ signalfd_num \in 0..MaxSfd /\ opening = 0
      BY SignalBounds DEF SigInit
    <3>5. \A d \in FdNum : sfd[d] = 0 BY DEF SigInit
    <3> QED BY <3>2, <3>3, <3>4, <3>5 DEF TableInv
  <2>2. pipe \in [FdNum -> Seq(Sig)] /\ frames \in Seq(PipeFrame)
    <3>1. <<>> \in Seq(Sig) /\ <<>> \in Seq(PipeFrame) OBVIOUS
    <3> QED BY <3>1 DEF SigInit
  <2>3. \A d \in FdNum : sfd[d] = 0 /\ unread[d] = 0 BY DEF SigInit
  <2>4. unread \in [FdNum -> Int] BY DEF SigInit
  <2> QED BY <2>1, <2>2, <2>3, <2>4 DEF SigInit, PipeInv
<1> QED BY <1>2, <1>3, <1>4 DEF SigInit, SigInv

(* Every step keeps the invariant. *)
LEMMA SigStepInv ==
  ASSUME SigInv, [SigNext]_sigVars
  PROVE  SigInv'
<1>1. CASE SigNext
  <2>1. excuse \subseteq excuse' /\ mode' = mode BY <1>1, ExcusesStay
  <2>2. mode' = "hook" /\ excuse' = {} => HookInv' BY <1>1, <2>1, HookStep DEF SigInv
  <2>3. mode' = "signalfd" /\ excuse' = {} => SignalfdInv' BY <1>1, <2>1, SignalfdStep DEF SigInv
  <2>4. mode' = "pipe" /\ "closed" \notin excuse' => PipeInv' BY <1>1, <2>1, PipeStep DEF SigInv
  <2> QED BY <2>1, <2>2, <2>3, <2>4 DEF SigInv
<1>2. CASE UNCHANGED sigVars
  <2>1. /\ UNCHANGED <<mode, handler, nsig, signals, hook, Hsig, lua, i, frames, opening>>
        /\ UNCHANGED <<sfd, signalfds, signalfd_num, pipe, pending, unread, owed, excuse>>
    BY <1>2 DEF sigVars, hookVars, fdVars
  <2>2. HookInv => HookInv'
    <3>1. \A s \in Sig : Queued(s)' = Queued(s) /\ InHand(s)' = InHand(s) BY <2>1 DEF Queued, InHand
    <3>2. HookTypes => HookTypes' BY <2>1 DEF HookTypes
    <3>3. SighookPlace => SighookPlace' BY <2>1 DEF SighookPlace, Running
    <3> QED BY <2>1, <3>1, <3>2, <3>3 DEF HookInv
  <2>3. SignalfdInv => SignalfdInv' BY <2>1 DEF SignalfdInv
  <2>4. PipeInv => PipeInv'
    <3>1. \A s : InHand(s)' = InHand(s) BY <2>1 DEF InHand
    <3>2. TableInv => TableInv' BY <2>1 DEF TableInv, InUse
    <3> QED BY <2>1, <3>1, <3>2 DEF PipeInv
  <2> QED BY <2>1, <2>2, <2>3, <2>4 DEF SigInv
<1> QED BY <1>1, <1>2

(* In each of the three ways to receive signals the books balance: what    *)
(* Lua has not seen is in the queue or in a C handler's hand, or in the    *)
(* kernel with a descriptor to read it, until one of the known ways to     *)
(* lose a signal has happened; and what is due to a descriptor of the      *)
(* fallback is in its pipe or on its way there, until one was closed.      *)
THEOREM AlwaysSigInv == SigSpec => []SigInv
<1>1. SigInit => SigInv BY SigInitInv
<1>2. SigInv /\ [SigNext]_sigVars => SigInv' BY SigStepInv
<1> QED BY <1>1, <1>2, PTL DEF SigSpec

(* However C handlers interrupt the program, sighook and each other, every *)
(* signal not yet seen is in the queue or in a C handler exactly once, and *)
(* sighook is installed while the queue is not empty.                      *)
THEOREM HookKeepsSignalsHolds == SigSpec => []HookKeepsSignals
<1>1. SigInv => HookKeepsSignals BY DEF SigInv, HookInv, SighookPlace, HookKeepsSignals
<1> QED BY <1>1, AlwaysSigInv, PTL

(* What Lua has not seen of a blocked signal is pending and there is, or   *)
(* is about to be, a descriptor that reads it; and every descriptor of the *)
(* fallback has, in its pipe or in the hand of a C handler, each signal    *)
(* that arrived since it was handed out and was not read from it.          *)
THEOREM DescriptorKeepsSignalsHolds == SigSpec => []DescriptorKeepsSignals
<1>1. SigInv => DescriptorKeepsSignals
  BY DEF SigInv, SignalfdInv, PipeInv, DescriptorKeepsSignals
<1> QED BY <1>1, AlwaysSigInv, PTL
-----------------------------------------------------------------------------
(* net.connect. *)

(* What the caller's outcome is still due to, or the outcome. *)
Progress ==
  \/ asking \/ phase = "lookup" \/ map # {}
  \/ connected \/ fails > 0
  \/ \E r \in Record : lookups[r] > 0

ConnectInv == ConnectTypeOK /\ NoLeak /\ Progress

(* Records and their numbers of addresses are what AddressesAssumption     *)
(* says, in the form the steps below use.                                  *)
LEMMA RecordFacts ==
  /\ Record \subseteq Nat \ {0} /\ 1 \in Record
  /\ \A r \in Record : Addresses[r] \in Nat /\ Addresses[r] > 0
BY AddressesAssumption DEF Record

(* connect() establishes the invariant: it asks the resolver at once.      *)
LEMMA InitInv == ConnectInit => ConnectInv
BY RecordFacts DEF ConnectInit, ConnectInv, ConnectTypeOK, NoLeak, Progress, connected

(* attempt_connection's callback without a target keeps it: with p.conns   *)
(* empty failure is reported, otherwise somebody's outcome is still due or *)
(* known.                                                                  *)
LEMMA NoTarget ==
  ASSUME ConnectInv, no_target, UNCHANGED resolverVars
  PROVE  ConnectInv'
<1>1. fails \in Nat /\ fails' \in Nat
  BY DEF ConnectInv, ConnectTypeOK, no_target
<1>2. ConnectTypeOK' /\ NoLeak'
  BY <1>1 DEF ConnectInv, ConnectTypeOK, NoLeak, no_target, resolverVars
<1>3. Progress'
  BY DEF ConnectInv, ConnectTypeOK, NoLeak, Progress, no_target, resolverVars, connected
<1> QED BY <1>2, <1>3 DEF ConnectInv

(* The callback with a target keeps the part about the request, and leaves *)
(* either another question or an attempt.                                  *)
LEMMA Target ==
  ASSUME ConnectInv, NEW more \in BOOLEAN, target(more)
  PROVE  /\ asking' \in BOOLEAN
         /\ timers' \in Nat /\ attempts' \in Nat /\ fails' \in Nat
         /\ conns' \subseteq 1..attempts' /\ map' \subseteq 1..attempts' /\ winner' \in 0..attempts'
         /\ NoLeak'
         /\ asking' \/ map' # {}
<1>1. CASE asking' = TRUE /\ UNCHANGED requestVars
  BY <1>1 DEF ConnectInv, ConnectTypeOK, NoLeak, requestVars
<1>2. CASE /\ asking' = FALSE
           /\ attempts' = attempts + 1
           /\ conns' = conns \union {attempts + 1}
           /\ map' = map \union {attempts + 1}
           /\ timers' = IF more THEN timers + 1 ELSE timers
           /\ UNCHANGED <<winner, fails>>
  <2>1. /\ asking' \in BOOLEAN
        /\ timers' \in Nat /\ attempts' \in Nat /\ fails' \in Nat
    <3>1. timers \in Nat /\ attempts \in Nat /\ fails \in Nat
      BY DEF ConnectInv, ConnectTypeOK
    <3>2. timers' \in Nat
      BY <1>2, <3>1
    <3>3. attempts' \in Nat /\ fails' \in Nat
      BY <1>2, <3>1
    <3>4. asking' \in BOOLEAN
      BY <1>2
    <3> QED BY <3>2, <3>3, <3>4
  <2>2. conns' \subseteq 1..attempts' /\ map' \subseteq 1..attempts' /\ winner' \in 0..attempts'
    BY <1>2 DEF ConnectInv, ConnectTypeOK
  <2>3. NoLeak'
    BY <1>2 DEF ConnectInv, ConnectTypeOK, NoLeak
  <2> QED BY <1>2, <2>1, <2>2, <2>3
<1> QED BY <1>1, <1>2 DEF target

(* Every step keeps the invariant. *)
LEMMA NextInv == ConnectInv /\ [ConnectNext]_connectVars => ConnectInv'
<1> SUFFICES ASSUME ConnectInv, [ConnectNext]_connectVars PROVE ConnectInv'
  OBVIOUS
<1> USE RecordFacts
<1>1. CASE bad_hostname
  BY <1>1, NoTarget DEF bad_hostname
<1>2. CASE lookup_records
  BY <1>2 DEF lookup_records, requestVars, ConnectInv, ConnectTypeOK, NoLeak, Progress, connected
<1>3. CASE next_record
  BY <1>3 DEF next_record, requestVars, ConnectInv, ConnectTypeOK, NoLeak, Progress, connected
<1>4. CASE no_more_records
  BY <1>4, NoTarget DEF no_more_records
<1>5. CASE lookup_addresses
  <2>1. ConnectTypeOK' /\ NoLeak'
    <3>1. resolver \in Record /\ lookups' \in [Record -> Nat]
      BY <1>5 DEF lookup_addresses, ConnectInv, ConnectTypeOK
    <3> QED BY <1>5, <3>1 DEF lookup_addresses, requestVars, ConnectInv, ConnectTypeOK, NoLeak
  <2>2. resolver \in Record /\ lookups'[resolver] > 0
    BY <1>5 DEF lookup_addresses, ConnectInv, ConnectTypeOK
  <2> QED BY <2>1, <2>2 DEF ConnectInv, Progress
<1>6. CASE no_more_addresses
  BY <1>6 DEF no_more_addresses, requestVars, ConnectInv, ConnectTypeOK, NoLeak, Progress, connected
<1>7. CASE next_address
  <2>1. resolver \in Record /\ left[resolver] \in 1..(Addresses[resolver] - 1)
    BY <1>7 DEF next_address, ConnectInv, ConnectTypeOK
  <2>2. left' \in [Record -> Int] /\ \A r \in Record : left'[r] \in -1..(Addresses[r] - 1)
    BY <1>7, <2>1 DEF next_address, ConnectInv, ConnectTypeOK
  <2>3. target(left[resolver] > 1) /\ (left[resolver] > 1) \in BOOLEAN
    BY <1>7 DEF next_address
  <2>4. UNCHANGED <<phase, records, resolver, lookups>>
    BY <1>7 DEF next_address
  <2> QED BY <2>2, <2>3, <2>4, Target DEF ConnectInv, ConnectTypeOK, Progress
<1>8. CASE records_answer
  BY <1>8 DEF records_answer, requestVars, ConnectInv, ConnectTypeOK, NoLeak, Progress, connected
<1>9. CASE parallel_timer
  BY <1>9 DEF parallel_timer, resolverVars, ConnectInv, ConnectTypeOK, NoLeak, Progress, connected
<1>10. ASSUME NEW r \in Record, addresses_answer(r) PROVE ConnectInv'
  <2>1. /\ lookups' \in [Record -> Nat]
        /\ left' \in [Record -> Int] /\ \A j \in Record : left'[j] \in -1..(Addresses[j] - 1)
        /\ UNCHANGED <<phase, records>> /\ resolver' \in Record \union {0}
    BY <1>10 DEF addresses_answer, ConnectInv, ConnectTypeOK
  <2>2. CASE target(Addresses[r] > 1)
    BY <2>1, <2>2, Target, (Addresses[r] > 1) \in BOOLEAN DEF ConnectInv, ConnectTypeOK, Progress
  <2>3. CASE asking' = TRUE /\ UNCHANGED requestVars
    BY <2>1, <2>3 DEF requestVars, ConnectInv, ConnectTypeOK, NoLeak, Progress
  <2> QED BY <1>10, <2>2, <2>3 DEF addresses_answer
<1>11. ASSUME NEW c \in map, onconnect(c) PROVE ConnectInv'
  <2>1. c \in 1..attempts /\ c # 0
    BY DEF ConnectInv, ConnectTypeOK
  <2>2. ConnectTypeOK'
    BY <1>11, <2>1 DEF onconnect, resolverVars, ConnectInv, ConnectTypeOK
  <2>3. NoLeak'
    BY <1>11, <2>1 DEF onconnect, ConnectInv, NoLeak, connected
  <2>4. connected'
    BY <1>11, <2>1 DEF onconnect, connected
  <2> QED BY <2>2, <2>3, <2>4 DEF ConnectInv, Progress
<1>12. ASSUME NEW c \in map, ondisconnect(c) PROVE ConnectInv'
  <2>1. c \in 1..attempts /\ c # 0
    BY DEF ConnectInv, ConnectTypeOK
  <2>2. ConnectTypeOK'
    BY <1>12, <2>1 DEF ondisconnect, resolverVars, ConnectInv, ConnectTypeOK
  <2>3. NoLeak'
    BY <1>12, <2>1 DEF ondisconnect, ConnectInv, NoLeak
  <2>4. Progress'
    BY <1>12, <2>1, <2>3 DEF ondisconnect, resolverVars, ConnectInv, NoLeak, Progress, connected
  <2> QED BY <2>2, <2>3, <2>4 DEF ConnectInv
<1>13. CASE UNCHANGED connectVars
  BY <1>13 DEF connectVars, resolverVars, requestVars, ConnectInv, ConnectTypeOK, NoLeak, Progress, connected
<1> QED
  BY <1>1, <1>2, <1>3, <1>4, <1>5, <1>6, <1>7, <1>8, <1>9, <1>10, <1>11, <1>12, <1>13
  DEF ConnectNext

(* p.conns holds the attempts without an outcome and the connection that   *)
(* was handed over, and nothing else.                                      *)
THEOREM NothingLeaks == ConnectSpec => []NoLeak
<1>1. ConnectInv => NoLeak BY DEF ConnectInv
<1> QED BY <1>1, InitInv, NextInv, PTL DEF ConnectSpec

(* attempt_connection and ondisconnect never stop asking without having    *)
(* reported an outcome while nothing is under way.                         *)
THEOREM TheCallerIsTold == ConnectSpec => []CallerIsTold
<1>1. ConnectInv => CallerIsTold
  BY DEF ConnectInv, ConnectTypeOK, Progress, CallerIsTold
<1> QED BY <1>1, InitInv, NextInv, PTL DEF ConnectSpec

(* After onconnect handed a connection over, onfail is not called and no   *)
(* other connection is handed over.                                        *)
THEOREM SuccessIsFinal == ConnectSpec => NoFailAfterSuccess
<1>1. ConnectInv /\ [ConnectNext]_connectVars
        => [connected => fails' = fails /\ winner' = winner]_connectVars
  <2> SUFFICES ASSUME ConnectInv, ConnectNext, connected PROVE fails' = fails /\ winner' = winner
    OBVIOUS
  <2>1. conns # {}
    BY DEF ConnectInv, NoLeak, connected
  <2>2. ASSUME NEW more, target(more) PROVE fails' = fails /\ winner' = winner
    BY <2>2 DEF target, requestVars
  <2> QED
    BY <2>1, <2>2 DEF ConnectNext, bad_hostname, lookup_records, next_record, no_more_records,
       lookup_addresses, no_more_addresses, next_address, records_answer, parallel_timer,
       addresses_answer, onconnect, ondisconnect, no_target, requestVars
<1> QED BY <1>1, InitInv, NextInv, PTL DEF ConnectSpec, NoFailAfterSuccess
=============================================================================
