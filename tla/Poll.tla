-------------------------------- MODULE Poll --------------------------------
(***************************************************************************)
(* util-src/poll.c, with its three back ends, under the event loop of      *)
(* net/server_epoll.lua.  The kernel's answer to a wait is any set of      *)
(* events that was asked for.  Between two waits the loop runs callbacks,  *)
(* which open, register, change, unregister and close sockets, the one     *)
(* being served and others, and the kernel reuses the numbers of closed    *)
(* ones.                                                                   *)
(***************************************************************************)
EXTENDS Integers, Sequences, FiniteSets

CONSTANTS MaxFd,       \* descriptors are 0..MaxFd, all below FD_SETSIZE
          MaxWatched,  \* MAX_WATCHED: entries of the poll back end
          MaxEvents    \* MAX_EVENTS: events epoll_wait returns at a time

ASSUME PollBounds == MaxFd \in Nat /\ MaxWatched \in Nat \ {0} /\ MaxEvents \in Nat \ {0}

Fd == 0..MaxFd
Want == SUBSET {"in", "out"}

VARIABLES
  api,        \* the back end the library was built with
  processed,
  interest,   \* epoll: the kernel's interest list
  events,     \* epoll: the events below processed; poll: the pollfd entries below count
  sets,       \* select: the six fd_sets
  open,       \* the open sockets
  fds,        \* the loop's table: sockets with a registered handler
  turn,       \* "wait": about to wait; "dispatch", "timers": in callbacks
  t,          \* the timeout of the next wait: 0 or positive
  due,        \* history: events of the last answer still to be reported
  removed,    \* history: descriptors unregistered since the last answer
  failed,     \* history: the last wait in the kernel was interrupted or failed
  last,       \* history: the event being dispatched and what was due for it
  asked       \* history: what was outstanding when the kernel was last asked

pollState == <<processed, interest, events, sets>>
loopState == <<open, fds, turn, t>>
history   == <<due, removed, failed, last, asked>>
pollVars  == <<api, pollState, loopState, history>>

Off == {"off"}
NoSets == [wantread |-> {}, wantwrite |-> {}, readable |-> {}, writable |-> {},
           all |-> {}, err |-> {}]
Nothing == [fd \in Fd |-> {}]
NoEvent == [said |-> {}, due |-> {}, removed |-> FALSE, failed |-> FALSE]

Lnew ==
  /\ api \in {"epoll", "poll", "select"}
  /\ processed = CASE api = "epoll" -> 0 [] api = "poll" -> -1 [] api = "select" -> MaxFd + 1
  /\ interest = [fd \in Fd |-> Off]
  /\ events = <<>>
  /\ sets = NoSets

PollInit ==
  /\ Lnew
  /\ open = {} /\ fds = {} /\ turn = "timers" /\ t = 0
  /\ due = Nothing /\ removed = {} /\ failed = FALSE
  /\ last = NoEvent
  /\ asked = [missed |-> {}, events |-> FALSE]

(* The entry of fd in the poll back end's array. *)
EntryOf(fd) == {i \in DOMAIN events : events[i].fd = fd}

Watched ==
  CASE api = "epoll"  -> {fd \in Fd : interest[fd] # Off}
    [] api = "poll"   -> {fd \in Fd : EntryOf(fd) # {}}
    [] api = "select" -> sets.all
-----------------------------------------------------------------------------
Keep(fd, in, S) == IF in THEN S \cup {fd} ELSE S \ {fd}

(* Adding succeeds: EEXIST and, for poll, EMFILE are the guards. *)
Ladd(fd, want) ==
  /\ fd \notin Watched
  /\ \/ /\ api = "epoll"
        /\ interest' = [interest EXCEPT ![fd] = want]
        /\ UNCHANGED <<processed, events, sets>>
     \/ /\ api = "poll"
        /\ Len(events) < MaxWatched
        /\ events' = Append(events, [fd |-> fd, want |-> want, revents |-> {}])
        /\ UNCHANGED <<processed, interest, sets>>
     \/ /\ api = "select"
        /\ sets' = [wantread  |-> Keep(fd, "in" \in want, sets.wantread),
                    wantwrite |-> Keep(fd, "out" \in want, sets.wantwrite),
                    readable  |-> sets.readable \ {fd},
                    writable  |-> sets.writable \ {fd},
                    err       |-> sets.err \ {fd},
                    all       |-> sets.all \cup {fd}]
        /\ UNCHANGED <<processed, interest, events>>

Lset(fd, want) ==
  /\ fd \in Watched
  /\ \/ /\ api = "epoll"
        /\ interest' = [interest EXCEPT ![fd] = want]
        /\ UNCHANGED <<processed, events, sets>>
     \/ /\ api = "poll"
        /\ events' = [i \in DOMAIN events |->
                        IF events[i].fd = fd THEN [events[i] EXCEPT !.want = want] ELSE events[i]]
        /\ UNCHANGED <<processed, interest, sets>>
     \/ /\ api = "select"
        /\ sets' = [sets EXCEPT !.wantread = Keep(fd, "in" \in want, @),
                                !.wantwrite = Keep(fd, "out" \in want, @)]
        /\ UNCHANGED <<processed, interest, events>>

(* Mutant: only what is wanted of fd is forgotten, not what was reported. *)
WithoutFd_lazy(fd) ==
  [sets EXCEPT !.wantread = @ \ {fd}, !.wantwrite = @ \ {fd}, !.all = @ \ {fd}]

(* select: all six sets without fd. *)
WithoutFd(fd) == [f \in DOMAIN sets |-> sets[f] \ {fd}]

(* poll: the last entry moves to the place of the removed one. *)
WithoutEntry(i) == SubSeq([events EXCEPT ![i] = events[Len(events)]], 1, Len(events) - 1)

(* epoll forgets the interest only: an event it has returned already stays *)
(* in events.  An unknown fd (ENOENT) changes nothing.                     *)
Ldel(fd) ==
  \/ /\ fd \notin Watched
     /\ UNCHANGED pollState
  \/ /\ fd \in Watched
     /\ api = "epoll"
     /\ interest' = [interest EXCEPT ![fd] = Off]
     /\ UNCHANGED <<processed, events, sets>>
  \/ /\ fd \in Watched
     /\ api = "poll"
     /\ \E i \in EntryOf(fd) : events' = WithoutEntry(i)
     /\ UNCHANGED <<processed, interest, sets>>
  \/ /\ fd \in Watched
     /\ api = "select"
     /\ sets' = WithoutFd(fd)
     /\ UNCHANGED <<processed, interest, events>>
-----------------------------------------------------------------------------
Biggest(S) == CHOOSE x \in S : \A y \in S : y <= x
Least(S)   == CHOOSE x \in S : \A y \in S : x <= y

(* An event as the caller sees it: hang-ups and errors count as readable. *)
Said(ev) == (IF ev \cap {"in", "hup"} # {} THEN {"r"} ELSE {})
              \cup (IF "out" \in ev THEN {"w"} ELSE {})

(* Where Lpushevent, called with these values of processed, events and     *)
(* sets, finds its next event: an index of events, or a descriptor.        *)
Pending(p, e, s) ==
  CASE api = "epoll"  -> {i \in 1..p : i = p}
    [] api = "poll"   -> {i \in 1..(IF p < Len(e) THEN p ELSE Len(e)) : e[i].revents # {}}
    [] api = "select" -> {fd \in Fd : fd > p /\ fd \in s.readable \cup s.writable \cup s.err}

(* Reports that event.  The loop resets its timeout and calls the handler  *)
(* of the descriptor, or removes a descriptor it has no handler for.       *)
Lpushevent(p, e, s, d) ==
  LET at == IF api = "select" THEN Least(Pending(p, e, s)) ELSE Biggest(Pending(p, e, s))
      fd == IF api = "select" THEN at ELSE e[at].fd
      said == CASE api = "select" -> (IF fd \in s.readable \cup s.err THEN {"r"} ELSE {})
                                       \cup (IF fd \in s.writable THEN {"w"} ELSE {})
                [] api = "poll" -> Said(e[at].revents)
                [] api = "epoll" -> Said(e[at].ev)
  IN /\ processed' = IF api = "select" THEN fd ELSE at - 1
     /\ events' = CASE api = "poll"   -> [e EXCEPT ![at].revents = {}]
                    [] api = "epoll"  -> SubSeq(e, 1, at - 1)
                    [] api = "select" -> e
     /\ sets' = [s EXCEPT !.readable = @ \ {fd}, !.writable = @ \ {fd}, !.err = @ \ {fd}]
     /\ last' = [said |-> said, due |-> d[fd], removed |-> fd \in removed', failed |-> failed']
     /\ due' = [d EXCEPT ![fd] = {}]
     /\ t' = 0
     /\ turn' = IF fd \in fds THEN "dispatch" ELSE "wait"
     /\ UNCHANGED <<api, interest, open, fds>>

(* wait(t) has an event left from the last answer. *)
WaitPending ==
  /\ turn = "wait"
  /\ Pending(processed, events, sets) # {}
  /\ UNCHANGED <<removed, failed, asked>>
  /\ Lpushevent(processed, events, sets, due)

(* Mutant: a zero timeout is passed on to the kernel. *)
AsksKernel_always == turn = "wait" /\ Pending(processed, events, sets) = {}

(* Nothing left, and a timeout above zero: Lwait asks the kernel. *)
AsksKernel == turn = "wait" /\ Pending(processed, events, sets) = {} /\ t > 0

(* Nothing left and a zero timeout: "timeout" without asking the kernel. *)
WaitZero ==
  /\ turn = "wait"
  /\ Pending(processed, events, sets) = {}
  /\ t = 0
  /\ turn' = "timers"
  /\ UNCHANGED <<api, pollState, open, fds, t, history>>

(* What was outstanding at the moment the kernel is asked. *)
Ask == asked' = [missed |-> {fd \in Fd : due[fd] # {}}, events |-> t = 0]

(* select works on copies of the wanted sets. *)
Copies == [sets EXCEPT !.readable = sets.wantread, !.writable = sets.wantwrite, !.err = sets.all]

(* The kernel's answers: for each watched descriptor some of the events    *)
(* asked for, or a hang-up or error, at least one in all.                  *)
Answers ==
  LET Wanted(fd) == CASE api = "epoll" -> interest[fd]
                      [] api = "poll" -> events[CHOOSE i \in EntryOf(fd) : TRUE].want
                      [] api = "select" -> (IF fd \in sets.wantread THEN {"in"} ELSE {})
                                             \cup (IF fd \in sets.wantwrite THEN {"out"} ELSE {})
  IN {a \in [Watched -> SUBSET {"in", "out", "hup"}] :
        /\ \A fd \in Watched : a[fd] \subseteq Wanted(fd) \cup {"hup"}
        /\ \E fd \in Watched : a[fd] # {}}

(* The wait returns events: one is reported, the rest is kept. *)
LwaitEvents ==
  /\ AsksKernel
  /\ Ask
  /\ failed' = FALSE
  /\ removed' = {}
  /\ \E a \in Answers :
       LET d == [fd \in Fd |-> IF fd \in Watched THEN Said(a[fd]) ELSE {}]
           hit == {fd \in Watched : a[fd] # {}}
       IN \/ /\ api = "epoll"
             /\ Cardinality(hit) <= MaxEvents
             /\ \E order \in [1..Cardinality(hit) -> hit] :
                  /\ {order[i] : i \in DOMAIN order} = hit
                  /\ LET e == [i \in DOMAIN order |-> [fd |-> order[i], ev |-> a[order[i]]]]
                     IN Lpushevent(Len(e), e, sets, d)
          \/ /\ api = "poll"
             /\ LET e == [i \in DOMAIN events |-> [events[i] EXCEPT !.revents = a[events[i].fd]]]
                IN Lpushevent(Len(e), e, sets, d)
          \/ /\ api = "select"
             /\ Lpushevent(-1, events,
                           [sets EXCEPT !.readable = {fd \in hit : "in" \in a[fd]},
                                        !.writable = {fd \in hit : "out" \in a[fd]},
                                        !.err = {fd \in hit : "hup" \in a[fd]}], d)

(* The wait times out (select then clears its sets), or is interrupted or  *)
(* fails (select then leaves the copies as they are).                      *)
LwaitNothing ==
  /\ AsksKernel
  /\ Ask
  /\ removed' = {}
  /\ \/ /\ turn' = "timers"
        /\ failed' = FALSE
        /\ sets' = IF api = "select" THEN [sets EXCEPT !.readable = {}, !.writable = {}, !.err = {}] ELSE sets
     \/ /\ turn' = "wait"
        /\ failed' = TRUE
        /\ sets' = IF api = "select" THEN Copies ELSE sets
  /\ UNCHANGED <<api, processed, interest, events, open, fds, t, due, last>>
-----------------------------------------------------------------------------
(* What callbacks do: server_epoll's wrapsocket, interface:add, set, del   *)
(* and destroy.                                                            *)
InCallback == turn \in {"dispatch", "timers"}

OpenSocket(fd) ==
  /\ InCallback
  /\ fd \notin open
  /\ open' = open \cup {fd}
  /\ UNCHANGED <<api, pollState, fds, turn, t, history>>

Register(fd, want) ==
  /\ InCallback
  /\ fd \in open \ fds
  /\ Ladd(fd, want)
  /\ fds' = fds \cup {fd}
  /\ UNCHANGED <<api, open, turn, t, history>>

SetFlags(fd, want) ==
  /\ InCallback
  /\ fd \in fds
  /\ Lset(fd, want)
  /\ UNCHANGED <<api, loopState, history>>

Unregister(fd) ==
  /\ fd \in fds
  /\ Ldel(fd)
  /\ fds' = fds \ {fd}
  /\ due' = [due EXCEPT ![fd] = {}]
  /\ removed' = removed \cup {fd}

(* interface:del() on its own (a handshake, a pause) ... *)
Deregister(fd) ==
  /\ InCallback
  /\ Unregister(fd)
  /\ UNCHANGED <<api, open, turn, t, failed, last, asked>>

(* ... and as part of destroy(), before the socket is closed.              *)
Destroy(fd) ==
  /\ InCallback
  /\ fd \in open
  /\ open' = open \ {fd}
  /\ \/ Unregister(fd)
     \/ fd \notin fds /\ UNCHANGED <<pollState, fds, due, removed>>
  /\ UNCHANGED <<api, turn, t, failed, last, asked>>

DispatchDone ==
  /\ turn = "dispatch"
  /\ turn' = "wait"
  /\ last' = NoEvent
  /\ UNCHANGED <<api, pollState, open, fds, t, due, removed, failed, asked>>

(* runtimers returns the time to the next timer, at least min_wait. *)
TimersDone ==
  /\ turn = "timers"
  /\ turn' = "wait"
  /\ t' = 1
  /\ UNCHANGED <<api, pollState, open, fds, history>>

PollNext ==
  \/ WaitPending \/ WaitZero \/ LwaitEvents \/ LwaitNothing
  \/ DispatchDone \/ TimersDone
  \/ \E fd \in Fd : \/ OpenSocket(fd) \/ Deregister(fd) \/ Destroy(fd)
                    \/ \E want \in Want : Register(fd, want) \/ SetFlags(fd, want)

PollSpec == PollInit /\ [][PollNext]_pollVars
-----------------------------------------------------------------------------
(* The poller watches exactly the descriptors the loop has handlers for,   *)
(* each once, and only open ones: a descriptor left behind in either would *)
(* be reported for ever or never again.  The poll back end's moves of its  *)
(* last entry keep this.                                                   *)
TablesAgree ==
  /\ Watched = fds
  /\ fds \subseteq open
  /\ \A fd \in Fd : Cardinality(EntryOf(fd)) <= (IF api = "epoll" THEN MaxEvents ELSE 1)
  /\ api = "poll" => Len(events) <= MaxWatched

(* An event that wait() reports was in the kernel's answer for the present *)
(* registration of that descriptor and has not been reported before.  The  *)
(* two exceptions are epoll, for a descriptor that a callback unregistered *)
(* while its event was waiting in events, and select after an interrupted  *)
(* wait, which leaves the sets of wanted descriptors in place of answers.  *)
EventsAreReal ==
  \/ last.said = last.due
  \/ api = "epoll" /\ last.removed
  \/ api = "select" /\ last.failed

(* The poller and the event loop agree, whatever callbacks did between two *)
(* waits: the same descriptors, and no event that is old, made up or for   *)
(* somebody else.                                                          *)
PollerMatchesLoop == TablesAgree /\ EventsAreReal

(* Nothing the kernel reported is skipped: before it is asked again every  *)
(* event of its last answer has been reported or its descriptor removed,   *)
(* whatever callbacks did to the entries in between.  And timers have run  *)
(* since the last event: a busy descriptor cannot keep them waiting.       *)
BatchCompleteThenTimers == asked.missed = {} /\ ~asked.events
=============================================================================
