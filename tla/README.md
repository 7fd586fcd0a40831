# A TLA+ verification project for Prosody

Prosody is an XMPP server written in Lua with a few C extensions. One process
runs one event loop (`net/server*.lua`). Network events, timers and the work
they trigger run to completion, except where a stanza handler waits inside a
coroutine (`util/async.lua`). So there are no data races in Lua code; in the C libraries (`util-src/`) signal
handlers interrupt the program anywhere. What is hard is

* the *order of events*: a connection that broke is noticed late, a new one is
  used before the old one is known to be gone, timers fire for sessions that
  have moved on, two servers talk at once;
* *re-entrancy*: `fire_event`, `run()`, `done()`, error replies and
  `session:close()` call other code in the middle of an operation;
* *waiting*: what was checked before a coroutine waits is stale after it;
* *counting*: bounded queues, acknowledgement counters, wrap-around;
* *failing half way*: a system call, an OpenSSL call or the whole process stops
  between two steps that belong together.

The modules model these parts and state what makes them correct. TLC checks the
properties on small instances; for the modules where that is within reach TLAPS
proves them for every value of the constants.

## 1. Inventory

The components, the state they keep and what makes each one correct.
`PROJECT.json` has the complete list with all source files and the reasons for
what is left out.

| component | state | operations | correct when | module |
|---|---|---|---|---|
| `util.queue` | table, `head`, `tail`, `items` | push, pop, peek, replace, items, consume | a bounded FIFO that refuses or forgets, as configured | RingBuffer, BoundedFifo |
| `util.smqueue` | a ring buffer and two counters | push, ack, resumable, resume, consume | what it resumes is exactly what was not acknowledged, or it refuses | SmQueueOps, SmQueue |
| `util.async` | runner state, queue, coroutine; waiters; guards | run, enqueue, runner_continue, wait/done, guard/exit | items start once, in order; no coroutine resumed twice; nobody stranded | Async |
| `mod_smacks` with `mod_c2s`, `core.sessionmanager`, `util.watchdog` | session flags, queue, counters, registry of resumption tokens, connection table | enable, a, r, resume, hibernate, expire, close, disconnect, read timeout, stop | each stanza delivered once and in order over any number of connections, or reported as failed | Smacks |
| `core.rostermanager`, `mod_presence`, `mod_roster` | roster item, pending requests, presence | subscribe, subscribed, unsubscribe, unsubscribed, probe, set, remove | the two halves of a subscription agree once everything has arrived | Roster |
| `mod_s2s`, `core.s2smanager`, `mod_dialback`, `mod_s2s_bidi`, s2s half of `mod_saslauth` | routing table `s2sout`, sessions, send queues, dialback requests | route, connect, authenticate, mark connected, bounce, close, destroy | one usable route per domain, nothing vanishes, nobody is authenticated who was not vouched for | S2S |
| `util.ringbuffer` (C) | a block, read and write position, length | write, read, peek, readuntil, discard, find, sub, byte | a stream of bytes, whatever wraps | ByteRing, ByteStream |
| `util.poll` (C) under `net.server_epoll`'s loop | what is watched and wanted, the answer being handed out | add, set, del, wait; callbacks that open and close | watched is what the loop registered; no event of a socket that is gone; every event before the next timers | Poll |
| `util.signal` (C) | queued signals, debug hook, pipes | signal, raise, kill, signalfd, read, close | a signal that was accepted is handled | Signals |
| item lists: `util.datamanager`, `pposix.atomic_append` | list file, index file | append, store, open, shift | a crash or failure leaves the old or the new list; an append keeps what is there; reading by index agrees with the list | ListStore |
| `util.pposix`, `util.startup` | processes, session, terminal; uid, gid, groups | daemonize, setuid, setgid, initgroups | at most one server, and that detached; root's rights are given up together or not at all | Posix |
| `util.encodings`, `util.strbitop`, `util.table` (C) | none | base64, UTF-8 check, bit operations, move | computes what it is the definition of | Codec |
| `util.crypto`, `util.hashes` (C) | OpenSSL objects | sign, verify, derive, import, export, encrypt, decrypt, hash | every object is freed once on every path; none that could not be made is used or handed out | Crypto |
| `mod_muc` | rooms: occupants, roles, affiliations, locks, history | join, leave, nick change, kick, affiliation change, destroy, evict and restore | what occupants are told adds up to the room's state | - |
| `mod_bosh`, `mod_websocket` | held requests, rids, buffers | request, reply, retransmission, timeout, close handshake | each stanza once; never more held requests than `hold` | - |
| `net.server_epoll` (connections) | write buffer, pause/lock flags, timers per connection | write, drain, pause, close, destroy | what was written before close is sent; no callback after destroy | its loop is in Poll |
| `net.connect`, resolvers | attempts in flight, resolver targets | try next, look up, success, failure, timer | one outcome per request | NetConnect |
| `core.modulemanager`, `util.events` | loaded modules, hooks | load, reload, unload | what is unloaded leaves nothing hooked | - |
| storage (drivers, SQL, `util.cache`) | rows, transactions, cached values | get, set, find, delete | the drivers agree on what a query returns | - |
| `util.pubsub`, `mod_pubsub`, `mod_pep` | nodes, items, subscriptions | create, publish, retract, subscribe, delete | subscribers hear what the node holds; a failed store is rolled back | - |
| message delivery: `mod_message`, offline, MAM, carbons, push, CSI | stores, buffers | deliver, store, copy, flush | each message reaches a resource or a store | - |
| accounts, SASL (c2s), tokens, invites | accounts, grants | login, change, disable, delete, redeem | a revoked credential ends its sessions; an invite is used once | - |
| timers, throttles, promises, FSM | heap, rates, states | add, reschedule, stop, poll, settle | a stopped timer does not fire; a promise settles once | - |
| XML, JID, HTTP parsing, configuration, logging, metrics, shell | - | text and bytes in, text and bytes out | no protocol state of their own | - |

How they interact: the event loop calls listeners (`mod_c2s`, `mod_s2s`,
`mod_bosh`...), which feed an XML parser; each parsed stanza passes the session's
filters (where `mod_smacks` counts it) and is queued in the session's runner;
its handler fires events that other modules hook. Outgoing stanzas go through
`session.send` and its filters (where `mod_smacks` keeps a copy), or through
`route/remote` to `mod_s2s`. Destroying a session fires `pre-resource-unbind`
(where `mod_smacks` hibernates it instead) and bounces what was queued, which
may send stanzas again.

Beneath all of it are the C libraries: the loop waits in `util.poll`, signals
reach it through `util.signal`, datamanager writes through `pposix`, and the
stream code relies on the UTF-8 check, base64 and the hashes.

The hazards this leads to are listed, each at its line, in `PROJECT.json` with
the properties that would catch them. Four more have no property: a guarded
function that raises (`async.lua:124`; the callers in the repository that pass one do
not), a store that fails when sessions are saved at shutdown
(`mod_smacks.lua:749`), a roster save that fails after the item in memory was
changed (`rostermanager.lua:162`), and a stanza above the peer's advertised size
limit (`mod_s2s.lua:831`).

## 2. Modules

```
BoundedFifo <== RingBuffer      LibraryProofs       \
ByteStream  <== ByteRing        LibraryProofs        |
ListStore                       LibraryProofs        |  MCLibraries
SmQueueOps  <-- SmQueue         LibraryProofs        |
Codec, Crypto, Posix                                /
NetConnect, Poll, Signals       EventProofs             MCNet
SmQueueOps  <-- Smacks          SmacksProofs        \   MCSmacks
                                SmacksUpstreamProofs/
Async                           AsyncProofs             MCAsync
Roster                          RosterProofs            MCRoster
S2S                             S2SProofs           \   MCS2S
                                S2SProgressProofs   /
```
(`<==` implements, `<--` uses.)

**RingBuffer** (`util/queue.lua`). The Lua table and the three locals of `new`,
one action per method; the result of each call is a variable, and so is
`allow_wrapping`, which never changes.
`BoundedFifo` is what a caller relies on: a sequence that, when full, refuses the
new item or drops the oldest. `ImplementsFifo` says that every call of the ring
buffer is a call of the FIFO on the sequence the iterator would produce.

**SmQueueOps, SmQueue** (`util/smqueue.lua`). The queue as a record of the ring
buffer's contents, `_head` and `_tail`; the ring buffer is replaced by what the
refinement above shows it to be. `SmQueue` drives the operators with every
sequence of calls and every `h`; `Smacks` uses the same operators.

**Async** (`util/async.lua`). Each runner has its `state`, `queue` and coroutine.
`run()`, `done()` and a guard's `exit()` resume another coroutine inside the
caller; `stack` holds these nested activations and only the top one takes steps.
`sleep` and `wait_for` are `waiter(1)`.

**Smacks** (`plugins/mod_smacks.lua` and what it drives in `mod_c2s`,
`core/sessionmanager.lua`, `util/watchdog.lua`). One session `S` over up to
`MaxConn` connections. Handlers are functions from server state to server state,
named as in the source; `FeedItem` is the parser with the `stanzas/in` filter,
`RunItem` the session's thread. The client is external: it follows XEP-0198
honestly, loses its connection at any moment, and resumes on a new one; the
server reads any prefix of what was sent and notices the loss at any later time.
The constants `MayWait`, `MayCut`, `MayCloseEarly`, `MayStop` switch behaviours
of the environment, so that a run can say exactly what its result needs
(section 5).

**Roster** (`core/rostermanager.lua`, `plugins/mod_presence.lua`,
`plugins/mod_roster.lua`). Two users on two servers. The roster manager's
operations are functions on an item and its pending flag; the presence handlers
are the actions, and replies posted through the own outbound handler are part of
the action that posts them. A FIFO to each server stands for the s2s stream.

**S2S** (`plugins/mod_s2s.lua`, `core/s2smanager.lua`, `plugins/mod_dialback.lua`,
`plugins/mod_s2s_bidi.lua`, the s2s hooks of `plugins/mod_saslauth.lua`, routing
in `core/stanza_router.lua`). Two servers that both run this code. Connection
`<<h, k>>` is the k-th one `h` opens; `<<h, 0>>` is opened by somebody who only
claims to be `h`. A dialback key is abstracted to whether it is the one its
domain would generate for that stream. A stanza is numbered, so that the
properties can say what became of it. `destroy_out` includes the stanza a module
may send in answer to a bounce, in the middle of the destruction. With EXTERNAL
either end resets its stream: the opener when it reads `<success/>` (`reset`), the
acceptor when it has written it, after the session has been marked as connected
(`notopen`). Until the new header has come, anything else read from a reset stream
is the parser's `no-stream` error and closes the session (`no_stream`); `early` keeps
what it was. The header and the features are one item, as the code writes one
after the other.

**NetConnect** (`net/connect.lua`, `net/resolvers/service.lua`,
`net/resolvers/basic.lua`). One request. `target_resolver:next()` either calls back
at once or starts a lookup; `asking` stands for the call that is about to be made,
so that the chain of calls attempt, resolver, inner resolver, callback is a
sequence of steps nothing interrupts, and events happen between chains. A record
is reduced to how many addresses it has; DNS may fail or find nothing.

**ByteRing** (`util-src/ringbuffer.c`). The block, `rpos`, `wpos` and `blen`; the
block starts with arbitrary bytes, as `lua_newuserdata` leaves it. `find` keeps its
unsigned loop bound. `ByteStream` is the promise: bytes come out once, in order,
and `readuntil` consumes up to the first match. The views that change nothing
(`sub`, `byte`, the sizes) are compared with the content in every state
(`ViewsMatchContent`).

**Poll** (`util-src/poll.c`, the loop of `net/server_epoll.lua`). The state of the
three back ends: the kernel's interest set and the events held (epoll), the array
with its `revents` (poll), the five sets (select). A run of the loop picks one.
Between two events callbacks register, change, unregister, close and reopen
descriptors; the kernel hands out the lowest free number and answers with any set
of events that was asked for, an error or an interruption.
`BatchCompleteThenTimers` is how the loop gets to its timers: after an event it
waits with timeout zero, and a back end that has handed out its answer then says
"timeout" without asking the kernel again.

**Signals** (`util-src/signal.c`). A C handler is a process of its own. It may
interrupt the program, the hook and another handler at the steps the actions
name: the check of `nsig`, the saving of the hook, the installing of `sighook`, the
reading of `nsig` and its writing back are five steps of `handle`; the loop's turns
and `nsig = 0` are steps of `sighook`; the blocking of the signal (or the
installing of `signal2fd`) and the making of the descriptor with its table entry
are two steps of `l_signalfd`, the second of which may fail. Within one of these
steps, the three calls that save the hook for instance, nothing comes in between.
`mode` says which of the three ways of delivery is compiled in and used. Which
signals arrive, from the kernel or by `raise` and `kill`, is external (`Arrive`).

**ListStore** (`util/datamanager.lua`, `lc_atomic_append` of `util-src/pposix.c`).
The two files are sequences of cells, an item is two cells so that a write can
stop in the middle. Every function is one action per file it changes, and
`Restart` may follow any. Opening a file, writing, flushing, taking back, closing
and renaming may each fail; `append` goes to `atomic_store` whenever the file cannot
be opened, whether it is missing or not. One call is taken to succeed, the
removal of a file that exists; only `list_shift` passes its failure on.
History variables hold what the list was and is to be.

**Posix** (`util-src/pposix.c`, `util/startup.lua`). One start of prosody or
prosodyctl: up to three processes, each where it is in `daemonize`, with the
session it is in and whether it still has the console; they run side by side, and
a parent exits at any time after its fork. The user, the group and the
supplementary groups are changed one call at a time.

**Codec** (`util-src/encodings.c`, `strbitop.c`, `table.c`). Each function as the
C code computes it, next to a definition: UTF-8 by the ranges of RFC 3629, base64
by decoding what was encoded with white space and padding anywhere, `sxor` and
`common_prefix_bits` by single bits, `move` by what the table held before.
Numbers wrap at `MaxInteger` where `lua_Integer` does.

**Crypto** (`util-src/crypto.c`, `hashes.c`, `managed_pointer.h`). Every function as
the list of its steps: check arguments (may raise), make an object, use it (may
fail, jumping where the C code jumps), free, hand to the collector, return. Any
allocation may fail. Where the code does not look, the function goes on with NULL
(`null`), and a key made of it may reach Lua (`hollow`), which may pass it to any
function that takes a key. A behaviour runs calls of any functions, one after the
other. What OpenSSL computes is left out.

## 3. Runs

| run | instance | shows |
|---|---|---|
| `libraries` | ring of 3 with 2 values; smqueue of 2, 5 pushes; byte ring of 3 with strings of up to 3; inputs of up to 4 bytes; lists of up to 3 items; every crypto function; every start | the containers are what they promise, the pure functions compute what they stand for, lists survive crashes and failing calls, OpenSSL objects are freed once and, but for three functions, never used when they are not there, at most one server and that detached, rights dropped together |
| `net` | SRV records with 2, 1 and 2 addresses; 3 descriptors with 2 watched (poll) or reported (epoll) at a time; 2 signals, 4 arrivals, queue of 2, 2 descriptors | no attempt is forgotten or handed over twice and the caller is told; the poller agrees with the loop, every event is dispatched and then timers run; a signal is not lost, outside the cases that are excepted |
| `async` | 2 runners, 3 items each, waiters of up to 2, errors, with fairness | no coroutine is resumed twice, items start once and in order, the guard admits one, no wake-up is lost or wasted, queued items are started |
| `smacks` | 3 connections, 2 stanzas down, 1 up, 1 ack or request of the client's own, queue of 1, a server stop | exactly-once in order both ways, counts never claim too much and honest clients are not rejected, tokens lead to live sessions, one connection at a time, only hibernating sessions expire |
| `smacks_wait` | 2 connections, waiting handlers, stanzas cut in half, queue of 2 | delivery survives waiting and cuts |
| `smacks_live` | as above with fairness | every stanza settles |
| `smacks_watchdog` | violation | a refused resumption leaves a session hibernating without a watchdog |
| `roster` | 6 requests | the halves of a subscription agree when everything arrived, requests are not lost, presence is known, exchanges end |
| `s2s` | 2 connections each way and a forged one, 3 stanzas, queue of 2, 1 failure | one route, sent or bounced and never both, only vouched peers, no deadlock, order with dialback |
| `s2s_order` | violation | with EXTERNAL a stanza overtakes the queued ones |
| `connect_final` | violation | an attempt may start, and succeed, after failure was reported |
| `list_index` | violation | after a crash between item and index entry the next append keeps an index that skips an item |

The libraries share nothing, so `MCLibraries` and `MCNet` compose them with a
selector, `which`: a behaviour is about one of them, the others keep their initial
state, and the state space is the sum of theirs. Properties that belong together
are one conjunction of named parts: `ResumeIsLossless`, `WakeupsMatch`,
`UpstreamProcessing`, `SessionRegistry`, `QuietMeansAgreed`, `OneRoute`,
`OutboundOrder`, `PollerMatchesLoop`, `LoopsExact`.

*Bounds.* A ring of 3 has a slot that is first, last and neither. A queue of one
or two overflows with two or three stanzas. Three connections allow a resumption
of a resumed session while the first connection is still believed to be alive.
Six roster requests let both users subscribe, answer and undo, crossing each
other. Two connections each way in S2S allow a replacement while the first
attempt's answers are still under way, and one failure may hit any step. Three SRV records of
two, one and two addresses let the timer of one record's attempt meet the lookup
of the next, before and after a record that has no parallel attempt. The
order and exactly-once properties are about at most two stanzas in flight; a
third adds no new relation between queue, connection and client.
A byte ring of 3 with strings of up to 3 bytes fills, wraps inside a string and
is searched for strings longer than the content. The UTF-8 inputs are all
strings of up to 4 of the bytes at which the code or the standard turns (17 of
them, one on each side of every boundary). The bit inputs split 4 bytes at every
place into two strings of different lengths. `MaxInteger` 7 lets `move`'s sums
overflow from both sides. Three list items allow an index that is behind by one
and a shift that keeps some. Three descriptors, two of them watched or reported
at a time, let one event's callback remove the descriptor of the next and reuse
its number. A queue of two signals with four arrivals overflows and is refilled
while its handlers run; two descriptors let one call of `signalfd` be half done, or
fail, while another descriptor is owed signals. `libraries` has 158,184 distinct states, `net` 435,887 and
`s2s` 602,761.

*Fairness.* Weak fairness is assumed of what the event loop does on its own:
running queued items, ticks, timers that are armed, noticing a connection the
peer has left, reading data that arrived. Strong fairness is assumed of reading
in Smacks, because the runner's pause disables and enables it, and of an item's
return and guard exit in Async, because a nested activation disables them.
`done()` is fair: what an item waits for happens. Of the client one thing is
assumed, in `StanzasSettle` alone: it reads what has arrived on the connection it
uses (`WF(ClientRead)`); one that holds its connection open and reads nothing keeps
its stanzas unsettled. That users and clients send, acknowledge or resume is not assumed; they may stop at any
time.

## 4. Proofs

| theorem | statement |
|---|---|
| `LibraryProofs!RingInvariant` | the ring invariant holds for every size and item set |
| `LibraryProofs!RingImplementsFifo` | the ring buffer implements `BoundedFifo` |
| `LibraryProofs!ByteRingCorrect` | positions and length of the byte ring agree, for every capacity |
| `LibraryProofs!ByteRingImplementsStream` | the byte ring implements `ByteStream` |
| `LibraryProofs!ViewsMatchContentHolds` | `sub`, `byte` and `find` show the stored bytes, for every offset |
| `LibraryProofs!AlwaysListInv` | the inductive invariant of a list and its index |
| `LibraryProofs!AllOrNothingHolds` | a list holds the items from before an operation or from after it, but for an append that could not open it |
| `LibraryProofs!ReadsAgreeHolds` | reading through the index gives the list |
| `LibraryProofs!SmqInvariant` | the counters determine the contents |
| `LibraryProofs!ResumptionIsLossless` | `resumable()` means `resume()` yields exactly the unacknowledged stanzas; a refusal has a reason |
| `LibraryProofs!AckReturnsAckedHolds` | an ack returns exactly the newly acknowledged stanzas that were held |
| `AsyncProofs!RunnerInvariant` | no coroutine is resumed while active; `runner.state` is right |
| `AsyncProofs!ItemsInvariant` | items start once and in order |
| `AsyncProofs!GuardInvariant` | the guard is exclusive |
| `AsyncProofs!NobodyIsStranded` | no wake-up is wasted, nobody waits for one that will not come |
| `RosterProofs!RosterInvariant` | roster items stay well formed |
| `RosterProofs!QuietMeansAgreedHolds` | once everything is read the two rosters agree |
| `EventProofs!NothingLeaks` | `p.conns` is what is under way and what was handed over |
| `EventProofs!TheCallerIsTold` | when nothing is under way the caller was told |
| `EventProofs!SuccessIsFinal` | no failure and no second connection after success |
| `S2SProofs!AlwaysGood` | the inductive invariant of the two servers |
| `S2SProofs!OneRouteHolds` | the table of routes and the sessions agree |
| `S2SProofs!SentOrBouncedHolds` | every stanza is queued, sent or bounced, and never two of these |
| `S2SProofs!OnlyVouchedHolds` | a forged connection is never let in |
| `S2SProofs!OutboundOrderHolds` | no stanza comes before its sender is authenticated, nor into a stream being reset unless EXTERNAL and a bidirectional stream meet; over dialback none overtakes another |
| `S2SProgressProofs!NoDialbackDeadlockHolds` | unless something failed, a queue was full or something came into a stream being reset, two servers that authenticate to each other never wait for each other for ever |
| `EventProofs!AlwaysEventInv` | the inductive invariant of the poller and the loop |
| `EventProofs!PollerMatchesLoopHolds` | the poller and the loop agree, with each back end |
| `EventProofs!BatchCompleteHolds` | every event is dispatched, then timers run, before the kernel is asked again |
| `EventProofs!AlwaysSigInv` | the inductive invariant of the signal handling |
| `EventProofs!HookKeepsSignalsHolds` | outside five named cases no signal is lost between handler, queue and hook |
| `EventProofs!DescriptorKeepsSignalsHolds` | every descriptor gets its own copy of each signal that arrives after it was made, whatever other calls are half done or fail, until one is closed; a signal blocked for signalfd waits and has a reader |
| `SmacksProofs!AlwaysSmacksInv` | the inductive invariant of session, connections and client |
| `SmacksProofs!DownstreamDeliveryHolds` | stanzas are received once and in order, held, reported or pushed out |
| `SmacksProofs!OneConnectionHolds` | a live session owns the connection it sends on and no other |
| `SmacksUpstreamProofs!RegisteredIsResumableHolds` | if no session closes before `<enable/>`: a registered token leads to a session that can be resumed |
| `SmacksUpstreamProofs!ExpiresOnlyHibernatingHolds` | if handlers do not wait: only a hibernating session is destroyed for hibernating too long |
| `SmacksUpstreamProofs!AlwaysUpInv` | if handlers do not wait: the inductive invariant of the client's stanzas and the server's counts |
| `SmacksUpstreamProofs!UpstreamProcessingHolds` | if, besides, connections break between stanzas: the client's stanzas are processed once and in order, counted, and claimed only when processed |
| `SmacksUpstreamProofs!SessionRegistryHolds` | if handlers do not wait and no session closes before `<enable/>`: token registry, connection table, thread and session agree |

*RingBuffer.* `RingInv` is inductive: besides types it relates the three
variables, `head` is `items` slots after `tail`, modulo `size`, and says that the slots the
iterator visits hold pushed items. The refinement maps
the FIFO's contents to the slots in iteration order; each method is one step of
the FIFO, the modular arithmetic of the three index computations being isolated
in lemmas.

*ByteRing.* `ByteRingInv` is inductive: positions lie in the block, the length is
at most the capacity, and the write position is the length behind the read
position, modulo the capacity. The refinement maps the stream's content to the
stored bytes in reading order. Lemmas isolate the modular arithmetic: that a write
touches only free slots and appends, that reading the two pieces of a wrapped
string yields a prefix of the content, and that a match `find` reports is the
first one. `ViewsMatchContent` follows from the same invariant: the two positions
`calc_splice_positions` returns, for any signed offsets, delimit at most two pieces
of the block that together are the piece of the content asked for. The only
assumptions are that the capacity is positive and that
strings are non-empty sequences of bytes.

*ListStore.* `ListInv` is inductive. Whatever the index has missed, both files hold
whole entries as long as no fragment was left behind (`WholeFiles`): an item is an
entry and its end mark, so every length is even, and an index, even a stale one,
only lists even offsets. That is what keeps `list_shift` with a stale index from
cutting an item in two. If the index has missed nothing either, it has the end of
every item, or of every item but the last between the two writes of `list_append`
(`IndexAgrees`), and the list is the one from before or the one the operation is to
leave. `list_store` and `list_shift` delete the index before they touch the list
(`IndexGone`), which is what a crash between the steps needs. A `list_append` that
could not open the list leaves its own item (`Alone`), the one exception in
`AllOrNothing`; the index then has its old entries while `offset` is zero, so the
two appends disagree and the index is dropped, which is why `ReadsAgree` needs no
exception. The assumption is
that an item is no part of its encoding: `Entry` does not contain the end mark.

*SmQueue.* `SmqInv` says that the queue holds the newest
`min(_head - _tail, QueueSize)` stanzas pushed, unless it has been consumed since.
Acks beyond the held stanzas need the lemma on `LastN`. What an ack returns follows
from the same invariant and the lemmas on slices of sequences.

*Roster.* `ItemWellFormed` is inductive with the types: the operations of the
roster manager each preserve it on any item, whatever arrives. `QuietMeansAgreed`
speaks of empty streams only; `AgreeInv` says what holds while they are not. For
each user it follows a flag through a stream (`After`: what becomes of it once the
stream is read): who is subscribed or has asked and is not about to be refused will
be served or be pending at the contact (`WantMeansServed`); a request the contact
has granted has an answer on the way, or makes one (`AskMeansAnswered`); who waits
for an answer will take the contact for offline (`PendingMeansUnseen`); who is
served will know the contact's presence or has a probe or a request on the way that
brings it (`ServedMeansTold`). Lemmas say what sending and reading do to `After`,
and what each operation makes of the two halves of a subscription; with them every
action is a propositional argument for each of the two users. There are no
assumptions beyond the types of the constants.

*Async.* None of the four properties is inductive. `AsyncInv` adds what ties the
data structures together: the live coroutines are exactly those on the stack, a
tick is due exactly for the idle runners that still say "waiting", the items in
the guard's line are exactly the queued ones and are suspended without a waiter
of their own, a suspended item has a waiter or is in line, and stack, ticks and
line have no runner twice. With it, a wake-up always finds a suspended coroutine.
The proof has one lemma per action; two lemmas say what putting a coroutine on
the stack and taking it off do to the state.

*NetConnect.* `CallerIsTold` is not inductive: `Progress` adds that, at every
moment, the request is asking, looking something up or attempting, or the outcome
is known. That asking without a target keeps it needs `NoLeak`: `p.conns` is
consulted where the attempts are meant. `SuccessIsFinal` follows because the
connection handed over stays in `p.conns`.

*S2S.* The handlers are functions of the state of both servers, so there is one
lemma for each: it maps a state that is `Good` to one that is. `Good` has three
parts. `OneStep`: of each connection's authentication there is one item in flight
in one of its two streams, or one question at the authoritative server, or the
last step is done; so a late or repeated answer never finds the session
authenticated already, and no answer about a forged connection says that its key
is good (`Unforged`). `Routes`: the table entry of a host is its live outgoing
session or an accepted one that may be used both ways. `Books`: the stanzas 1 to
`routed` are each sent, bounced or in one queue; while a handler holds some they
are booked as held, and bouncing is shown to hand on exactly those.
`OutboundOrder` needs a second invariant on top, `Lined`. `Ready`: the opener knows
that it was let in only if the acceptor has let it in, and what the acceptor
writes over a bidirectional stream is behind the item that says so, so neither end
ever sends a stanza to a peer that does not know it as authenticated. What comes
into a stream being reset comes there only after EXTERNAL succeeded, and a stanza
only on a bidirectional stream: the acceptor writes no stanza on any other.
`Line`: of each direction, the
stanzas taken, those in the stream and those queued follow each other in the order
in which they were sent. While the opener's handler runs, the item that tells it is
in its hands and in no stream, which is what the second argument of `Lined` is for.
A session over EXTERNAL is left out of `Line`, not of `Ready`: its queue is
overtaken, as the run `s2s_order` shows. The
assumptions are that there are two different hosts and that the send queue has a
positive size.

*S2S, progress.* `NoDialbackDeadlock` speaks of states in which everything is read;
`Going` says what holds before that, while nothing has failed, no queue was full
and nothing came into a stream being reset. A connection that is not authenticated has a step of its authentication in
one of its streams, or its key is out and the question about it, or the answer, is
on a connection of the peer (`Moves`). That question waits in a queue only when the
key of the connection it asks about is out, and of two connections never does each
queue hold the question about the other (`Mutual`): a key that is out lets a
`db:verify` pass the queue at once. Nothing in flight makes anyone give up: keys of
the two servers are good, EXTERNAL is tried only where it was offered, nobody is
closing (`Peace`). So in a quiet state a waiting connection would wait for a
question in a queue, whose connection waits for a question in a queue of the first
host; a host has one session (`Routes`), so that is the first connection, and
`Mutual` excludes it. The theorem needs no assumption beyond those above; failures,
full queues and the reset are excluded by the property itself, and `NextSpilt` shows
that a step never takes their record back.

*Poll.* `EventInv` says for each back end what its own structure means: the array
of epoll events up to `processed`, the pollfd entries up to `processed` with their
`revents`, the three answer sets above the last descriptor. In each, what is left
is exactly what the history says is still due, no descriptor is listed twice, and
what is listed is what the loop registered. `Ldel` of the poll back end, which
moves the last entry down, is the case that needs the strengthening: the moved
entry must not have been passed already.

*Signals.* `SigInv` says for each of the three mechanisms where the debt of a
signal is. For the hook (`HookInv`), until one of the five named cases has happened,
it is in a C handler or in the queue, and the books balance exactly, which needs
where each handler is interrupted (`SighookPlace`): the hook is installed whenever
something is queued or a handler is past its first part. On Linux (`SignalfdInv`),
until a descriptor was closed or could not be made, it is pending, and whatever is
blocked has a descriptor or a call of `signalfd` that is about to make it. For the
fallback (`PipeInv`), until a descriptor was closed, the debt is kept for each
descriptor, so that two for one signal do not stand in for each other: what
arrived since it was made and was not read is in its pipe or in the hand of a
handler that has not written yet. That needs the table to list every open
descriptor, once and under its signal, and to have room for the one being made
(`TableInv`); a half done or failed call adds nothing to it. Signals are numbered
from 1, since 0 marks a free entry.

*Smacks.* `SmacksInv` relates the client's count to everything on the way. On the
client's connection the stanzas are those after the ones it has, in order and
without a gap (`Carries`), up to the last one routed if the session is on that
connection; no acknowledgement in flight or queued counts more than was received
(`Honest`); a request to resume is the first thing on its connection, and while it
is unanswered nothing was sent to the client, so that its count is still right
when it is read; the queue holds the newest stanzas and every older one was
acknowledged, reported or pushed out (`Booked`); only a session that is destroyed
has reported anything (`Alive`); a session that is alive owns the connection it
sends on (`Owns`). The theorem holds with waiting handlers, stanzas cut in half,
early closes and a restart, that is for both values of each `May` constant. The
handlers call one another (closing destroys, destroying hibernates or retires,
resuming takes over a connection and resends), so each has a lemma, `Right` of
its argument giving `Right` of its result, and each action one that combines
them.

The client's own stanzas need more (`SmacksUpstreamProofs`, built on `SmacksInv`).
`RegInv` is inductive when no session closes before `<enable/>`: what is registered
has a token and is alive, a live session hibernates exactly when it has no
connection, and one that is closing has given up its token. `WatchInv` holds when
handlers do not wait: an armed watchdog belongs to a hibernating session, and an
expiry that is about to be handled finds it still hibernating. `UpInv`, under the
same condition, follows the client's stanzas from one end to the other. The
stanzas on the session's connection are those after the ones counted, in order, up
to the last one the client sent; while its request to resume is unanswered there
are none (`Counted`). `<enable/>` is sent once and before them, so the server
counts from the first (`Offered`, `Enabling`). The answer to a request to resume is
the first thing on its connection and carries exactly the count (`Asked`), so what
the client then sends again is what was not counted. Every count sent or stored is
covered by what was processed, of which the counter is one ahead while a stanza is
about to be handled (`Claims`, `Up`). While client and session share a connection
the client's acknowledgements rise, from the one accepted last (`Rising`). That is
also where `HonestNotRejected` had to be stated more carefully: see "Ack behind a
refused resumption" below.

What the theorems assume says which behaviours of the code stand outside them.
`~MayWait` (handlers do not wait) is needed by `ProcessedOnceInOrder`,
`HonestNotRejected` and `ExpiresOnlyHibernating`, `~MayCut` by
`QuiescentAllCounted`, `~MayCloseEarly` by `RegisteredIsResumable`: TLC refutes each
without it, as section 5 describes.

Only model-checked:

* liveness under fairness (`StanzasSettle`, `ItemsStart`, `ExchangeEnds`);
* Posix and Crypto, whose modules have no constants, so that their runs
  are already exhaustive;
* Codec, whose functions are folds over their input, about which nothing can be
  proved for every length without induction over data.

## 5. Known departures

Where the code does not do what it says, or a property needs an assumption:

* *Watchdog lost on refusal* (finding, run `smacks_watchdog`). `do_resume` cancels
  the hibernation watchdog before it validates the request. After a refusal
  (queue overflow, impossible `h`) the session hibernates until something else
  ends it.
* *Late timeout.* The watchdog's check and the destruction it leads to are
  separated by the session's thread: with waiting handlers a session that was
  resumed in between is destroyed. `ExpiresOnlyHibernating` is checked and proved
  for handlers that do not wait.
* *Index behind the list* (finding, run `list_index`). `list_append` compares the two
  offsets only as zero or not; an index that is behind by an entry is kept.
* *Append replaces.* `append` does not look why it
  cannot open the file. With no descriptor left, for instance, `list_append` renames
  a file with its one item over the list and reports success. `AllOrNothing` excepts
  this case.
* *EXTERNAL overtakes* (finding, run `s2s_order`). Between `<success/>` and the
  features of the reopened stream, `route_to_existing_session` writes at once
  while older stanzas are still in `sendq`.
* *EXTERNAL and bidirectional streams.* The acceptor marks
  its session as connected before it resets the stream. What it routes to it then
  follows `<success/>`, the opener, which has reset its parser, takes it for an
  invalid header, closes the session and bounces its queue; what was written to
  it is lost. It takes one connection and no failure: TLC finds it when asked for
  `net.early = {}`. `OutboundOrder` says that a stanza meets this only there, and
  `NoDialbackDeadlock` speaks of runs without it.
* *Failure is not final* (finding, run `connect_final`). The parallel-attempt timer
  may ask a basic resolver that is looking its addresses up for them a second
  time. The second answer starts an attempt after `onfail`.
* *Stale ack.* With waiting handlers an `<a/>` may still be queued when a resume
  request with a higher `h` overtakes it; it is then "less than already
  acknowledged" and the resumed stream is closed. `HonestNotRejected` is therefore
  checked and proved for handlers that do not wait.
* *Counting while a handler waits.* Stanzas are counted when they are parsed, by a
  filter that `<enable/>` installs when the session's thread gets to it. If
  `<enable/>` is queued behind a stanza whose handler waits, what was read with it
  is not counted; the client counts it, sends it again after a resumption, and it
  is processed twice. A count may also be sent for a stanza that is still queued.
  `ProcessedOnceInOrder` and `ClaimedMeansProcessed` are therefore checked and proved
  for handlers that do not wait.
* *Ack behind a refused resumption.* `do_resume` acknowledges the `h` of the request
  before it refuses it for an overflow of the queue. An `<a/>` the client sent
  before, and that is still unread on the connection it has left, is then "less
  than already acknowledged" and that stream is closed with an error. It takes
  three stanzas, a queue of one and a client that acknowledges on its own; it came
  out of the proof. Nobody reads that error, so `HonestNotRejected` speaks of
  clients that are still on the session's connection.
* *Half a stanza.* `session.data` keeps the parser of the first connection. If
  that broke in the middle of a stanza, the resumed session's input goes into the
  rest of it. `QuiescentAllCounted` is checked with connections that break between
  stanzas; `smacks_wait` shows that what is delivered is still right.
* *Clean close before `<enable/>`.* A clean close leaves the session time for the
  client to answer; an `<enable/>` that arrives in this time registers a token,
  and the grace timer then hibernates the session. `MayCloseEarly` is off in the
  runs that check `RegisteredIsResumable`.
* *Full queue and `db:verify`.* When `sendq` is full, a `db:verify` cannot be
  refused to anybody: the reply to its sender raises an error and the request is
  lost. `NoDialbackDeadlock` excludes a full queue; the timeouts of both sides
  then end the attempt.
* *Presence after pre-approval.* An inbound `unsubscribe` is not answered with
  unavailable presence, and a request that is granted by pre-approval is answered
  with the presence of available resources only. A user who unsubscribes from a
  contact that is online and asks again when it is offline may keep taking it for
  online. `PresenceKnown`, a part of `QuietMeansAgreed`, leaves out the users a grant by
  an offline contact told nothing (`unheard`); the shortest case takes seven
  requests, and came out of the proof.
* *ringbuffer.* `find` takes `rpos == wpos` for an empty buffer, so nothing is
  found in one that is full to the last byte. For a needle longer than the content
  its unsigned bound wraps; the scan leaves the content, but `rb_readuntil` hands
  out nothing that is not stored.
* *poll.* The epoll back end keeps events of descriptors that were unregistered
  since; the loop drops those it no longer knows, but one whose number was reused
  in the same turn gets an event of its predecessor. After an interrupted wait the
  select back end reports wanted descriptors as ready. `fd > FD_SETSIZE` should be
  `>=`; the model's descriptors are below it. `PollerMatchesLoop` leaves the first
  two out.
* *signal.* A signal between the end of `sighook`'s loop and `nsig = 0` is lost. A
  Lua handler that raises leaves `nsig` above zero with the hook gone, and no later
  signal installs it again. Two first signals that interrupt each other save
  `sighook` as the hook to restore; an interrupted store overwrites an entry. The
  fallback's close searches the table from 1 although it is filled from 0. A signal
  that arrives between the installing of `signal2fd` and the table entry finds no
  entry and is lost; after a failing `pipe()` so is every later one, since the handler
  stays installed. On Linux a closed signalfd, or one that could not be made, leaves
  its signal blocked. `HookKeepsSignals` and
  `DescriptorKeepsSignals` say what holds outside these cases.
* *Item lists.* A crash inside `list_store` of nothing leaves an empty list file;
  the index built from it is only the magic number, on which the second
  `list_open` raises. A write the process died in leaves a fragment that makes the
  list unloadable. A failing `close` reports failure although the item is stored.
* *pposix.* When the second fork fails, the child exits with 0 after success was
  reported. The comment at line 505 says a negative limit is replaced by the
  current one; a negative number is passed on. The table of syslog facilities is shifted by one
  at `LOG_NEWS`. `write_pidfile` lets go of the lock between looking and writing.
* *encodings.* A NUL ends base64 decoding without an error, and a last group
  without padding is dropped.
* *crypto, hashes.* `hkdf` never frees its context; `build_ecdsa_signature` makes
  its object before it checks its arguments; a key made by `generate_p256` is
  tagged with a type that the ECDSA functions do not accept; when Lua runs out of
  memory `push_pkey` and `public_raw` leave objects behind. `generate_ed25519_keypair`
  does not look at any of its calls and may hand out a key without an EVP_PKEY, on
  which the methods of a key then work; `verify` and `build_ecdsa_signature` do not
  look whether their object could be made. `ReleasedOnce` excepts the first two from
  what is freed, these three from what is used, and says that there are no others.
  In CTR mode nothing is verified, there being no tag.

## 6. Order of work, and what would come next

The streams came first (Smacks, S2S, Roster, Async and what they rest on), then
the C libraries. What the models do not reach yet, most valuable first:

1. the connections of `net.server_epoll` (writes, pause, close after drain);
2. `mod_muc`, with the abstract room that occupants can reconstruct from what they
   were told;
3. `mod_bosh`: rids, held requests, retransmission and inactivity;
4. `core.modulemanager` with `util.events`, `util.pubsub`, message delivery.

## 7. Not modelled

TLS and certificate policy (abstracted to whether a certificate is accepted),
stream negotiation before authentication, XML and text formats, what OpenSSL
computes, stringprep and IDNA (calls of ICU or libidn), stores that fail (Roster,
Smacks), several resources per user and priorities (Roster), several domains per
stream and stanza size limits (S2S), the s2s half of stream management and the
trimming of old sessions (Smacks), errors raised inside a guarded function (Async),
syslog, resource limits and the other single system calls of `pposix`, and the
vendored `struct.c`. `net.c`, `time.c`, `crand.c`, `windows.c` and `compat.c` are
thin bindings without state. The other parts are listed with their reasons in
`PROJECT.json`.
