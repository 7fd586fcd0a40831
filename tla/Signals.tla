------------------------------ MODULE Signals -------------------------------
(***************************************************************************)
(* util-src/signal.c: three ways to get a Unix signal into Lua code.       *)
(*  "hook"      signal(): the C handler queues the number and installs a   *)
(*              debug hook, which runs the Lua handlers between two        *)
(*              instructions;                                              *)
(*  "signalfd"  the kernel keeps the blocked signal until a descriptor is  *)
(*              read (Linux);                                              *)
(*  "pipe"      the fallback for signalfd: the C handler writes the number *)
(*              to a pipe.                                                 *)
(* C handlers interrupt the main program anywhere, and each other.  A      *)
(* signal with its default disposition ends the process and is left out.   *)
(***************************************************************************)
EXTENDS Integers, Sequences, FiniteSets

CONSTANTS Sig,         \* signal numbers
          MaxPending,  \* MAX_PENDING_SIGNALS
          MaxSfd,      \* descriptors open at a time, MAX_SIGNALFD
          MaxArrive    \* bound on the signals that arrive

ASSUME SignalBounds == MaxPending \in Nat \ {0} /\ MaxSfd \in Nat \ {0} /\ MaxArrive \in Nat
ASSUME SignalNumbers == Sig \subseteq Nat \ {0}

VARIABLES
  mode,      \* how the program receives its signals
  handler,   \* signals with a Lua handler, caught or blocked for a descriptor
  nsig, signals, hook, Hsig,
  frames,    \* the C handlers that are running, innermost last
  lua,       \* "run", or in sighook: "loop", "reset" (before nsig = 0)
  i,         \* sighook's loop index
  opening,   \* the signal l_signalfd is at work on, 0 when it is not running
  sfd,       \* open signal descriptors: descriptor -> signal, 0 when closed
  signalfds, signalfd_num,
  pipe,      \* the numbers in each descriptor's pipe
  pending,   \* signals the kernel holds back because they are blocked
  owed,      \* history: arrivals of each signal that Lua has not seen yet
  unread,       \* history: arrivals since each pipe was handed out, not read from it
  arrivals,
  excuse     \* history: the known ways to lose one that have happened

hookVars == <<handler, nsig, signals, hook, Hsig, lua, i>>
fdVars   == <<opening, sfd, signalfds, signalfd_num, pipe, pending, unread>>
sigVars  == <<mode, hookVars, frames, fdVars, owed, arrivals, excuse>>

FdNum == 1..MaxSfd
NoEntry == [fd |-> 0, sig |-> 0]   \* static storage: all zero

SigInit ==
  /\ mode \in {"hook", "signalfd", "pipe"}
  /\ handler = {} /\ nsig = 0 /\ hook = "old" /\ Hsig = "old"
  /\ signals = [k \in 0..(MaxPending - 1) |-> 0]
  /\ frames = <<>> /\ lua = "run" /\ i = 0
  /\ opening = 0 /\ sfd = [d \in FdNum |-> 0]
  /\ signalfds = [k \in 0..MaxSfd |-> NoEntry] /\ signalfd_num = 0
  /\ pipe = [d \in FdNum |-> <<>>]
  /\ pending = {}
  /\ owed = [s \in Sig |-> 0] /\ unread = [d \in FdNum |-> 0] /\ arrivals = 0 /\ excuse = {}

(* The main program runs only while no C handler does. *)
Running == frames = <<>>
-----------------------------------------------------------------------------
(* signal(sig, func) and signal(sig, nil), from Lua code, which runs in    *)
(* handlers too.                                                           *)
l_signal(s) ==
  /\ mode = "hook" /\ Running
  /\ handler' = IF s \in handler THEN handler \ {s} ELSE handler \cup {s}
  /\ UNCHANGED <<mode, nsig, signals, hook, Hsig, lua, i, frames, fdVars, owed, arrivals, excuse>>

(* The kernel: a signal for which handle or signal2fd is installed         *)
(* interrupts whatever runs, except its own handler; one blocked for a     *)
(* signalfd stays pending, once.                                           *)
Arrive(s) ==
  /\ arrivals < MaxArrive
  /\ arrivals' = arrivals + 1
  /\ \A f \in DOMAIN frames : frames[f].sig # s
  /\ s \in handler
  /\ \/ /\ mode = "hook"
        /\ frames' = Append(frames, [sig |-> s, idx |-> 0, pc |-> "hook"])
        /\ owed' = [owed EXCEPT ![s] = @ + 1]
        /\ UNCHANGED <<pending, unread>>
     \/ /\ mode = "pipe"
        /\ frames' = Append(frames, [sig |-> s, idx |-> 0, pc |-> "write"])
        /\ unread' = [d \in FdNum |-> IF sfd[d] = s THEN unread[d] + 1 ELSE unread[d]]
        /\ UNCHANGED <<pending, owed>>
     \/ /\ mode = "signalfd"
        /\ pending' = pending \cup {s}
        /\ owed' = [owed EXCEPT ![s] = 1]
        /\ UNCHANGED <<frames, unread>>
  /\ UNCHANGED <<mode, hookVars, opening, sfd, signalfds, signalfd_num, pipe, excuse>>

Top == frames[Len(frames)]
Return == SubSeq(frames, 1, Len(frames) - 1)
At(pc) == frames # <<>> /\ Top.pc = pc
Goto(pc, idx) == frames' = [frames EXCEPT ![Len(frames)] = [sig |-> Top.sig, pc |-> pc, idx |-> idx]]

(* handle, first part: with an empty queue ...                             *)
HandleHook ==
  /\ At("hook")
  /\ IF nsig = 0 THEN Goto("save", 0) ELSE Goto("queue", 0)
  /\ UNCHANGED <<mode, hookVars, fdVars, owed, arrivals, excuse>>

(* ... the present hook is saved ...                                       *)
HandleSave ==
  /\ At("save") /\ Goto("install", 0)
  /\ Hsig' = hook
  /\ excuse' = IF hook = "sighook" THEN excuse \cup {"resaved"} ELSE excuse
  /\ UNCHANGED <<mode, handler, nsig, signals, hook, lua, i, fdVars, owed, arrivals>>

(* ... and sighook installed.                                              *)
HandleInstall ==
  /\ At("install") /\ Goto("queue", 0)
  /\ hook' = "sighook"
  /\ UNCHANGED <<mode, handler, nsig, signals, Hsig, lua, i, fdVars, owed, arrivals, excuse>>

(* handle, second part: nsig is read ...                                   *)
HandleQueue ==
  /\ At("queue")
  /\ \/ nsig < MaxPending /\ Goto("store", nsig) /\ UNCHANGED excuse
     \/ nsig >= MaxPending /\ frames' = Return /\ excuse' = excuse \cup {"full"}
  /\ UNCHANGED <<mode, hookVars, fdVars, owed, arrivals>>

(* ... and written back with the number, over whatever a handler that      *)
(* interrupted in between has queued.                                      *)
HandleStore ==
  /\ At("store")
  /\ signals' = [signals EXCEPT ![Top.idx] = Top.sig]
  /\ nsig' = Top.idx + 1
  /\ frames' = Return
  /\ excuse' = excuse \cup (IF nsig # Top.idx THEN {"nested"} ELSE {})
                     \cup (IF lua = "reset" THEN {"window"} ELSE {})
  /\ UNCHANGED <<mode, handler, hook, Hsig, lua, i, fdVars, owed, arrivals>>

(* The hook fires: it puts the saved hook back and starts its loop. *)
SighookStart ==
  /\ Running /\ lua = "run" /\ hook = "sighook"
  /\ hook' = Hsig
  /\ lua' = "loop"
  /\ i' = 0
  /\ UNCHANGED <<mode, handler, nsig, signals, Hsig, frames, fdVars, owed, arrivals, excuse>>

(* One turn: the Lua handler returns; or it raises an error, or has been   *)
(* removed, and the error leaves sighook with nsig as it is.               *)
SighookCall ==
  /\ Running /\ lua = "loop" /\ i < nsig
  /\ \/ /\ signals[i] \in handler
        /\ owed' = [owed EXCEPT ![signals[i]] = IF @ > 0 THEN @ - 1 ELSE 0]
        /\ i' = i + 1
        /\ UNCHANGED <<lua, excuse>>
     \/ /\ lua' = "run"
        /\ excuse' = excuse \cup {"raised"}
        /\ UNCHANGED <<owed, i>>
  /\ UNCHANGED <<mode, handler, nsig, signals, hook, Hsig, frames, fdVars, arrivals>>

(* Mutant: the loop runs to the number that was queued when it started. *)
SighookEnd_early ==
  /\ Running /\ lua = "loop" /\ i >= 1
  /\ lua' = "reset"
  /\ UNCHANGED <<mode, handler, nsig, signals, hook, Hsig, i, frames, fdVars, owed, arrivals, excuse>>

SighookEnd ==
  /\ Running /\ lua = "loop" /\ i >= nsig
  /\ lua' = "reset"
  /\ UNCHANGED <<mode, handler, nsig, signals, hook, Hsig, i, frames, fdVars, owed, arrivals, excuse>>

SighookReset ==
  /\ Running /\ lua = "reset"
  /\ nsig' = 0
  /\ lua' = "run"
  /\ i' = 0
  /\ UNCHANGED <<mode, handler, signals, hook, Hsig, frames, fdVars, owed, arrivals, excuse>>
-----------------------------------------------------------------------------
(* signalfd(sig) first blocks the signal, or catches it with signal2fd,    *)
(* which stays so whatever follows ...                                     *)
l_signalfd(s) ==
  /\ mode \in {"signalfd", "pipe"} /\ Running /\ opening = 0
  /\ mode = "pipe" => signalfd_num < MaxSfd
  /\ opening' = s /\ handler' = handler \cup {s}
  /\ UNCHANGED <<mode, nsig, signals, hook, Hsig, lua, i, frames>>
  /\ UNCHANGED <<sfd, signalfds, signalfd_num, pipe, pending, unread, owed, arrivals, excuse>>

(* ... then signalfd() or pipe() gives the lowest free descriptor, which   *)
(* the fallback enters into its table, or fails.  A signal2fd that runs    *)
(* before the entry is made drops its signal, and so does every later one  *)
(* after a failure when no other descriptor is for the signal.             *)
l_signalfd_open ==
  /\ opening # 0 /\ Running /\ opening' = 0
  /\ \/ \E d \in FdNum :
          /\ sfd[d] = 0
          /\ \A c \in 1..(d - 1) : sfd[c] # 0
          /\ sfd' = [sfd EXCEPT ![d] = opening]
          /\ IF mode = "pipe"
             THEN /\ signalfds' = [signalfds EXCEPT ![signalfd_num] = [fd |-> d, sig |-> opening]]
                  /\ signalfd_num' = signalfd_num + 1
                  /\ pipe' = [pipe EXCEPT ![d] = <<>>]
             ELSE UNCHANGED <<signalfds, signalfd_num, pipe>>
          /\ UNCHANGED excuse
     \/ /\ excuse' = excuse \cup {"failed"}
        /\ UNCHANGED <<sfd, signalfds, signalfd_num, pipe>>
  /\ UNCHANGED <<mode, hookVars, frames, pending, unread, owed, arrivals>>

(* Entries of the table for descriptor d and signal s. *)
Entries(d, s) == {k \in 0..(signalfd_num - 1) : signalfds[k] = [fd |-> d, sig |-> s]}

(* Mutant: only the newest entry is looked at. *)
signal2fd_last ==
  /\ At("write")
  /\ frames' = Return
  /\ pipe' = [d \in FdNum |->
                IF signalfd_num > 0 /\ signalfds[signalfd_num - 1] = [fd |-> d, sig |-> Top.sig]
                THEN Append(pipe[d], Top.sig) ELSE pipe[d]]
  /\ UNCHANGED <<mode, hookVars, opening, sfd, signalfds, signalfd_num, pending, unread, owed, arrivals, excuse>>

(* The number is written for every entry of the table for it; a write to a *)
(* descriptor that has been closed fails, one that was reused succeeds.    *)
signal2fd ==
  /\ At("write")
  /\ frames' = Return
  /\ pipe' = [d \in FdNum |->
                IF sfd[d] = 0 THEN pipe[d]
                ELSE pipe[d] \o [n \in 1..Cardinality(Entries(d, Top.sig)) |-> Top.sig]]
  /\ UNCHANGED <<mode, hookVars, opening, sfd, signalfds, signalfd_num, pending, unread, owed, arrivals, excuse>>

(* The loop reads a descriptor that has something and runs the callback. *)
l_signalfd_read(d) ==
  /\ Running /\ opening = 0
  /\ \/ /\ mode = "pipe" /\ sfd[d] # 0 /\ pipe[d] # <<>>
        /\ pipe' = [pipe EXCEPT ![d] = Tail(@)]
        /\ unread' = [unread EXCEPT ![d] = @ - 1]
        /\ UNCHANGED <<pending, owed>>
     \/ /\ mode = "signalfd" /\ sfd[d] \in pending
        /\ pending' = pending \ {sfd[d]}
        /\ owed' = [owed EXCEPT ![sfd[d]] = 0]
        /\ UNCHANGED <<pipe, unread>>
  /\ UNCHANGED <<mode, hookVars, frames, opening, sfd, signalfds, signalfd_num, arrivals, excuse>>

(* close(), also the finaliser.  On Linux the signal stays blocked.  The   *)
(* fallback searches its table from index signalfd_num down to 1 and fills *)
(* the gap from index signalfd_num.                                        *)
l_signalfd_close(d) ==
  /\ Running /\ opening = 0 /\ sfd[d] # 0
  /\ sfd' = [sfd EXCEPT ![d] = 0]
  /\ excuse' = excuse \cup {"closed"}
  /\ pipe' = [pipe EXCEPT ![d] = <<>>] /\ unread' = [unread EXCEPT ![d] = 0]
  /\ LET hit == {k \in 1..signalfd_num : signalfds[k].fd = d}
     IN IF mode = "pipe" /\ hit # {}
        THEN /\ signalfds' = [k \in DOMAIN signalfds |->
                                IF k \in hit THEN signalfds[signalfd_num] ELSE signalfds[k]]
             /\ signalfd_num' = signalfd_num - 1
        ELSE UNCHANGED <<signalfds, signalfd_num>>
  /\ UNCHANGED <<mode, hookVars, frames, opening, pending, owed, arrivals>>

SigNext ==
  \/ \E s \in Sig : l_signal(s) \/ Arrive(s) \/ l_signalfd(s)
  \/ HandleHook \/ HandleSave \/ HandleInstall \/ HandleQueue \/ HandleStore
  \/ SighookStart \/ SighookCall \/ SighookEnd \/ SighookReset
  \/ l_signalfd_open \/ signal2fd
  \/ \E d \in FdNum : l_signalfd_read(d) \/ l_signalfd_close(d)

SigSpec == SigInit /\ [][SigNext]_sigVars
-----------------------------------------------------------------------------
(* Entries of the queue for s that sighook has not got to. *)
Queued(s) == Cardinality({k \in 0..(nsig - 1) : k >= i /\ signals[k] = s})

(* Running C handlers that have s in hand. *)
InHand(s) == Cardinality({f \in DOMAIN frames : frames[f].sig = s})

(* Handlers of signal(): however C handlers interrupt the program, sighook *)
(* and each other, every signal not yet seen by Lua is in the queue or in  *)
(* a C handler exactly once, and while the queue is not empty sighook is   *)
(* running or installed; afterwards the program's own hook is back.  The   *)
(* exceptions are the ones the code cannot help: a full queue, a handler   *)
(* that raised, an interrupted store, an arrival between the loop and      *)
(* nsig = 0, and a first signal interrupted before it is queued.           *)
HookKeepsSignals ==
  mode = "hook" /\ excuse = {} =>
    /\ \A s \in Sig : owed[s] = Queued(s) + InHand(s)
    /\ lua = "run" /\ nsig > 0 => hook = "sighook"
    /\ lua = "run" /\ nsig = 0 /\ Running => hook = "old"

(* Descriptors.  On Linux a signal Lua has not seen waits in the kernel    *)
(* from the moment it is blocked, and there is a descriptor that reads it  *)
(* or l_signalfd is about to make it, unless one was closed or not made.   *)
(* The fallback gives every descriptor its own copy, once: what arrived    *)
(* since the descriptor was handed out and has not been read from it is in *)
(* its pipe or in the hand of a C handler that will write to it, whatever  *)
(* other descriptors there are for the same or another signal, read or     *)
(* not, and whatever signalfd() calls are running or have failed; until a  *)
(* close.  (A signal that arrives before the table has an entry is due to  *)
(* no descriptor: it is lost.)                                             *)
DescriptorKeepsSignals ==
  /\ mode = "signalfd" /\ excuse = {} => \A s \in Sig :
       /\ owed[s] = 1 <=> s \in pending
       /\ s \in pending => opening = s \/ \E d \in FdNum : sfd[d] = s
  /\ mode = "pipe" /\ "closed" \notin excuse =>
       \A d \in FdNum : sfd[d] # 0 => unread[d] = Len(pipe[d]) + InHand(sfd[d])
=============================================================================
