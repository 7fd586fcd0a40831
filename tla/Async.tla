-------------------------------- MODULE Async ---------------------------------
(***************************************************************************)
(* util/async.lua: runners, each a queue of work items fed to a coroutine, *)
(* waiters that suspend an item until done() has been called often enough, *)
(* and one guard that admits one item at a time.                           *)
(*                                                                         *)
(* Everything happens on one thread, but calls nest: run() and             *)
(* runner_continue() resume a coroutine, whose item may call run(), done() *)
(* or leave the guard, resuming another.  stack holds these activations;   *)
(* only the coroutine of the last one executes.  With an empty stack the   *)
(* event loop delivers timers (ticks), completions and new work.           *)
(***************************************************************************)
EXTENDS Integers, Sequences

CONSTANTS Runner,
          MaxItems,   \* bound: work items given to each runner
          MaxNum,     \* bound: the number of done() calls a waiter needs
          MayFail     \* a work item may raise an error (outside the guard)

ASSUME AsyncAssumption == MaxItems \in Nat /\ MaxNum \in Nat \ {0} /\ MayFail \in BOOLEAN

VARIABLES
  state,     \* state[r]: runner.state
  queue,     \* queue[r]: runner.queue, items numbered in the order given
  co,        \* co[r]: the coroutine: "idle", "live" (on the stack), "wait"
  given,     \* given[r]: how many items run() and enqueue() were given
  begun,     \* begun[r]: how many items have been started
  num,       \* num[r]: done() calls the item's waiter still needs, -1 for no waiter
  where,     \* where[r]: the item is "out" of the guard, "queued" for it or "in" it
  gqueue,    \* the runners waiting for the guard
  guarded,   \* guards[id] is set
  stack,     \* activations [r, kind], kind "run" or "cont"
  ticks,     \* functions passed to next_tick, by the runner they are for
  strays     \* wake-ups that found no suspended thread

vars == <<state, queue, co, given, begun, num, where, gqueue, guarded, stack, ticks, strays>>

work == <<given, begun, queue>>
guard == <<where, gqueue, guarded>>

AsyncInit ==
  /\ state = [r \in Runner |-> "ready"]
  /\ queue = [r \in Runner |-> <<>>]
  /\ co = [r \in Runner |-> "idle"]
  /\ given = [r \in Runner |-> 0]
  /\ begun = [r \in Runner |-> 0]
  /\ num = [r \in Runner |-> -1]
  /\ where = [r \in Runner |-> "out"]
  /\ gqueue = <<>>
  /\ guarded = FALSE
  /\ stack = <<>>
  /\ ticks = <<>>
  /\ strays = 0

Front(s) == SubSeq(s, 1, Len(s) - 1)
Top == stack[Len(stack)]
Running(r) == stack # <<>> /\ Top.r = r
-----------------------------------------------------------------------------
(* Mutant: a runner that waits is taken for ready. *)
StartRun_busy(r, q, below) ==
  IF state[r] # "running" /\ q # <<>>
    THEN /\ state' = [state EXCEPT ![r] = "running"]
         /\ co' = [co EXCEPT ![r] = "live"]
         /\ begun' = [begun EXCEPT ![r] = @ + 1]
         /\ queue' = [queue EXCEPT ![r] = Tail(q)]
         /\ stack' = Append(below, [r |-> r, kind |-> "run"])
    ELSE /\ queue' = [queue EXCEPT ![r] = q]
         /\ stack' = below
         /\ UNCHANGED <<state, co, begun>>

(* Mutant: a busy runner does not keep the item. *)
StartRun_drop(r, q, below) ==
  IF state[r] = "ready" /\ q # <<>>
    THEN /\ state' = [state EXCEPT ![r] = "running"]
         /\ co' = [co EXCEPT ![r] = "live"]
         /\ begun' = [begun EXCEPT ![r] = @ + 1]
         /\ queue' = [queue EXCEPT ![r] = Tail(q)]
         /\ stack' = Append(below, [r |-> r, kind |-> "run"])
    ELSE /\ stack' = below
         /\ UNCHANGED <<queue, state, co, begun>>

(* run() with queue q when the stack is below: a busy runner leaves the    *)
(* item queued, a ready one starts on its first item.                      *)
StartRun(r, q, below) ==
  IF state[r] = "ready" /\ q # <<>>
    THEN /\ state' = [state EXCEPT ![r] = "running"]
         /\ co' = [co EXCEPT ![r] = "live"]
         /\ begun' = [begun EXCEPT ![r] = @ + 1]
         /\ queue' = [queue EXCEPT ![r] = Tail(q)]
         /\ stack' = Append(below, [r |-> r, kind |-> "run"])
    ELSE /\ queue' = [queue EXCEPT ![r] = q]
         /\ stack' = below
         /\ UNCHANGED <<state, co, begun>>

(* run(item), from the event loop or from an item of any runner. *)
run(r) ==
  /\ given[r] < MaxItems
  /\ given' = [given EXCEPT ![r] = @ + 1]
  /\ StartRun(r, Append(queue[r], given[r] + 1), stack)
  /\ UNCHANGED <<num, guard, ticks, strays>>

(* enqueue(item): not run until something else calls run(). *)
enqueue(r) ==
  /\ given[r] < MaxItems
  /\ given' = [given EXCEPT ![r] = @ + 1]
  /\ queue' = [queue EXCEPT ![r] = Append(@, given[r] + 1)]
  /\ UNCHANGED <<state, co, begun, num, guard, stack, ticks, strays>>

(* next_tick's function for a runner whose item completed after waiting. *)
tick ==
  LET r == Head(ticks)
  IN /\ stack = <<>> /\ ticks # <<>>
     /\ ticks' = Tail(ticks)
     /\ IF queue[r] # <<>>
          THEN /\ state' = [state EXCEPT ![r] = "running"]
               /\ co' = [co EXCEPT ![r] = "live"]
               /\ begun' = [begun EXCEPT ![r] = @ + 1]
               /\ queue' = [queue EXCEPT ![r] = Tail(@)]
               /\ stack' = <<[r |-> r, kind |-> "run"]>>
          ELSE /\ state' = [state EXCEPT ![r] = "ready"]
               /\ UNCHANGED <<co, begun, queue, stack>>
     /\ UNCHANGED <<given, num, guard, strays>>

(* runner_continue(thread): resumes a suspended coroutine.  An idle one is *)
(* suspended too, so a stray wake-up would hand it no item.                *)
runner_continue(r, below) ==
  IF co[r] = "wait"
    THEN /\ co' = [co EXCEPT ![r] = "live"]
         /\ stack' = Append(below, [r |-> r, kind |-> "cont"])
         /\ UNCHANGED strays
    ELSE /\ strays' = 1
         /\ stack' = below
         /\ UNCHANGED co
-----------------------------------------------------------------------------
(* Steps of the item on top of the stack. *)

(* Mutant: leaves the runner waiting for good. *)
continued_noloop(r) ==
  /\ co' = [co EXCEPT ![r] = "idle"]
  /\ stack' = Front(stack)
  /\ UNCHANGED <<ticks, state, queue, begun>>

(* The item returns to runner_continue(), which has next_tick resume the   *)
(* runner's loop.                                                          *)
continued(r) ==
  /\ ticks' = Append(ticks, r)
  /\ co' = [co EXCEPT ![r] = "idle"]
  /\ stack' = Front(stack)
  /\ UNCHANGED <<state, queue, begun>>

(* The item returns.  Under run() the next queued item follows; after a    *)
(* wait the runner stays "waiting" until the next tick.                    *)
complete(r) ==
  /\ Running(r) /\ where[r] = "out" /\ num[r] \in {-1, 0}
  /\ num' = [num EXCEPT ![r] = -1]
  /\ IF Top.kind = "run"
       THEN /\ ticks' = ticks
            /\ IF queue[r] # <<>>
                 THEN /\ queue' = [queue EXCEPT ![r] = Tail(@)]
                      /\ begun' = [begun EXCEPT ![r] = @ + 1]
                      /\ UNCHANGED <<state, co, stack>>
                 ELSE /\ state' = [state EXCEPT ![r] = "ready"]
                      /\ co' = [co EXCEPT ![r] = "idle"]
                      /\ stack' = Front(stack)
                      /\ UNCHANGED <<queue, begun>>
       ELSE continued(r)
  /\ UNCHANGED <<given, guard, strays>>

(* The item raises an error: the error watcher is told, and the remaining  *)
(* items run in a new coroutine at once, also after a wait.                *)
fail(r) ==
  /\ MayFail /\ Running(r) /\ where[r] = "out" /\ num[r] \in {-1, 0}
  /\ num' = [num EXCEPT ![r] = -1]
  /\ IF queue[r] # <<>>
       THEN /\ queue' = [queue EXCEPT ![r] = Tail(@)]
            /\ begun' = [begun EXCEPT ![r] = @ + 1]
            /\ state' = [state EXCEPT ![r] = "running"]
            /\ stack' = Append(Front(stack), [r |-> r, kind |-> "run"])
            /\ UNCHANGED co
       ELSE /\ state' = [state EXCEPT ![r] = "ready"]
            /\ co' = [co EXCEPT ![r] = "idle"]
            /\ stack' = Front(stack)
            /\ UNCHANGED <<queue, begun>>
  /\ UNCHANGED <<given, guard, ticks, strays>>

(* The coroutine yields "wait": run() then marks the runner as waiting,    *)
(* runner_continue() leaves it so.                                         *)
Suspend(r) ==
  /\ co' = [co EXCEPT ![r] = "wait"]
  /\ state' = [state EXCEPT ![r] = "waiting"]
  /\ stack' = Front(stack)

(* waiter(n) *)
waiter(r, n) ==
  /\ Running(r) /\ num[r] = -1
  /\ num' = [num EXCEPT ![r] = n]
  /\ UNCHANGED <<state, co, work, guard, stack, ticks, strays>>

(* wait(): returns at once when every done() has already been called. *)
wait(r) ==
  /\ Running(r) /\ num[r] >= 0
  /\ IF num[r] = 0
       THEN num' = [num EXCEPT ![r] = -1] /\ UNCHANGED <<state, co, stack>>
       ELSE Suspend(r) /\ UNCHANGED num
  /\ UNCHANGED <<work, guard, ticks, strays>>

(* done(), called by anybody.  The last call resumes the item if it is     *)
(* waiting for it, inside the caller.                                      *)
done(r) ==
  /\ num[r] > 0
  /\ num' = [num EXCEPT ![r] = @ - 1]
  /\ IF num[r] = 1 /\ co[r] = "wait"
       THEN runner_continue(r, stack)
       ELSE UNCHANGED <<co, stack, strays>>
  /\ UNCHANGED <<state, work, guard, ticks>>

(* Mutant: lets the item in although the guard is set. *)
guard_enter_free(r) ==
  /\ Running(r) /\ where[r] = "out" /\ num[r] = -1
  /\ where' = [where EXCEPT ![r] = "in"]
  /\ guarded' = TRUE
  /\ UNCHANGED <<gqueue, state, co, stack, num, work, ticks, strays>>

(* guard(id): the first item enters, the others wait in line. *)
guard_enter(r) ==
  /\ Running(r) /\ where[r] = "out" /\ num[r] = -1
  /\ IF ~guarded
       THEN /\ guarded' = TRUE
            /\ where' = [where EXCEPT ![r] = "in"]
            /\ UNCHANGED <<gqueue, state, co, stack>>
       ELSE /\ where' = [where EXCEPT ![r] = "queued"]
            /\ gqueue' = Append(gqueue, r)
            /\ Suspend(r)
            /\ UNCHANGED guarded
  /\ UNCHANGED <<num, work, ticks, strays>>

(* Mutant: takes the guard off duty although others are in line. *)
guard_exit_off(r) ==
  /\ Running(r) /\ where[r] = "in" /\ num[r] = -1
  /\ where' = [where EXCEPT ![r] = "out"]
  /\ guarded' = FALSE
  /\ UNCHANGED <<gqueue, co, stack, strays, state, num, work, ticks>>

(* exit(): the next in line runs inside this call, or the guard goes off   *)
(* duty.                                                                   *)
guard_exit(r) ==
  /\ Running(r) /\ where[r] = "in" /\ num[r] = -1
  /\ IF gqueue # <<>>
       THEN /\ where' = [where EXCEPT ![r] = "out", ![Head(gqueue)] = "in"]
            /\ gqueue' = Tail(gqueue)
            /\ runner_continue(Head(gqueue), stack)
            /\ UNCHANGED guarded
       ELSE /\ where' = [where EXCEPT ![r] = "out"]
            /\ guarded' = FALSE
            /\ UNCHANGED <<gqueue, co, stack, strays>>
  /\ UNCHANGED <<state, num, work, ticks>>

Step(r) ==
  \/ complete(r) \/ fail(r) \/ wait(r) \/ guard_enter(r) \/ guard_exit(r)
  \/ \E n \in 1..MaxNum : waiter(r, n)

Next ==
  \/ tick
  \/ \E r \in Runner : run(r) \/ enqueue(r) \/ done(r) \/ Step(r)

Spec == AsyncInit /\ [][Next]_vars

(* The event loop delivers ticks, what an item waits for happens, and an   *)
(* item that can return or leave the guard again and again finally does.   *)
FairSpec ==
  /\ Spec /\ WF_vars(tick)
  /\ \A r \in Runner : /\ WF_vars(done(r)) /\ WF_vars(wait(r))
                       /\ SF_vars(complete(r)) /\ SF_vars(guard_exit(r))
-----------------------------------------------------------------------------
Frame == [r : Runner, kind : {"run", "cont"}]

TypeOK ==
  /\ state \in [Runner -> {"ready", "running", "waiting"}]
  /\ queue \in [Runner -> Seq(1..MaxItems)]
  /\ co \in [Runner -> {"idle", "live", "wait"}]
  /\ given \in [Runner -> 0..MaxItems] /\ begun \in [Runner -> 0..MaxItems]
  /\ num \in [Runner -> -1..MaxNum]
  /\ where \in [Runner -> {"out", "queued", "in"}]
  /\ gqueue \in Seq(Runner)
  /\ guarded \in BOOLEAN
  /\ stack \in Seq(Frame)
  /\ ticks \in Seq(Runner)
  /\ strays \in 0..1

(* A coroutine is never resumed while it is already active further down    *)
(* the stack, however run(), done() and exit() nest.                       *)
NoReentry == \A i, j \in DOMAIN stack : stack[i].r = stack[j].r => i = j

(* runner.state tells the truth about the coroutine: a runner that claims  *)
(* to be ready has an idle coroutine and nothing on the stack or in        *)
(* next_tick, one that waits is suspended, being continued or about to be  *)
(* made ready (runner_continue: "ASSUMPTION: runner is in 'waiting' state").*)
StateMatches ==
  \A r \in Runner :
    /\ state[r] = "ready" => co[r] = "idle" /\ \A i \in DOMAIN ticks : ticks[i] # r
    /\ co[r] = "live" <=> \E i \in DOMAIN stack : stack[i].r = r
    /\ co[r] = "wait" => state[r] = "waiting"
    /\ \A i \in DOMAIN stack : stack[i].r = r =>
         state[r] = IF stack[i].kind = "run" THEN "running" ELSE "waiting"

RunnerInv == TypeOK /\ NoReentry /\ StateMatches

(* Every item is started once, in the order it was given: queue holds the  *)
(* items not yet begun, none skipped.                                      *)
ItemsOnceInOrder ==
  \A r \in Runner :
    /\ Len(queue[r]) = given[r] - begun[r]
    /\ \A i \in DOMAIN queue[r] : queue[r][i] = begun[r] + i

(* One item is inside the guard at a time, although exit() runs the next   *)
(* one before it returns, and everyone in line is suspended.               *)
GuardExclusive ==
  /\ \A r, s \in Runner : where[r] = "in" /\ where[s] = "in" => r = s
  /\ (\E r \in Runner : where[r] = "in") <=> guarded
  /\ \A i \in DOMAIN gqueue : where[gqueue[i]] = "queued" /\ co[gqueue[i]] = "wait"

(* No wake-up is given to a thread that is not suspended.                  *)
NoStrayWakeup == strays = 0

(* When the event loop has nothing left to deliver, nobody waits.          *)
NobodyStranded ==
  (stack = <<>> /\ ticks = <<>> /\ \A r \in Runner : num[r] <= 0)
    => \A r \in Runner : state[r] = "ready"

(* Suspensions and wake-ups match: none is wasted on a thread that is not  *)
(* suspended, and when the event loop has nothing left to deliver nobody   *)
(* is left waiting for one that will not come.                             *)
WakeupsMatch == NoStrayWakeup /\ NobodyStranded

(* An item given to a runner with run() is eventually started, whatever    *)
(* the items before it wait for.                                           *)
ItemsStart ==
  \A r \in Runner : (queue[r] # <<>> /\ state[r] # "ready") ~> (queue[r] = <<>>)
=============================================================================
