---------------------------- MODULE BoundedFifo ----------------------------
(***************************************************************************)
(* What util/queue promises its callers: a first-in first-out queue of at  *)
(* most `size' items which, when full, either refuses a new item or, when  *)
(* it was created with allow_wrapping, forgets its oldest one.  The ring   *)
(* buffer of the code (module RingBuffer) implements this specification.   *)
(***************************************************************************)
EXTENDS Naturals, Sequences

CONSTANTS Item,            \* what can be stored
          size,            \* capacity
          Nil              \* Lua's nil, as returned by pop() and peek()

VARIABLES queue,  \* the stored items, oldest first
          ret,    \* what the last call returned
          allow_wrapping   \* overwrite the oldest item when full?

fifoVars == <<queue, ret, allow_wrapping>>

FifoInit == queue = <<>> /\ ret = Nil /\ allow_wrapping \in BOOLEAN

FifoPush(v) ==
  \/ /\ Len(queue) < size
     /\ queue' = Append(queue, v)
     /\ ret' = TRUE
  \/ /\ Len(queue) = size
     /\ allow_wrapping
     /\ queue' = Append(Tail(queue), v)
     /\ ret' = TRUE
  \/ /\ Len(queue) = size
     /\ ~allow_wrapping
     /\ queue' = queue
     /\ ret' = Nil

FifoPop ==
  \/ /\ queue # <<>>
     /\ queue' = Tail(queue)
     /\ ret' = Head(queue)
  \/ /\ queue = <<>>
     /\ queue' = queue
     /\ ret' = Nil

FifoPeek ==
  /\ queue' = queue
  /\ ret' = IF queue = <<>> THEN Nil ELSE Head(queue)

(* replace() changes the oldest item in place; on an empty queue it pushes. *)
FifoReplace(v) ==
  \/ /\ queue # <<>>
     /\ queue' = [queue EXCEPT ![1] = v]
     /\ ret' = TRUE
  \/ /\ queue = <<>>
     /\ FifoPush(v)

FifoNext ==
  /\ \/ \E v \in Item : FifoPush(v) \/ FifoReplace(v)
     \/ FifoPop
     \/ FifoPeek
  /\ UNCHANGED allow_wrapping

FifoSpec == FifoInit /\ [][FifoNext]_fifoVars
=============================================================================
