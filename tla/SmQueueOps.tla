----------------------------- MODULE SmQueueOps -----------------------------
(***************************************************************************)
(* util/smqueue.lua: the queue of stanzas sent on a stream and not yet     *)
(* acknowledged by the other side.  A queue is a record of                 *)
(*   head   the number of stanzas ever pushed,                             *)
(*   tail   the number the other side has acknowledged,                    *)
(*   queue  the stanzas still held: a util/queue created with              *)
(*          allow_wrapping, so a full one forgets its oldest stanza.       *)
(* RingBuffer shows that util/queue is the sequence assumed here.          *)
(***************************************************************************)
EXTENDS Integers, Sequences

CONSTANT QueueSize    \* smacks_max_queue_size

ASSUME QueueSizeAssumption == QueueSize \in Nat \ {0}

NewQueue == [head |-> 0, tail |-> 0, queue |-> <<>>]

(* The last n elements of s, all of s when it is shorter. *)
LastN(s, n) == IF Len(s) <= n THEN s ELSE SubSeq(s, Len(s) - n + 1, Len(s))

Push(q, v) ==
  [q EXCEPT !.head = @ + 1,
            !.queue = Append(IF Len(@) >= QueueSize THEN Tail(@) ELSE @, v)]

CountUnacked(q) == q.head - q.tail
CountAcked(q) == q.tail

(* What ack(h) reports: an out-of-range h is refused and changes nothing.  *)
AckError(q, h) ==
  CASE h < q.tail -> "tail"
    [] h > q.head -> "head"
    [] OTHER -> "none"

(* Mutant: pops one stanza per acknowledged stanza, held or not. *)
Ack_count(q, h) ==
  [q EXCEPT !.tail = h,
            !.queue = IF Len(@) <= h - q.tail THEN <<>> ELSE SubSeq(@, h - q.tail + 1, Len(@))]

(* Mutant: stops popping one stanza early. *)
Ack_late(q, h) == [q EXCEPT !.tail = h, !.queue = LastN(@, q.head - h + 1)]

(* An in-range ack(h) moves the tail and pops until no more than the       *)
(* unacknowledged stanzas are held.                                        *)
Ack(q, h) == [q EXCEPT !.tail = h, !.queue = LastN(@, q.head - h)]

(* The list of stanzas ack(h) returns: the popped ones. *)
AckedBy(q, h) == SubSeq(q.queue, 1, Len(q.queue) - Len(Ack(q, h).queue))

Resumable(q) == Len(q.queue) >= q.head - q.tail

(* consume() pops everything but leaves both counters alone. *)
Consume(q) == [q EXCEPT !.queue = <<>>]
=============================================================================
