------------------------------ MODULE SmQueue -------------------------------
(***************************************************************************)
(* One smqueue driven by any sequence of calls: push by the outgoing       *)
(* filter, ack with whatever number the peer claims, consume when the      *)
(* stream is given up.  sent records everything ever pushed and drained    *)
(* the number pushed before the last consume; the code keeps neither.      *)
(***************************************************************************)
EXTENDS SmQueueOps

CONSTANTS Stanza,   \* what can be sent
          MaxPush   \* bound: pushes in a behaviour

ASSUME MaxPushAssumption == MaxPush \in Nat

VARIABLES q, sent, drained, acked, err

smqVars == <<q, sent, drained, acked, err>>

SmqInit ==
  /\ q = NewQueue
  /\ sent = <<>>
  /\ drained = 0
  /\ acked = <<>>
  /\ err = "none"

SmqPush(v) ==
  /\ Len(sent) < MaxPush
  /\ q' = Push(q, v)
  /\ sent' = Append(sent, v)
  /\ acked' = <<>>
  /\ err' = "none"
  /\ UNCHANGED drained

SmqAck(h) ==
  /\ err' = AckError(q, h)
  /\ IF err' = "none"
       THEN q' = Ack(q, h) /\ acked' = AckedBy(q, h)
       ELSE q' = q /\ acked' = <<>>
  /\ UNCHANGED <<sent, drained>>

SmqConsume ==
  /\ q' = Consume(q)
  /\ drained' = Len(sent)
  /\ acked' = <<>>
  /\ err' = "none"
  /\ UNCHANGED sent

SmqNext ==
  \/ \E v \in Stanza : SmqPush(v)
  \/ \E h \in 0..(MaxPush + 1) : SmqAck(h)
  \/ SmqConsume

SmqSpec == SmqInit /\ [][SmqNext]_smqVars
-----------------------------------------------------------------------------
Min2(a, b) == IF a <= b THEN a ELSE b

SmqTypeOK ==
  /\ q \in [head : 0..MaxPush, tail : 0..MaxPush, queue : Seq(Stanza)]
  /\ sent \in Seq(Stanza)
  /\ drained \in 0..MaxPush
  /\ acked \in Seq(Stanza)
  /\ err \in {"none", "head", "tail"}

(* The counters stay ordered and count what they say: head everything      *)
(* pushed, tail at most that.                                              *)
CountersOrdered == q.head = Len(sent) /\ q.tail <= q.head /\ drained <= q.head

(* How many stanzas are held is determined by the counters alone: all the  *)
(* unacknowledged ones pushed since the last consume, up to the capacity.  *)
(* An overflow followed by acks and pushes must not leave the queue        *)
(* shorter or longer than this.                                            *)
HeldCount == Len(q.queue) = Min2(QueueSize, Min2(CountUnacked(q), q.head - drained))

(* Whatever mix of overflow, out-of-range acks and consume happened, the   *)
(* held stanzas are the newest ones, in the order they were sent.          *)
HeldAreNewest ==
  \A i \in 1..Len(q.queue) : q.queue[i] = sent[Len(sent) - Len(q.queue) + i]

SmqInv == SmqTypeOK /\ CountersOrdered /\ HeldCount /\ HeldAreNewest

(* resume() yields exactly the unacknowledged stanzas when resumable()     *)
(* says yes: none missing although the queue wraps, none acknowledged.     *)
ResumesAll ==
  Resumable(q) => q.queue = SubSeq(sent, q.tail + 1, q.head)

(* resumable() refuses only for a reason: more stanzas unacknowledged than *)
(* the queue can hold, or a consume that already gave some of them up.     *)
RefusalHasReason ==
  ~Resumable(q) => CountUnacked(q) > QueueSize \/ q.tail < drained

(* Whatever mix of overflow, acks and consume came before, resumable()     *)
(* tells the truth both ways: a session it lets resume is resent every     *)
(* unacknowledged stanza and no other, and it refuses only when some of    *)
(* them are really gone.                                                   *)
ResumeIsLossless == ResumesAll /\ RefusalHasReason

(* An accepted ack returns exactly the newly acknowledged stanzas that     *)
(* were still held, oldest first; a refused one returns and changes        *)
(* nothing.                                                                *)
AckReturnsAcked ==
  [][\A h \in 0..(MaxPush + 1) : SmqAck(h) =>
       IF h \in q.tail..q.head
         THEN acked' = SubSeq(sent, q.head - Len(q.queue) + 1, h)
         ELSE q' = q /\ acked' = <<>>]_smqVars
=============================================================================
