----------------------------- MODULE RingBuffer -----------------------------
(***************************************************************************)
(* util/queue.lua: a ring buffer over a table t of `size' slots.  head is  *)
(* the slot of the next insert, tail the slot of the next read, items the  *)
(* number of stored items.  All three are needed: head = tail both when    *)
(* the buffer is empty and when it is full.                                *)
(***************************************************************************)
EXTENDS Naturals, Sequences

CONSTANTS Item, size, Nil

ASSUME RingSizeAssumption == size \in Nat \ {0}
ASSUME RingNilAssumption == Nil \notin Item /\ TRUE \notin Item /\ 0 \notin Item

VARIABLES t, head, tail, items, ret,
          allow_wrapping   \* fixed when the queue is created

ringVars == <<t, head, tail, items, ret, allow_wrapping>>

Slot == 1..size

(* (p % size) + 1: the slot after p. *)
NextSlot(p) == (p % size) + 1

(* Never-written slots are nil; pop() overwrites the slot it frees with 0. *)
Cell == Item \cup {Nil, 0}

new ==
  /\ t = [p \in Slot |-> Nil]
  /\ head = 1
  /\ tail = 1
  /\ items = 0
  /\ ret = Nil
  /\ allow_wrapping \in BOOLEAN

push(v) ==
  \/ /\ items < size
     /\ t' = [t EXCEPT ![head] = v]
     /\ items' = items + 1
     /\ head' = NextSlot(head)
     /\ ret' = TRUE
     /\ UNCHANGED tail
  \/ /\ items >= size
     /\ allow_wrapping
     /\ tail' = NextSlot(tail)
     /\ t' = [t EXCEPT ![head] = v]
     /\ items' = (items - 1) + 1
     /\ head' = NextSlot(head)
     /\ ret' = TRUE
  \/ /\ items >= size
     /\ ~allow_wrapping
     /\ ret' = Nil
     /\ UNCHANGED <<t, head, tail, items>>

pop ==
  \/ /\ items = 0
     /\ ret' = Nil
     /\ UNCHANGED <<t, head, tail, items>>
  \/ /\ items # 0
     /\ ret' = t[tail]
     /\ t' = [t EXCEPT ![tail] = 0]
     /\ tail' = NextSlot(tail)
     /\ items' = items - 1
     /\ UNCHANGED head

peek ==
  /\ ret' = IF items = 0 THEN Nil ELSE t[tail]
  /\ UNCHANGED <<t, head, tail, items>>

replace(v) ==
  \/ /\ items = 0
     /\ push(v)
  \/ /\ items # 0
     /\ t' = [t EXCEPT ![tail] = v]
     /\ ret' = TRUE
     /\ UNCHANGED <<head, tail, items>>

(* Mutant: wraps one position too late. *)
read_pos_late(pos) ==
  IF tail + pos > size + 1 THEN (tail + pos) % size ELSE IF tail + pos > size THEN size ELSE tail + pos

(* The slot that the items() iterator reads at position pos. *)
read_pos(pos) ==
  IF tail + pos > size THEN (tail + pos) % size ELSE tail + pos

(* Everything the items() iterator yields, in the order it yields it. *)
stored == [i \in 1..items |-> t[read_pos(i - 1)]]

RingNext ==
  /\ \/ \E v \in Item : push(v) \/ replace(v)
     \/ pop
     \/ peek
  /\ UNCHANGED allow_wrapping

RingSpec == new /\ [][RingNext]_ringVars
-----------------------------------------------------------------------------
(* Types of the variables: the indices stay inside the table and the       *)
(* count within the capacity, for any sequence of calls.                   *)
RingTypeOK ==
  /\ t \in [Slot -> Cell]
  /\ head \in Slot
  /\ tail \in Slot
  /\ items \in 0..size
  /\ ret \in Item \cup {Nil, TRUE}

(* The insert slot is always `items' slots after the read slot, modulo     *)
(* size: the relation push, pop and the wrapping case have to maintain     *)
(* together for items() to yield what was pushed.                          *)
HeadFollowsTail ==
  head = IF tail + items > size THEN tail + items - size ELSE tail + items

(* Every slot that the iterator reads holds a pushed item, never nil or    *)
(* the 0 left behind by an earlier pop.                                    *)
StoredAreItems == \A i \in 1..items : t[read_pos(i - 1)] \in Item

RingInv == RingTypeOK /\ HeadFollowsTail /\ StoredAreItems

(* The ring buffer implements the bounded FIFO: with the iterator's view   *)
(* as the abstract queue, every call returns and leaves what the FIFO      *)
(* would, across any number of wrap-arounds.                               *)
Fifo == INSTANCE BoundedFifo WITH queue <- stored
ImplementsFifo == Fifo!FifoSpec
=============================================================================
